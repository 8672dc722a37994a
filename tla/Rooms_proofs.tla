---------------------------- MODULE Rooms_proofs ----------------------------
(***************************************************************************)
(* What holds of Rooms for any number of keys, rooms, handlers, failures   *)
(* and deaths of the process: types, and that the maps and the table       *)
(* agree, that no replaced room comes back, that no room is created beside *)
(* another and that a restart is announced once.                           *)
(*                                                                         *)
(* The argument: whoever holds a room holds it for the thing its bridge    *)
(* state says it is (Owns), whatever overlaps; and as long as handlers do  *)
(* not, each phase of the one that is under way fixes what the table and   *)
(* the maps may say of the thing it works on (Phases).  A room that was    *)
(* told it is replaced is Silent unless its row was kept.                  *)
(***************************************************************************)
EXTENDS Rooms, TLAPS

Shape == \A d \in Doer :
  /\ task[d].op = "none" => task[d].pc = "none"
  /\ task[d].op = "start" => d = "start"
  /\ task[d].pc = "announce" => task[d].op = "start"

Owned(x, r) == r # NoRoom => r <= made /\ shown[r].of = x

Holding(d) == task[d].pc \in {"record", "patch", "put", "map"}

RowsOwned == \A x \in Thing : Owned(x, table[x].rid) /\ Owned(x, ids[x])
KeysOwned == \A r \in Room : rkey[r] # 0 => Owned(rkey[r], r)
LocalOwned(d) ==
  /\ Holding(d) => task[d].rid # NoRoom /\ Owned(task[d].at, task[d].rid)
  /\ At(d, "forget") => Owned(task[d].key, task[d].old)
LocalsOwned == \A d \in Doer : LocalOwned(d)
UnreadOwned == \A r \in unread : r # NoRoom /\ Owned(Status, r)
Owns == RowsOwned /\ KeysOwned /\ LocalsOwned /\ UnreadOwned

Silent == told \ kept

\* No row is known of the thing a handler creates a room for.
Missing(x) == table[x].rid = NoRoom \/ (x = Status /\ table[x].rid \in unread)

Alone == crossed # "now" => \A d, e \in Doer : Busy(d) /\ Busy(e) => d = e

Phases == crossed # "now" => \A d \in Doer :
  /\ task[d].pc \in {"create", "record"} => Missing(task[d].at)
  /\ task[d].pc \in {"patch", "put", "map"} => table[task[d].at].rid = task[d].rid
  /\ At(d, "forget") => /\ task[d].old # NoRoom
                        /\ table[task[d].key].rid = task[d].old
                        /\ ids[task[d].key] = NoRoom
                        /\ task[d].old \in Silent

Agree == crossed # "now" =>
  /\ \A k \in Key : ids[k] # NoRoom => table[k].rid = ids[k]
  /\ \A k \in Key, r \in Room : rkey[r] = k <=> r # NoRoom /\ ids[k] = r

Recorded == crossed = "never" => \A r \in Room :
  User < r /\ r <= made /\ r \notin Silent /\ r \notin lost /\ r \notin unread =>
    \/ \E x \in Thing : table[x].rid = r
    \/ \E d \in Doer : At(d, "record") /\ task[d].rid = r

Forgetting(r) == \E d \in Doer : At(d, "forget") /\ task[d].old = r

Replaced == crossed = "never" => \A r \in Silent :
  /\ r # NoRoom /\ r <= made
  /\ \A x \in Thing : ids[x] # r /\ (table[x].rid = r => Forgetting(r))
  /\ rkey[r] = 0
  /\ \A d \in Doer : At(d, "record") => task[d].rid # r

Safe == Shape /\ Owns /\ Alone /\ Phases /\ Agree /\ Recorded /\ Replaced

\* A request that is stored, or read and not answered yet, is one announcement.
Requested == IF request # 0 THEN 1 ELSE 0
Pending == IF At("start", "announce") /\ task["start"].look # NoHash THEN 1 ELSE 0
Spent == said + Requested + Pending <= 0

-----------------------------------------------------------------------------
(* Types.                                                                  *)

LEMMA Params ==
  /\ K \in Int /\ 1 <= K /\ L \in Int /\ 1 <= L /\ M \in Int /\ 1 <= M
  /\ Asks \in Int /\ 0 <= Asks /\ Edits \in Int /\ 0 <= Edits /\ Mishaps \in Int /\ 0 <= Mishaps
  /\ "start" \notin Tasks
<1>1. /\ K \in Nat \ {0} /\ L \in Nat \ {0} /\ M \in Nat \ {0}
      /\ Asks \in Nat /\ Edits \in Nat /\ Mishaps \in Nat
      /\ "start" \notin Tasks
  BY RoomsAssumption
<1> QED BY <1>1

LEMMA Bounds ==
  /\ 1 \in Key /\ Key \subseteq Thing /\ Ghost \in Thing /\ Status \in Thing
  /\ Thing \subseteq Int /\ 0 \notin Key
  /\ NoRoom \in Room /\ User \in Room /\ Room \subseteq Int
  /\ \A r \in Room : r <= M + 1 /\ 0 <= r
  /\ Look \subseteq Int /\ NoHash \in Look /\ Mixed \in Look /\ Blank \in Look
  /\ 1 .. L \subseteq Look /\ 1 \in 1 .. L
  /\ M \in Int /\ 1 <= M /\ "start" \in Doer /\ Tasks \subseteq Doer /\ "start" \notin Tasks
<1>1. /\ 1 \in Key /\ Key \subseteq Thing /\ Ghost \in Thing /\ Status \in Thing
      /\ Thing \subseteq Int /\ 0 \notin Key
  BY Params DEF Key, Thing, Ghost, Status
<1>2. /\ NoRoom \in Room /\ User \in Room /\ Room \subseteq Int
      /\ \A r \in Room : r <= M + 1 /\ 0 <= r
  BY Params DEF NoRoom, User, Room
<1>3. /\ Look \subseteq Int /\ NoHash \in Look /\ Mixed \in Look /\ Blank \in Look
      /\ 1 .. L \subseteq Look /\ 1 \in 1 .. L
  BY Params DEF Look, NoHash, Mixed, Blank
<1> QED BY <1>1, <1>2, <1>3, Params DEF Doer

PC == {"none", "register", "swap", "look", "create",
       "record", "patch", "put", "map", "forget", "announce"}

MemoryType == conf \in Config /\ as \in BOOLEAN /\ ready \in BOOLEAN /\ dying \in BOOLEAN
MapsType == ids \in [Thing -> Room] /\ rkey \in [Room -> Key \cup {0}]
TaskType == task \in [Doer -> TaskRec]
DiskType == file \in Config /\ request \in Key \cup {0}
TableType == table \in [Thing -> [rid : Room, hash : Look]]
ServerType == shown \in [Room -> [of : Thing, look : Look]] /\ made \in User .. M + 1
BoundsType == asks \in 0 .. Asks /\ edits \in 0 .. Edits /\ mishaps \in 0 .. Mishaps
HistoryType == /\ crossed \in {"never", "before", "now"}
               /\ lost \subseteq Room /\ told \subseteq Room /\ kept \subseteq Room
               /\ unread \subseteq Room /\ said \in Int

LEMMA Parts ==
  /\ TypeOK <=> /\ MemoryType /\ MapsType /\ TaskType /\ DiskType
                /\ TableType /\ ServerType /\ BoundsType /\ HistoryType
  /\ TypeOK' <=> /\ MemoryType' /\ MapsType' /\ TaskType' /\ DiskType'
                 /\ TableType' /\ ServerType' /\ BoundsType' /\ HistoryType'
BY Zenon DEF TypeOK, MemoryType, MapsType, TaskType, DiskType, TableType, ServerType,
             BoundsType, HistoryType

LEMMA NoTaskType == NoTask \in TaskRec /\ Starting \in TaskRec
BY Bounds DEF NoTask, Starting, TaskRec, NoConf, Config

LEMMA Fields ==
  /\ NoTask.op = "none" /\ NoTask.pc = "none"
  /\ Starting.op = "start" /\ Starting.pc = "register"
BY DEF NoTask, Starting

\* A handler that takes a step is what it was, at another place.
LEMMA GoType ==
  ASSUME NEW q \in TaskRec, NEW pc \in PC
  PROVE  [q EXCEPT !.pc = pc] \in TaskRec
BY DEF TaskRec, PC

LEMMA MishapType ==
  ASSUME TypeOK, NEW what, Mishap(what)
  PROVE  mishaps' \in 0 .. Mishaps
<1>1. mishaps \in 0 .. Mishaps
  BY DEF TypeOK
<1> QED BY <1>1, Params DEF Mishap

LEMMA FailsType ==
  ASSUME TypeOK, NEW d \in Doer, NEW what, Fails(d, what)
  PROVE  /\ task' \in [Doer -> TaskRec] /\ mishaps' \in 0 .. Mishaps
         /\ \/ task'[d] = NoTask
            \/ task[d].op = "start" /\ task'[d] = Starting
         /\ \A e \in Doer \ {d} : task'[e] = task[e]
<1>1. mishaps' \in 0 .. Mishaps
  BY MishapType DEF Fails
<1>2. PICK q \in TaskRec : /\ task' = [task EXCEPT ![d] = q]
                           /\ \/ q = NoTask
                              \/ task[d].op = "start" /\ q = Starting
  BY NoTaskType DEF Fails, GiveUp
<1>3. task \in [Doer -> TaskRec]
  BY DEF TypeOK
<1> QED BY <1>1, <1>2, <1>3

LEMMA TypeInit == Init => TypeOK
<1> SUFFICES ASSUME Init PROVE TypeOK
  OBVIOUS
<1>1. file \in Config
  BY Bounds DEF Init, Config
<1>2. task \in [Doer -> TaskRec]
  BY NoTaskType DEF Init
<1>3. table \in [Thing -> [rid : Room, hash : Look]]
  BY Bounds DEF Init
<1>4. shown \in [Room -> [of : Thing, look : Look]]
  BY Bounds DEF Init
<1>5. made \in User .. M + 1
  BY Bounds DEF Init, User
<1>6. BoundsType
  BY Params DEF Init, BoundsType
<1>7. MapsType
  BY Bounds DEF Init, MapsType
<1>8. MemoryType
  BY <1>1 DEF Init, MemoryType
<1>9. DiskType
  BY <1>1 DEF Init, DiskType
<1>10. HistoryType
  BY DEF Init, HistoryType
<1> QED BY <1>2, <1>3, <1>4, <1>5, <1>6, <1>7, <1>8, <1>9, <1>10, Parts
        DEF TaskType, TableType, ServerType

\* The steps that change the locals of one handler and little else.
LEMMA TypeLocal ==
  ASSUME TypeOK, NEW d \in Doer,
         \/ Start(d) \/ Read(d) \/ Reconciled(d) \/ NoAppservice(d)
         \/ AskReload(d) \/ Swap(d)
  PROVE  TypeOK'
<1> USE DEF At
<1>0. task[d] \in TaskRec /\ task \in [Doer -> TaskRec]
  BY Parts DEF TaskType
<1>1. CASE Start(d)
  <2>1. MemoryType' /\ MapsType' /\ DiskType' /\ TableType' /\ ServerType' /\ HistoryType'
    BY <1>1, Parts DEF Start, MemoryType, MapsType, DiskType, TableType, ServerType,
       HistoryType, disk, server, history
  <2>2. CASE Fails(d, "register")
    BY <1>1, <2>1, <2>2, FailsType, Parts DEF Start, TaskType, BoundsType
  <2>3. CASE task' = [task EXCEPT ![d] = [task[d] EXCEPT !.pc = "look", !.todo = {Ghost}]]
             /\ UNCHANGED mishaps
    <3>1. [task[d] EXCEPT !.pc = "look", !.todo = {Ghost}] \in TaskRec
      BY <1>0, Bounds DEF TaskRec
    <3> QED BY <1>0, <1>1, <2>1, <2>3, <3>1, Parts DEF Start, TaskType, BoundsType
  <2> QED BY <1>1, <2>2, <2>3 DEF Start
<1>2. CASE Read(d)
  <2>0. PICK x \in Thing : unread' \in {unread, unread \ {table[x].rid},
                                       unread \cup ({table[x].rid} \ {NoRoom})}
    BY <1>2 DEF Read
  <2>1. /\ MemoryType' /\ MapsType' /\ DiskType' /\ TableType' /\ ServerType' /\ HistoryType'
        /\ asks' = asks /\ edits' = edits
    <3>1. table[x].rid \in Room
      BY Parts DEF TableType
    <3>2. HistoryType'
      BY <1>2, <2>0, <3>1, Parts DEF Read, HistoryType
    <3> QED BY <1>2, <3>2, Parts DEF Read, MemoryType, MapsType, DiskType, TableType, ServerType,
               disk, server, memory
  <2>2. CASE Fails(d, "read")
    BY <2>1, <2>2, FailsType, Parts DEF TaskType, BoundsType
  <2>3. ASSUME NEW y \in Thing, NEW rid \in Room, NEW hash, Found(d, y, rid, hash),
               mishaps' \in 0 .. Mishaps
        PROVE  TypeOK'
    <3> DEFINE pc == IF rid = NoRoom THEN "create"
                     ELSE IF hash # WantedLook(y) THEN "patch" ELSE "map"
    <3>1. WantedLook(y) \in Look /\ pc \in PC
      BY Bounds, Parts DEF WantedLook, MemoryType, Config, PC
    <3>2. [task[d] EXCEPT !.todo = task[d].todo \ {y}, !.at = y,
                          !.rid = rid, !.look = WantedLook(y), !.pc = pc] \in TaskRec
      <4> HIDE DEF pc
      <4> QED BY <1>0, <3>1 DEF TaskRec, PC
    <3> QED BY <2>1, <2>3, <3>2, Parts DEF TaskType, BoundsType, Found
  <2>4. /\ \A y \in Thing : table[y].rid \in Room
        /\ NoRoom \in Room /\ mishaps \in 0 .. Mishaps
    BY Bounds, Parts DEF TableType, BoundsType
  <2>5. CASE ~Fails(d, "read")
    <3>1. /\ mishaps' = mishaps \/ Mishap("read")
          /\ \E y \in Thing : \E hash : \/ Found(d, y, table[y].rid, hash)
                                      \/ Found(d, y, NoRoom, hash)
      BY <1>2, <2>5 DEF Read
    <3> QED BY <2>3, <2>4, <3>1, MishapType
  <2> QED BY <2>2, <2>5
<1>3. CASE Reconciled(d)
  <2>1. task' \in [Doer -> TaskRec]
    <3>1. [task[d] EXCEPT !.pc = "announce", !.look = NoHash] \in TaskRec
      BY <1>0, Bounds DEF TaskRec
    <3> QED BY <1>0, <1>3, <3>1, NoTaskType DEF Reconciled, End
  <2> QED BY <1>3, <2>1, Parts DEF Reconciled, MemoryType, MapsType, DiskType, TableType, TaskType,
             ServerType, BoundsType, HistoryType, disk, server, history, bounds
<1>4. CASE NoAppservice(d)
  BY <1>4, NoTaskType, Parts DEF NoAppservice, End, MemoryType, MapsType, DiskType, TableType,
     TaskType, ServerType, BoundsType, HistoryType, disk, server, history, bounds, memory
<1>5. CASE AskReload(d)
  <2>1. [NoTask EXCEPT !.op = "reload", !.pc = "swap", !.conf = file] \in TaskRec
    BY NoTaskType, Parts DEF TaskRec, DiskType
  <2>2. asks' \in 0 .. Asks
    BY <1>5, Params, Parts DEF AskReload, Asked, BoundsType
  <2> QED BY <1>5, <2>1, <2>2, Parts DEF AskReload, Asked, MemoryType, MapsType, DiskType, TableType,
             TaskType, ServerType, BoundsType, HistoryType, disk, server, memory
<1>6. CASE Swap(d)
  <2>1. [task[d] EXCEPT !.pc = "look", !.todo = {Ghost}, !.conf = NoConf] \in TaskRec
    BY NoTaskType, Bounds, Parts DEF TaskRec, TaskType, NoTask
  <2>2. task[d].conf \in Config
    BY Parts DEF TaskType, TaskRec
  <2> QED BY <1>6, <2>1, <2>2, Parts DEF Swap, MemoryType, MapsType, DiskType, TableType,
             TaskType, ServerType, BoundsType, HistoryType, disk, server, bounds, history
<1> QED BY <1>1, <1>2, <1>3, <1>4, <1>5, <1>6

LEMMA TypeRooms ==
  ASSUME TypeOK, NEW d \in Doer,
         \/ CreateRoom(d) \/ RecordRoom(d) \/ PatchRoom(d) \/ PutHash(d) \/ MapRoom(d)
  PROVE  TypeOK'
<1> USE DEF At
<1>0. /\ task[d] \in TaskRec /\ task[d].at \in Thing /\ task[d].rid \in Room
      /\ task[d].look \in Look /\ task \in [Doer -> TaskRec]
  BY Parts DEF TaskType, TaskRec
<1>1. CASE CreateRoom(d)
  <2>1. made + 1 \in Room /\ made' \in User .. M + 1
    BY <1>1, Params, Parts DEF CreateRoom, ServerType, Room, User, NoRoom
  <2>2. [task[d] EXCEPT !.pc = "record", !.rid = made + 1] \in TaskRec
    BY <1>0, <2>1 DEF TaskRec
  <2>3. MemoryType' /\ MapsType' /\ DiskType' /\ TableType'
    BY <1>1, Parts DEF CreateRoom, MemoryType, MapsType, DiskType, TableType, disk, memory
  <2>4. ServerType' /\ HistoryType'
    BY <1>0, <1>1, <2>1, Parts DEF CreateRoom, ServerType, HistoryType
  <2>5. TaskType' /\ BoundsType'
    BY <1>0, <1>1, <2>2, FailsType, Parts DEF CreateRoom, TaskType, BoundsType
  <2> QED BY <2>3, <2>4, <2>5, Parts
<1>2. CASE RecordRoom(d)
  <2>1. MemoryType' /\ MapsType' /\ DiskType' /\ ServerType'
    BY <1>2, Parts DEF RecordRoom, MemoryType, MapsType, DiskType, ServerType, server, memory
  <2>2. HistoryType'
    BY <1>0, <1>2, Parts DEF RecordRoom, HistoryType
  <2>3. TableType'
    BY <1>0, <1>2, Bounds, Parts DEF RecordRoom, TableType
  <2>4. TaskType' /\ BoundsType'
    <3>1. mishaps' \in 0 .. Mishaps /\ UNCHANGED <<asks, edits>>
      BY <1>2, FailsType, MishapType, Parts DEF RecordRoom, BoundsType
    <3>2. CASE Fails(d, "record")
      BY <3>1, <3>2, FailsType, Parts DEF TaskType, BoundsType
    <3>3. CASE Go(d, "map") \/ Go(d, "patch")
      BY <1>0, <3>1, <3>3, GoType, Parts DEF Go, TaskType, BoundsType, PC
    <3> QED BY <1>2, <3>2, <3>3 DEF RecordRoom
  <2> QED BY <2>1, <2>2, <2>3, <2>4, Parts
<1>3. CASE PatchRoom(d)
  <2>1. MemoryType' /\ MapsType' /\ DiskType' /\ TableType' /\ HistoryType'
    BY <1>3, Parts DEF PatchRoom, MemoryType, MapsType, DiskType, TableType, HistoryType,
       disk, memory, history
  <2>2. ServerType'
    BY <1>0, <1>3, Bounds, Parts DEF PatchRoom, ServerType
  <2>3. TaskType' /\ BoundsType'
    BY <1>0, <1>3, FailsType, GoType, Parts DEF PatchRoom, Go, TaskType, BoundsType, PC
  <2> QED BY <2>1, <2>2, <2>3, Parts
<1>4. CASE PutHash(d)
  <2>1. MemoryType' /\ MapsType' /\ DiskType' /\ ServerType' /\ HistoryType'
    BY <1>4, Parts DEF PutHash, MemoryType, MapsType, DiskType, ServerType, HistoryType,
       server, memory, history
  <2>2. TableType'
    BY <1>0, <1>4, Parts DEF PutHash, TableType
  <2>3. TaskType' /\ BoundsType'
    BY <1>0, <1>4, FailsType, GoType, Parts DEF PutHash, Go, TaskType, BoundsType, PC
  <2> QED BY <2>1, <2>2, <2>3, Parts
<1>5. CASE MapRoom(d)
  <2>1. ASSUME NEW todo \in SUBSET Thing
        PROVE  [task[d] EXCEPT !.pc = "look", !.at = Ghost, !.rid = NoRoom,
                               !.look = NoHash, !.todo = todo] \in TaskRec
    BY <1>0, Bounds DEF TaskRec
  <2>2. conf.rooms \cup {Status} \in SUBSET Thing /\ task[d].todo \in SUBSET Thing
    BY <1>0, Bounds, Parts DEF TaskRec, MemoryType, Config
  <2>3. TaskType'
    BY <1>0, <1>5, <2>1, <2>2 DEF MapRoom, TaskType
  <2>4. MapsType'
    BY <1>0, <1>5, Parts DEF MapRoom, MapsType
  <2> QED BY <1>5, <2>3, <2>4, Parts DEF MapRoom, MemoryType, DiskType, TableType,
             ServerType, BoundsType, HistoryType, disk, server, bounds, history
<1> QED BY <1>1, <1>2, <1>3, <1>4, <1>5

LEMMA TypeOthers ==
  ASSUME TypeOK, NEW d \in Doer,
         \/ AnnounceRestart(d) \/ AskNewRoom(d) \/ ForgetRoomID(d)
         \/ Restart(d) \/ Stop \/ Edit
  PROVE  TypeOK'
<1> USE DEF At
<1>0. task[d] \in TaskRec /\ task \in [Doer -> TaskRec] /\ task[d].key \in Key /\ task[d].old \in Room
  BY Parts DEF TaskType, TaskRec
<1>1. CASE AnnounceRestart(d)
  <2>1. /\ MemoryType' /\ MapsType' /\ TableType' /\ ServerType' /\ BoundsType'
    <3>1. mishaps' \in 0 .. Mishaps /\ UNCHANGED <<asks, edits>>
      BY <1>1, MishapType, Parts DEF AnnounceRestart, BoundsType
    <3> QED BY <1>1, <3>1, Parts DEF AnnounceRestart, MemoryType, MapsType, TableType, ServerType,
               BoundsType, memory, server
  <2>2. DiskType'
    BY <1>1, Parts DEF AnnounceRestart, DiskType
  <2>3. HistoryType'
    BY <1>1, Parts DEF AnnounceRestart, HistoryType
  <2>4. TaskType'
    <3>1. ASSUME request # 0 PROVE [task[d] EXCEPT !.look = 1, !.key = request] \in TaskRec
      BY <1>0, <3>1, Bounds, Parts DEF TaskRec, DiskType
    <3> QED BY <1>0, <1>1, <3>1, NoTaskType DEF AnnounceRestart, End, TaskType
  <2> QED BY <2>1, <2>2, <2>3, <2>4, Parts
<1>2. CASE AskNewRoom(d)
  <2>1. PICK k \in Key :
          /\ task' = [task EXCEPT ![d] = [NoTask EXCEPT
                        !.op = "new room", !.pc = "forget", !.key = k, !.old = ids[k]]]
          /\ rkey' = [rkey EXCEPT ![ids[k]] = 0]
          /\ ids' = [ids EXCEPT ![k] = NoRoom]
    BY <1>2, Parts DEF AskNewRoom, MemoryType, Config
  <2>2. ids[k] \in Room
    BY Bounds, Parts DEF MapsType
  <2>3. [NoTask EXCEPT !.op = "new room", !.pc = "forget", !.key = k, !.old = ids[k]] \in TaskRec
    BY <2>2, NoTaskType DEF TaskRec
  <2>4. asks' \in 0 .. Asks
    <3>1. asks < Asks /\ asks' = asks + 1
      BY <1>2 DEF AskNewRoom, Asked
    <3> QED BY <3>1, Params, Parts DEF BoundsType
  <2>5. HistoryType' /\ BoundsType'
    BY <1>2, <2>4, Parts DEF AskNewRoom, Asked, HistoryType, BoundsType
  <2>6. MapsType'
    BY <2>1, <2>2, Bounds, Parts DEF MapsType
  <2> QED BY <1>0, <1>2, <2>1, <2>3, <2>5, <2>6, Parts DEF AskNewRoom, MemoryType, DiskType, TableType,
             TaskType, ServerType, disk, server
<1>3. CASE ForgetRoomID(d)
  <2>1. MemoryType' /\ DiskType' /\ ServerType'
    BY <1>3, Parts DEF ForgetRoomID, MemoryType, DiskType, ServerType, server
  <2>2. MapsType'
    BY <1>0, <1>3, Bounds, Parts DEF ForgetRoomID, MapsType
  <2>3. TableType'
    BY <1>0, <1>3, Bounds, Parts DEF ForgetRoomID, TableType
  <2>4. HistoryType'
    BY <1>0, <1>3, Parts DEF ForgetRoomID, HistoryType
  <2>5. TaskType' /\ BoundsType'
    <3>1. [task[d] EXCEPT !.pc = "look", !.todo = conf.rooms] \in TaskRec
      BY <1>0, Bounds, Parts DEF TaskRec, MemoryType, Config
    <3> QED BY <1>0, <1>3, <3>1, FailsType, Parts DEF ForgetRoomID, TaskType, BoundsType
  <2> QED BY <2>1, <2>2, <2>3, <2>4, <2>5, Parts
<1>4. CASE Restart(d)
  <2>1. asks' \in 0 .. Asks
    BY <1>4, Params, Parts DEF Restart, Asked, BoundsType
  <2>2. DiskType'
    <3>1. PICK r \in Room : rkey[r] # 0 /\ request' = rkey[r]
      BY <1>4 DEF Restart
    <3>2. rkey[r] \in Key \cup {0} /\ file' = file
      BY <1>4, Parts DEF Restart, MapsType
    <3> QED BY <3>1, <3>2, Parts DEF DiskType
  <2>3. MemoryType' /\ MapsType' /\ TaskType' /\ TableType' /\ ServerType'
    BY <1>4, Parts DEF Restart, MemoryType, MapsType, TaskType, TableType, ServerType, server
  <2>4. BoundsType' /\ HistoryType'
    BY <1>4, <2>1, Parts DEF Restart, Asked, BoundsType, HistoryType
  <2> QED BY <2>2, <2>3, <2>4, Parts
<1>5. CASE Stop
  <2>1. MemoryType' /\ DiskType' /\ TableType' /\ ServerType'
    BY <1>5, Parts DEF Stop, Reset, MemoryType, DiskType, TableType, ServerType, disk, server
  <2>2. MapsType'
    BY <1>5, Bounds DEF Stop, Reset, MapsType
  <2>3. TaskType'
    BY <1>5, NoTaskType DEF Stop, Reset, TaskType
  <2>4. BoundsType'
    BY <1>5, Params, Parts DEF Stop, BoundsType
  <2>5. HistoryType'
    <3>1. /\ {task[e].rid : e \in {f \in Doer : At(f, "record")}} \subseteq Room
          /\ {task[e].old : e \in {f \in Doer : At(f, "forget")}} \subseteq Room
      BY Parts DEF TaskType, TaskRec
    <3> QED BY <1>5, <3>1, Parts DEF Stop, Reset, HistoryType
  <2> QED BY <2>1, <2>2, <2>3, <2>4, <2>5, Parts
<1>6. CASE Edit
  <2>1. edits' \in 0 .. Edits
    BY <1>6, Params, Parts DEF Edit, BoundsType
  <2> QED BY <1>6, <2>1, Parts DEF Edit, MemoryType, MapsType, DiskType, TableType,
             TaskType, ServerType, BoundsType, HistoryType, memory, server, history
<1> QED BY <1>1, <1>2, <1>3, <1>4, <1>5, <1>6

LEMMA TypeNext == TypeOK /\ [Next]_vars => TypeOK'
<1> SUFFICES ASSUME TypeOK, [Next]_vars PROVE TypeOK'
  OBVIOUS
<1>1. "start" \in Doer /\ Tasks \subseteq Doer
  BY Bounds
<1>2. CASE StartStep
  BY <1>1, <1>2, TypeLocal, TypeRooms, TypeOthers DEF StartStep
<1>3. ASSUME NEW d \in Tasks, TaskStep(d) \/ Ask(d)
      PROVE  TypeOK'
  BY <1>1, <1>3, TypeLocal, TypeRooms, TypeOthers DEF TaskStep, Ask
<1>4. CASE Stop \/ Edit
  BY <1>1, <1>4, TypeOthers
<1>5. CASE UNCHANGED vars
  BY <1>5, Parts DEF vars, memory, disk, server, bounds, history, MemoryType, MapsType, DiskType,
     TableType, TaskType, ServerType, BoundsType, HistoryType
<1> QED BY <1>2, <1>3, <1>4, <1>5 DEF Next

\* What every variable ranges over, whatever overlaps, fails or dies.
THEOREM TypeCorrect == Spec => []TypeOK
<1>1. Init => TypeOK
  BY TypeInit
<1>2. TypeOK /\ [Next]_vars => TypeOK'
  BY TypeNext
<1> QED BY <1>1, <1>2, PTL DEF Spec

-----------------------------------------------------------------------------
(* The rooms.                                                              *)

Phase == {"create", "record", "patch", "put", "map", "forget"}

LEMMA Types ==
  ASSUME TypeOK
  PROVE  /\ \A x \in Thing : ids[x] \in Room /\ table[x].rid \in Room
         /\ \A r \in Room : rkey[r] \in Key \cup {0} /\ shown[r].of \in Thing
         /\ \A d \in Doer : /\ task[d].at \in Thing /\ task[d].rid \in Room
                           /\ task[d].key \in Key /\ task[d].old \in Room
                           /\ task[d].look \in Look /\ task[d].pc \in PC
         /\ made \in Int /\ 1 <= made /\ made <= M + 1
         /\ told \subseteq Room /\ kept \subseteq Room /\ Silent \subseteq Room
         /\ lost \subseteq Room /\ unread \subseteq Room
         /\ crossed \in {"never", "before", "now"}
<1>1. \A d \in Doer : task[d] \in TaskRec
  BY Parts DEF TaskType
<1>2. \A d \in Doer : /\ task[d].at \in Thing /\ task[d].rid \in Room
                     /\ task[d].key \in Key /\ task[d].old \in Room
                     /\ task[d].look \in Look /\ task[d].pc \in PC
  BY <1>1 DEF TaskRec, PC
<1>3. made \in Int /\ 1 <= made /\ made <= M + 1
  BY Params, Parts DEF ServerType, User
<1> QED BY <1>2, <1>3, Parts DEF MapsType, TableType, ServerType, HistoryType, Silent

\* As long as handlers do not overlap, nobody but the busy one is in a phase.
LEMMA OneBusy ==
  ASSUME Shape, Alone, crossed # "now", NEW d \in Doer, Busy(d), NEW e \in Doer, e # d
  PROVE  task[e].pc \in {"none", "announce"}
BY DEF Shape, Alone, Busy

LEMMA Alike ==
  ASSUME Shape, Alone, NEW d \in Doer,
         \A e \in Doer \ {d} : task'[e] = task[e],
         task'[d].op = "none" => task'[d].pc = "none",
         task'[d].op = "start" => d = "start",
         task'[d].pc = "announce" => task'[d].op = "start",
         crossed' \in {crossed, "now"},
         Busy(d)' => Busy(d) \/ Others(d) = {} \/ crossed' = "now"
  PROVE  Shape' /\ Alone'
<1>1. Shape'
  BY DEF Shape
<1>2. Alone'
  BY DEF Alone, Busy, Others
<1> QED BY <1>1, <1>2

\* A handler that ends, fails, or is not at a room yet, disturbs no room.
LEMMA Quiet ==
  ASSUME TypeOK, Safe, NEW d \in Doer,
         \A e \in Doer \ {d} : task'[e] = task[e],
         task'[d].pc \notin Phase, ~At(d, "forget"),
         UNCHANGED <<ids, rkey, table, made, told, kept, unread>>,
         \A r \in Room : shown'[r].of = shown[r].of,
         lost \subseteq lost', At(d, "record") => task[d].rid \in lost',
         crossed' \in {crossed, "now"}
  PROVE  Owns' /\ Phases' /\ Agree' /\ Recorded' /\ Replaced'
<1> USE DEF Safe, At, Phase
<1>1. Owns'
  <2>1. RowsOwned'
    BY Types DEF Owns, RowsOwned, Owned
  <2>2. KeysOwned'
    BY Types DEF Owns, KeysOwned, Owned
  <2>3. LocalsOwned'
    BY Types DEF Owns, LocalsOwned, LocalOwned, Owned, Holding
  <2>4. UnreadOwned'
    BY Types DEF Owns, UnreadOwned, Owned
  <2> QED BY <2>1, <2>2, <2>3, <2>4 DEF Owns
<1>2. Phases'
  BY DEF Phases, Missing, Silent
<1>3. Agree'
  BY DEF Agree
<1>4. Recorded'
  BY DEF Recorded, Silent
<1>5. Replaced'
  BY DEF Replaced, Forgetting, Silent
<1> QED BY <1>1, <1>2, <1>3, <1>4, <1>5

LEMMA Still ==
  ASSUME Safe, UNCHANGED <<ids, rkey, task, table, shown, made, lost, told, kept, unread>>,
         crossed' \in {crossed, "now"}
  PROVE  Safe'
<1> USE DEF At
<1>1. Shape' /\ Alone'
  BY DEF Safe, Shape, Alone, Busy
<1>2. Owns'
  BY DEF Safe, Owns, RowsOwned, KeysOwned, LocalsOwned, LocalOwned, UnreadOwned, Owned, Holding
<1>3. Phases' /\ Agree' /\ Recorded' /\ Replaced'
  BY DEF Safe, Phases, Agree, Recorded, Replaced, Missing, Forgetting, Silent
<1> QED BY <1>1, <1>2, <1>3 DEF Safe

LEMMA SafeInit == Init => Safe
<1> SUFFICES ASSUME Init PROVE Safe
  OBVIOUS
<1> USE DEF At
<1>1. \A d \in Doer : /\ task[d] = IF d = "start" THEN Starting ELSE NoTask
                     /\ task[d].pc \in {"none", "register"}
  BY DEF Init, Starting, NoTask
<1>2. Shape /\ Alone /\ Phases
  BY <1>1, Bounds DEF Shape, Alone, Phases, Busy, Init, Starting, NoTask
<1>3. Owns
  <2>1. LocalsOwned
    BY <1>1 DEF LocalsOwned, LocalOwned, Holding
  <2>2. /\ \A x \in Thing : ids[x] = NoRoom /\ table[x].rid = (IF x = Ghost THEN User ELSE NoRoom)
        /\ \A r \in Room : rkey[r] = 0 /\ shown[r].of = Ghost
        /\ made = User
    BY DEF Init
  <2>3. RowsOwned /\ KeysOwned
    <3>1. RowsOwned
      <4> SUFFICES ASSUME NEW x \in Thing PROVE Owned(x, table[x].rid) /\ Owned(x, ids[x])
        BY DEF RowsOwned
      <4>1. Owned(x, ids[x])
        BY <2>2 DEF Owned
      <4>2. CASE x = Ghost
        <5>1. table[x].rid = User /\ shown[User].of = Ghost /\ User <= made
          BY <2>2, <4>2, Bounds DEF User
        <5> QED BY <4>1, <4>2, <5>1 DEF Owned
      <4>3. CASE x # Ghost
        BY <2>2, <4>1, <4>3 DEF Owned
      <4> QED BY <4>2, <4>3
    <3>2. KeysOwned
      BY <2>2 DEF KeysOwned
    <3> QED BY <3>1, <3>2
  <2>4. UnreadOwned
    BY DEF Init, UnreadOwned
  <2> QED BY <2>1, <2>3, <2>4 DEF Owns
<1>4. Agree
  BY Bounds DEF Init, Agree, NoRoom
<1>5. Recorded /\ Replaced
  BY Bounds DEF Init, Recorded, Replaced, Silent, User
<1> QED BY <1>2, <1>3, <1>4, <1>5 DEF Safe

\* What fails disturbs no room; what was created and is not recorded is lost.
LEMMA SafeFails ==
  ASSUME TypeOK, Safe, NEW d \in Doer, Busy(d), NEW what, Fails(d, what), ~At(d, "forget"),
         UNCHANGED <<ids, rkey, table, made, told, kept, unread, crossed>>,
         \A r \in Room : shown'[r].of = shown[r].of,
         lost \subseteq lost', At(d, "record") => task[d].rid \in lost'
  PROVE  Safe'
<1>1. /\ task'[d].pc \in {"none", "register"}
      /\ task'[d] = NoTask \/ (task[d].op = "start" /\ task'[d] = Starting)
      /\ \A e \in Doer \ {d} : task'[e] = task[e]
  <2>1. /\ task'[d] = NoTask \/ (task[d].op = "start" /\ task'[d] = Starting)
        /\ \A e \in Doer \ {d} : task'[e] = task[e]
    BY FailsType
  <2> QED BY <2>1, Fields
<1>2. Shape' /\ Alone'
  <2>1. /\ task'[d].op = "none" => task'[d].pc = "none"
        /\ task'[d].op = "start" => d = "start"
        /\ task'[d].pc = "announce" => task'[d].op = "start"
    BY <1>1, Fields DEF Safe, Shape
  <2> QED BY <1>1, <2>1, Alike DEF Safe
<1>3. Owns' /\ Phases' /\ Agree' /\ Recorded' /\ Replaced'
  BY <1>1, Quiet DEF Phase
<1> QED BY <1>2, <1>3 DEF Safe

LEMMA SafeLocal ==
  ASSUME TypeOK, Safe, NEW d \in Doer,
         \/ Start(d) \/ Reconciled(d) \/ NoAppservice(d) \/ AskReload(d) \/ Swap(d)
         \/ AnnounceRestart(d) \/ Restart(d) \/ Edit
  PROVE  Safe'
<1> USE DEF At
<1>0. task \in [Doer -> TaskRec] /\ Shape /\ task[d] \in TaskRec
  BY Parts DEF TaskType, Safe
<1>1. CASE Restart(d) \/ Edit
  BY <1>1, Still DEF Restart, Asked, Edit, memory, history, server
<1>2. ASSUME NEW q,
             task' = [task EXCEPT ![d] = q], q.pc \notin Phase, ~At(d, "record"), ~At(d, "forget"),
             q.op = "none" => q.pc = "none", q.op = "start" => d = "start",
             q.pc = "announce" => q.op = "start",
             UNCHANGED <<ids, rkey, table, shown, made, lost, told, kept, unread>>,
             crossed' \in {crossed, "now"},
             (q.op # "none" /\ q.pc # "announce") =>
               Busy(d) \/ Others(d) = {} \/ crossed' = "now"
      PROVE  Safe'
  <2>1. task'[d] = q /\ \A e \in Doer \ {d} : task'[e] = task[e]
    BY <1>0, <1>2
  <2>2. Shape' /\ Alone'
    BY <1>2, <2>1, Alike DEF Safe, Busy
  <2>3. Owns' /\ Phases' /\ Agree' /\ Recorded' /\ Replaced'
    BY <1>2, <2>1, Quiet
  <2> QED BY <2>2, <2>3 DEF Safe
<1>3. CASE Start(d)
  <2>1. Busy(d)
    BY <1>0, <1>3 DEF Start, Shape, Busy
  <2>2. CASE Fails(d, "register")
    BY <1>3, <2>1, <2>2, SafeFails DEF Start, disk, server, history
  <2>3. CASE task' = [task EXCEPT ![d] = [task[d] EXCEPT !.pc = "look", !.todo = {Ghost}]]
    <3> DEFINE q == [task[d] EXCEPT !.pc = "look", !.todo = {Ghost}]
    <3>1. q.pc = "look" /\ q.op = task[d].op
      BY <1>0 DEF TaskRec
    <3> HIDE DEF q
    <3> QED BY <1>0, <1>2, <1>3, <2>1, <2>3, <3>1 DEF q, Start, Phase, Shape, Busy, disk, server, history
  <2> QED BY <1>3, <2>2, <2>3 DEF Start
<1>4. CASE Reconciled(d)
  <2>0. Busy(d)
    BY <1>0, <1>4 DEF Reconciled, Shape, Busy
  <2>1. CASE task[d].op = "start"
    <3> DEFINE q == [task[d] EXCEPT !.pc = "announce", !.look = NoHash]
    <3>1. q.pc = "announce" /\ q.op = task[d].op
      BY <1>0 DEF TaskRec
    <3> HIDE DEF q
    <3> QED BY <1>0, <1>2, <1>4, <2>0, <2>1, <3>1
            DEF q, Reconciled, Phase, Shape, disk, server, history
  <2>2. CASE task[d].op # "start"
    BY <1>2, <1>4, <2>2, Fields DEF Reconciled, End, Phase, disk, server, history
  <2> QED BY <2>1, <2>2
<1>5. CASE NoAppservice(d)
  BY <1>2, <1>5, Fields DEF NoAppservice, End, Phase, disk, server, history, memory
<1>6. CASE AskReload(d)
  <2> DEFINE q == [NoTask EXCEPT !.op = "reload", !.pc = "swap", !.conf = file]
  <2>1. q.pc = "swap" /\ q.op = "reload"
    BY DEF NoTask
  <2>2. ~At(d, "record") /\ ~At(d, "forget")
    BY <1>0, <1>6 DEF AskReload, Asked, Shape
  <2>3. Others(d) = {} \/ crossed' = "now"
    BY <1>6 DEF AskReload, Asked
  <2>4. crossed' \in {crossed, "now"}
    BY <1>6 DEF AskReload, Asked
  <2>5. UNCHANGED <<ids, rkey, table, shown, made, lost, told, kept, unread>> /\ task' = [task EXCEPT ![d] = q]
    BY <1>6 DEF AskReload, memory, disk, server
  <2> HIDE DEF q
  <2> QED BY <1>2, <2>1, <2>2, <2>3, <2>4, <2>5 DEF Phase
<1>7. CASE Swap(d)
  <2> DEFINE q == [task[d] EXCEPT !.pc = "look", !.todo = {Ghost}, !.conf = NoConf]
  <2>1. q.pc = "look" /\ q.op = task[d].op
    BY <1>0 DEF TaskRec
  <2>2. UNCHANGED <<ids, rkey, table, shown, made, lost, told, kept, unread, crossed>> /\ task' = [task EXCEPT ![d] = q]
    BY <1>7 DEF Swap, disk, server, history
  <2>3. Busy(d) /\ ~At(d, "record") /\ ~At(d, "forget")
    BY <1>0, <1>7 DEF Swap, Shape, Busy
  <2> HIDE DEF q
  <2> QED BY <1>0, <1>2, <2>1, <2>2, <2>3 DEF Phase, Shape, Busy
<1>8. CASE AnnounceRestart(d)
  <2>1. UNCHANGED <<ids, rkey, table, shown, made, lost, told, kept, unread, crossed>> /\ At(d, "announce")
    BY <1>8 DEF AnnounceRestart, memory, server
  <2>2. CASE task' = [task EXCEPT ![d] = NoTask]
    BY <1>2, <2>1, <2>2, Fields DEF Phase
  <2>3. CASE task' = [task EXCEPT ![d] = [task[d] EXCEPT !.look = 1, !.key = request]]
    <3> DEFINE q == [task[d] EXCEPT !.look = 1, !.key = request]
    <3>1. q.pc = "announce" /\ q.op = task[d].op
      BY <1>0, <2>1 DEF TaskRec
    <3> HIDE DEF q
    <3> QED BY <1>0, <1>2, <2>1, <2>3, <3>1 DEF q, Phase, Shape
  <2> QED BY <1>8, <2>2, <2>3 DEF AnnounceRestart, End
<1> QED BY <1>1, <1>3, <1>4, <1>5, <1>6, <1>7, <1>8

\* A handler in a phase, and the handlers it does not overlap with.
LEMMA InPhase ==
  ASSUME TypeOK, Safe, NEW d \in Doer, task[d].pc \in Phase \cup {"look"}
  PROVE  /\ Busy(d) /\ task[d].op # "none" /\ (task[d].op = "start" => d = "start")
         /\ crossed # "now" => \A e \in Doer \ {d} : task[e].pc \in {"none", "announce"}
<1>1. task[d].op # "none" /\ (task[d].op = "start" => d = "start")
  BY DEF Safe, Shape, Phase
<1>2. Busy(d)
  BY <1>1 DEF Busy, Phase
<1> QED BY <1>1, <1>2, OneBusy DEF Safe

LEMMA Going ==
  ASSUME TypeOK, NEW d \in Doer, NEW pc \in PC, Go(d, pc)
  PROVE  /\ task'[d].pc = pc /\ task'[d].op = task[d].op /\ task'[d].at = task[d].at
         /\ task'[d].rid = task[d].rid
         /\ \A e \in Doer \ {d} : task'[e] = task[e]
<1>1. task \in [Doer -> TaskRec] /\ task[d] \in TaskRec
  BY Parts DEF TaskType
<1> QED BY <1>1 DEF Go, TaskRec

\* The handler finds its way to a room, or patches it.
LEMMA Moves ==
  ASSUME TypeOK, Safe, NEW d \in Doer, task[d].pc \in {"look", "patch"},
         \A e \in Doer \ {d} : task'[e] = task[e],
         task'[d].op = task[d].op, task'[d].pc \in {"create", "patch", "put", "map"},
         UNCHANGED <<ids, rkey, table, made, told, kept, lost, crossed>>,
         \A r \in Room : shown'[r].of = shown[r].of,
         unread' \subseteq Room, \A r \in unread' : r # NoRoom /\ Owned(Status, r),
         \A r \in unread : r \in unread' \/ \E x \in Thing : table[x].rid = r,
         task'[d].at \in Thing, task'[d].rid \in Room,
         task'[d].pc = "create" =>
           \/ table[task'[d].at].rid = NoRoom
           \/ task'[d].at = Status /\ table[task'[d].at].rid \in unread',
         task'[d].pc # "create" => task'[d].rid # NoRoom /\ Owned(task'[d].at, task'[d].rid),
         task'[d].pc # "create" /\ crossed # "now" => table[task'[d].at].rid = task'[d].rid
  PROVE  Safe'
<1> USE DEF At
<1>0. /\ Busy(d) /\ task[d].op # "none" /\ (task[d].op = "start" => d = "start")
      /\ crossed # "now" => \A e \in Doer \ {d} : task[e].pc \in {"none", "announce"}
  BY InPhase DEF Phase
<1>1. Shape' /\ Alone'
  BY <1>0, Alike DEF Safe
<1>2. Owns'
  <2>1. RowsOwned' /\ KeysOwned'
    BY Types DEF Safe, Owns, RowsOwned, KeysOwned, Owned
  <2>2. LocalsOwned'
    BY Types DEF Safe, Owns, LocalsOwned, LocalOwned, Owned, Holding
  <2>3. UnreadOwned'
    BY Types DEF UnreadOwned, Owned
  <2> QED BY <2>1, <2>2, <2>3 DEF Owns
<1>3. Phases'
  BY <1>0 DEF Phases, Missing
<1>4. Agree'
  BY DEF Safe, Agree
<1>5. Recorded'
  BY <1>0 DEF Safe, Recorded, Silent
<1>6. Replaced'
  <2>1. \A r : Forgetting(r) => Forgetting(r)'
    BY DEF Forgetting
  <2> QED BY <1>0, <2>1 DEF Safe, Replaced, Silent
<1> QED BY <1>1, <1>2, <1>3, <1>4, <1>5, <1>6 DEF Safe

LEMMA SafeRead ==
  ASSUME TypeOK, Safe, NEW d \in Doer, Read(d)
  PROVE  Safe'
<1>0. task \in [Doer -> TaskRec] /\ task[d] \in TaskRec /\ task[d].pc = "look"
  BY Parts DEF TaskType, Read, At
<1>1. UNCHANGED <<ids, rkey, table, shown, made, told, kept, lost, crossed>>
  BY DEF Read, memory, disk, server
<1>2. CASE Fails(d, "read") /\ UNCHANGED unread
  BY <1>0, <1>1, <1>2, InPhase, SafeFails DEF At, Phase
<1>3. ASSUME NEW x \in Thing, NEW rid \in Room, NEW hash, Found(d, x, rid, hash),
             \/ rid = table[x].rid /\ unread' \in {unread, unread \ {rid}}
             \/ /\ rid = NoRoom /\ x = Status
                /\ unread' = unread \cup ({table[x].rid} \ {NoRoom})
      PROVE  Safe'
  <2>1. /\ task'[d].op = task[d].op /\ task'[d].at = x /\ task'[d].rid = rid
        /\ task'[d].pc \in {"create", "patch", "map"}
        /\ task'[d].pc = "create" <=> rid = NoRoom
        /\ \A e \in Doer \ {d} : task'[e] = task[e]
    BY <1>0, <1>3 DEF Found, TaskRec
  <2>2. Owned(x, table[x].rid) /\ table[x].rid \in Room
    BY Types DEF Safe, Owns, RowsOwned
  <2>3. unread' \subseteq Room /\ \A r \in unread' : r # NoRoom /\ Owned(Status, r)
    BY <1>3, <2>2, Types DEF Safe, Owns, UnreadOwned
  <2>4. \A r \in unread : r \in unread' \/ \E y \in Thing : table[y].rid = r
    BY <1>3
  <2>5. task'[d].pc = "create" =>
           \/ table[task'[d].at].rid = NoRoom
           \/ task'[d].at = Status /\ table[task'[d].at].rid \in unread'
    BY <1>3, <2>1
  <2> QED BY <1>0, <1>1, <1>3, <2>1, <2>2, <2>3, <2>4, <2>5, Moves
<1>4. CASE ~(Fails(d, "read") /\ UNCHANGED unread)
  <2>1. PICK x \in Thing :
          \/ Found(d, x, table[x].rid, table[x].hash) /\ unread' = unread \ {table[x].rid}
          \/ /\ x = Status /\ Found(d, x, NoRoom, NoHash)
             /\ unread' = unread \cup ({table[x].rid} \ {NoRoom})
          \/ Found(d, x, table[x].rid, NoHash) /\ UNCHANGED unread
    BY <1>4 DEF Read
  <2>2. table[x].rid \in Room /\ NoRoom \in Room
    BY Types, Bounds
  <2> QED BY <1>3, <2>1, <2>2
<1> QED BY <1>2, <1>4

LEMMA SafePatch ==
  ASSUME TypeOK, Safe, NEW d \in Doer, PatchRoom(d)
  PROVE  Safe'
<1>0. /\ task[d].pc = "patch"
      /\ UNCHANGED <<ids, rkey, table, made, told, kept, unread, lost, crossed>>
  BY DEF PatchRoom, At, memory, disk, history
<1>1. task[d].rid # NoRoom /\ Owned(task[d].at, task[d].rid)
  BY <1>0 DEF Safe, Owns, LocalsOwned, LocalOwned, Holding
<1>2. shown[task[d].rid].of = task[d].at
  BY <1>1 DEF Owned
<1>3. \A r \in Room : shown'[r].of = shown[r].of
  BY <1>2, Parts DEF PatchRoom, ServerType
<1>4. CASE Fails(d, "patch")
  BY <1>0, <1>3, <1>4, InPhase, SafeFails DEF At, Phase
<1>5. CASE Go(d, "put")
  <2>1. \A r \in unread : r # NoRoom /\ Owned(Status, r)
    BY DEF Safe, Owns, UnreadOwned
  <2>2. /\ task'[d].pc = "put" /\ task'[d].op = task[d].op /\ task'[d].at = task[d].at
        /\ task'[d].rid = task[d].rid
        /\ \A e \in Doer \ {d} : task'[e] = task[e]
    BY <1>5, Going DEF PC
  <2> QED BY <1>0, <1>1, <1>3, <2>1, <2>2, Moves, Types DEF Safe, Phases
<1> QED BY <1>4, <1>5 DEF PatchRoom

LEMMA SafeCreate ==
  ASSUME TypeOK, Safe, NEW d \in Doer, CreateRoom(d)
  PROVE  Safe'
<1> USE DEF At
<1>0. /\ Busy(d) /\ task[d].op # "none" /\ (task[d].op = "start" => d = "start")
      /\ crossed # "now" => \A e \in Doer \ {d} : task[e].pc \in {"none", "announce"}
      /\ task[d].pc = "create"
  BY InPhase DEF CreateRoom, Phase
<1>1. /\ UNCHANGED <<ids, rkey, table, told, kept, unread, crossed>> /\ made < M + 1
  BY DEF CreateRoom, memory, disk
<1>2. CASE Fails(d, "create") /\ UNCHANGED <<made, shown, lost>>
  BY <1>0, <1>1, <1>2, SafeFails
<1>3. CASE /\ made' = made + 1
           /\ shown' = [shown EXCEPT ![made + 1] = [of |-> task[d].at, look |-> task[d].look]]
           /\ \/ /\ task' = [task EXCEPT ![d] = [task[d] EXCEPT !.pc = "record", !.rid = made + 1]]
                 /\ UNCHANGED <<mishaps, lost>>
              \/ Fails(d, "create") /\ lost' = lost \cup {made + 1}
  <2>1. /\ task'[d].pc \in {"none", "register", "record"}
        /\ task'[d].op = "none" => task'[d].pc = "none"
        /\ task'[d].op = "start" => d = "start"
        /\ task'[d].pc = "record" => task'[d].at = task[d].at /\ task'[d].rid = made + 1
        /\ task'[d].pc # "record" => made + 1 \in lost'
        /\ lost \subseteq lost'
        /\ \A e \in Doer \ {d} : task'[e] = task[e]
    <3>1. task \in [Doer -> TaskRec] /\ task[d] \in TaskRec
      BY Parts DEF TaskType
    <3>2. CASE Fails(d, "create") /\ lost' = lost \cup {made + 1}
      BY <1>0, <3>2, FailsType, Fields
    <3>3. CASE /\ task' = [task EXCEPT ![d] = [task[d] EXCEPT !.pc = "record", !.rid = made + 1]]
               /\ UNCHANGED <<mishaps, lost>>
      BY <1>0, <3>1, <3>3 DEF TaskRec
    <3> QED BY <1>3, <3>2, <3>3
  <2>2. made + 1 \in Room /\ made + 1 # NoRoom
    BY <1>1, Types, Params DEF Room, NoRoom
  <2>3. /\ shown'[made + 1].of = task[d].at
        /\ \A r \in Room : r # made + 1 => shown'[r].of = shown[r].of
    BY <1>3, <2>2, Parts DEF ServerType
  <2>4. Shape' /\ Alone'
    BY <1>0, <1>1, <2>1, Alike DEF Safe
  <2>5. ASSUME NEW x \in Thing, NEW r \in Room, Owned(x, r)
        PROVE  r # NoRoom => r <= made' /\ shown'[r].of = x
    BY <1>3, <2>3, <2>5, Types, Bounds DEF Owned
  <2>6. Owns'
    <3>1. RowsOwned' /\ KeysOwned'
      BY <1>1, <2>5, Types, Bounds DEF Safe, Owns, RowsOwned, KeysOwned, Owned
    <3>2. LocalOwned(d)'
      BY <1>3, <2>1, <2>2, <2>3, Types DEF LocalOwned, Owned, Holding
    <3>3. ASSUME NEW e \in Doer, e # d PROVE LocalOwned(e)'
      <4>1. /\ Holding(e) => task[e].rid # NoRoom /\ Owned(task[e].at, task[e].rid)
            /\ At(e, "forget") => Owned(task[e].key, task[e].old)
        BY DEF Safe, Owns, LocalsOwned, LocalOwned
      <4>2. task'[e] = task[e]
        BY <2>1, <3>3
      <4>3. /\ task[e].at \in Thing /\ task[e].rid \in Room
            /\ task[e].key \in Thing /\ task[e].old \in Room
        BY Types, Bounds
      <4> HIDE DEF At
      <4> QED BY <2>5, <4>1, <4>2, <4>3 DEF LocalOwned, Owned, Holding, At
    <3>4. UnreadOwned'
      BY <1>1, <2>5, Types, Bounds DEF Safe, Owns, UnreadOwned, Owned
    <3> QED BY <3>1, <3>2, <3>3, <3>4 DEF Owns, LocalsOwned
  <2>7. Phases' /\ Agree'
    BY <1>0, <1>1, <2>1 DEF Safe, Phases, Agree, Missing, Silent
  <2>8. Recorded'
    <3> SUFFICES ASSUME crossed = "never", NEW r \in Room, User < r, r <= made + 1,
                        r \notin Silent, r \notin lost', r \notin unread
                 PROVE  \/ \E x \in Thing : table[x].rid = r
                        \/ \E e \in Doer : task'[e].pc = "record" /\ task'[e].rid = r
      BY <1>1, <1>3 DEF Recorded, Silent
    <3>1. CASE r = made + 1
      BY <2>1, <3>1
    <3>2. CASE r # made + 1
      <4>1. r <= made
        BY <3>2, Types, Bounds
      <4>2. \A e \in Doer : task[e].pc = "record" => task'[e] = task[e]
        BY <1>0, <2>1
      <4> QED BY <2>1, <4>1, <4>2 DEF Safe, Recorded
    <3> QED BY <3>1, <3>2
  <2>9. Replaced'
    <3> SUFFICES ASSUME crossed = "never", NEW r \in Silent
                 PROVE  /\ r # NoRoom /\ r <= made + 1
                        /\ \A x \in Thing : ids[x] # r /\ (table[x].rid = r => Forgetting(r)')
                        /\ rkey[r] = 0
                        /\ \A e \in Doer : task'[e].pc = "record" => task'[e].rid # r
      BY <1>1, <1>3 DEF Replaced, Silent
    <3>1. /\ r # NoRoom /\ r <= made /\ rkey[r] = 0
          /\ \A x \in Thing : ids[x] # r /\ (table[x].rid = r => Forgetting(r))
          /\ \A e \in Doer : task[e].pc = "record" => task[e].rid # r
      BY DEF Safe, Replaced
    <3>2. r <= made + 1 /\ r # made + 1
      <4>1. r \in Int /\ made \in Int
        BY Types, Bounds
      <4> QED BY <3>1, <4>1
    <3>3. Forgetting(r) => Forgetting(r)'
      BY <1>0, <2>1 DEF Forgetting
    <3>4. \A e \in Doer : task'[e].pc = "record" => task'[e].rid # r
      BY <2>1, <3>1, <3>2
    <3> QED BY <3>1, <3>2, <3>3, <3>4
  <2> QED BY <2>4, <2>6, <2>7, <2>8, <2>9 DEF Safe
<1> QED BY <1>2, <1>3 DEF CreateRoom

\* The row of the thing a handler is at is written with the room it holds, or
\* its hash is.
LEMMA Writes ==
  ASSUME TypeOK, Safe, NEW d \in Doer, task[d].pc \in {"record", "put"}, NEW h, NEW rid,
         rid = task[d].rid \/ (task[d].pc = "put" /\ rid = table[task[d].at].rid),
         table' = [table EXCEPT ![task[d].at] = [rid |-> rid, hash |-> h]],
         NEW pc \in {"patch", "map"}, Go(d, pc),
         UNCHANGED <<ids, rkey, shown, made, told, kept, unread, lost, crossed>>
  PROVE  Safe'
<1> USE DEF At
<1>0. /\ Busy(d) /\ task[d].op # "none" /\ (task[d].op = "start" => d = "start")
      /\ crossed # "now" => \A e \in Doer \ {d} : task[e].pc \in {"none", "announce"}
  BY InPhase DEF Phase
<1>1. /\ task'[d].pc = pc /\ task'[d].op = task[d].op /\ task'[d].at = task[d].at
      /\ task'[d].rid = task[d].rid
      /\ \A e \in Doer \ {d} : task'[e] = task[e]
  BY Going DEF PC
<1>2. /\ task[d].at \in Thing /\ task[d].rid \in Room
      /\ task[d].rid # NoRoom /\ Owned(task[d].at, task[d].rid)
  BY Types DEF Safe, Owns, LocalsOwned, LocalOwned, Holding
<1>3. /\ table'[task[d].at].rid = rid
      /\ \A x \in Thing : x # task[d].at => table'[x].rid = table[x].rid
  BY <1>2, Parts DEF TableType
<1>4. Shape' /\ Alone'
  BY <1>0, <1>1, Alike DEF Safe
<1>5. Owns'
  <2>0. Owned(task[d].at, rid)
    BY <1>2 DEF Safe, Owns, RowsOwned
  <2>1. RowsOwned' /\ KeysOwned'
    BY <1>2, <1>3, <2>0 DEF Safe, Owns, RowsOwned, KeysOwned, Owned
  <2>2. LocalsOwned'
    BY <1>1, <1>2 DEF Safe, Owns, LocalsOwned, LocalOwned, Owned, Holding
  <2>3. UnreadOwned'
    BY DEF Safe, Owns, UnreadOwned, Owned
  <2> QED BY <2>1, <2>2, <2>3 DEF Owns
<1>6. crossed # "now" => /\ Missing(task[d].at) \/ table[task[d].at].rid = task[d].rid
                        /\ rid = task[d].rid
  BY DEF Safe, Phases
<1>7. Phases'
  BY <1>0, <1>1, <1>3, <1>6 DEF Phases
<1>8. Agree'
  <2> SUFFICES ASSUME crossed # "now", NEW x \in Key, ids[x] # NoRoom
               PROVE  table'[x].rid = ids[x]
    BY DEF Safe, Agree
  <2>1. table[x].rid = ids[x]
    BY DEF Safe, Agree
  <2>2. CASE x # task[d].at
    BY <1>3, <2>1, <2>2
  <2>3. CASE x = task[d].at /\ Missing(x)
    <3>1. x # Status
      BY Params DEF Key, Status
    <3> QED BY <2>1, <2>3, <3>1 DEF Missing
  <2> QED BY <1>3, <1>6, <2>1, <2>2, <2>3
<1>9. Recorded'
  <2> SUFFICES ASSUME crossed = "never", NEW r \in Room,
                      User < r, r <= made, r \notin Silent, r \notin lost, r \notin unread
               PROVE  \E x \in Thing : table'[x].rid = r
    BY DEF Recorded, Silent
  <2>1. CASE \E x \in Thing : table[x].rid = r
    <3>1. r # NoRoom
      BY Bounds DEF NoRoom, User
    <3> QED BY <1>2, <1>3, <1>6, <2>1, <3>1 DEF Missing
  <2>2. CASE \E e \in Doer : task[e].pc = "record" /\ task[e].rid = r
    BY <1>0, <1>2, <1>3, <1>6, <2>2
  <2> QED BY <2>1, <2>2 DEF Safe, Recorded
<1>10. Replaced'
  <2> SUFFICES ASSUME crossed = "never", NEW r \in Silent
               PROVE  /\ r # NoRoom /\ r <= made
                      /\ \A x \in Thing : ids[x] # r /\ (table'[x].rid = r => Forgetting(r)')
                      /\ rkey[r] = 0
                      /\ \A e \in Doer : task'[e].pc = "record" => task'[e].rid # r
    BY DEF Replaced, Silent
  <2>1. /\ r # NoRoom /\ r <= made /\ rkey[r] = 0
        /\ \A x \in Thing : ids[x] # r /\ (table[x].rid = r => Forgetting(r))
        /\ \A e \in Doer : task[e].pc = "record" => task[e].rid # r
    BY DEF Safe, Replaced
  <2>2. ~Forgetting(r)
    BY <1>0 DEF Forgetting
  <2>3. r # task[d].rid
    BY <1>2, <2>1, <2>2 DEF Safe, Phases
  <2>4. \A x \in Thing : table'[x].rid # r
    BY <1>3, <1>6, <2>1, <2>2, <2>3
  <2> QED BY <1>0, <1>1, <2>1, <2>4
<1> QED BY <1>4, <1>5, <1>7, <1>8, <1>9, <1>10 DEF Safe

LEMMA SafeWrites ==
  ASSUME TypeOK, Safe, NEW d \in Doer, RecordRoom(d) \/ PutHash(d)
  PROVE  Safe'
<1>1. CASE RecordRoom(d)
  <2>1. /\ task[d].pc = "record"
        /\ UNCHANGED <<ids, rkey, shown, made, told, kept, unread, crossed>>
    BY <1>1 DEF RecordRoom, At, memory, server
  <2>2. CASE Fails(d, "record") /\ lost' = lost \cup {task[d].rid} /\ UNCHANGED table
    <3>1. Busy(d) /\ ~At(d, "forget")
      BY <2>1, InPhase DEF Phase, At
    <3>2. lost \subseteq lost' /\ task[d].rid \in lost'
      BY <2>2
    <3>3. \A r \in Room : shown'[r].of = shown[r].of
      BY <2>1
    <3> QED BY <2>1, <2>2, <3>1, <3>2, <3>3, SafeFails
  <2>3. CASE ~(Fails(d, "record") /\ lost' = lost \cup {task[d].rid} /\ UNCHANGED table)
    <3>1. /\ UNCHANGED lost
          /\ Go(d, "patch") \/ Go(d, "map")
          /\ \E h : table' = [table EXCEPT ![task[d].at] = [rid |-> task[d].rid, hash |-> h]]
      BY <1>1, <2>3 DEF RecordRoom
    <3>2. PICK h : table' = [table EXCEPT ![task[d].at] = [rid |-> task[d].rid, hash |-> h]]
      BY <3>1
    <3>3. ASSUME NEW pc \in {"patch", "map"}, Go(d, pc)
          PROVE  Safe'
      <4> DEFINE rid == task[d].rid
      <4>1. table' = [table EXCEPT ![task[d].at] = [rid |-> rid, hash |-> h]] /\ rid = task[d].rid
        BY <3>2
      <4>2. /\ UNCHANGED <<ids, rkey, shown, made, told, kept, unread, lost, crossed>>
            /\ task[d].pc \in {"record", "put"}
        BY <2>1, <3>1
      <4> HIDE DEF rid
      <4> QED BY <3>3, <4>1, <4>2, Writes
    <3> QED BY <3>1, <3>3
  <2> QED BY <2>2, <2>3
<1>2. CASE PutHash(d)
  <2>1. /\ task[d].pc = "put"
        /\ UNCHANGED <<ids, rkey, shown, made, told, kept, unread, lost, crossed>>
    BY <1>2 DEF PutHash, At, memory, server, history
  <2>2. CASE Fails(d, "put") /\ UNCHANGED table
    BY <2>1, <2>2, InPhase, SafeFails DEF At, Phase
  <2>3. CASE ~(Fails(d, "put") /\ UNCHANGED table)
    <3>1. PICK rid \in {task[d].rid, table[task[d].at].rid} :
            table' = [table EXCEPT ![task[d].at] = [rid |-> rid, hash |-> task[d].look]]
      BY <1>2, <2>3 DEF PutHash
    <3>2. Go(d, "map")
      BY <1>2, <2>3 DEF PutHash
    <3> QED BY <2>1, <3>1, <3>2, Writes
  <2> QED BY <2>2, <2>3
<1> QED BY <1>1, <1>2

LEMMA SafeMap ==
  ASSUME TypeOK, Safe, NEW d \in Doer, MapRoom(d)
  PROVE  Safe'
<1> USE DEF At
<1> DEFINE x == task[d].at
           r == task[d].rid
<1>0. /\ Busy(d) /\ task[d].op # "none" /\ (task[d].op = "start" => d = "start")
      /\ crossed # "now" => \A e \in Doer \ {d} : task[e].pc \in {"none", "announce"}
  BY InPhase DEF MapRoom, Phase
<1>1. UNCHANGED <<table, shown, made, told, kept, unread, lost, crossed>> /\ task[d].pc = "map"
  BY DEF MapRoom, disk, server, history
<1>2. /\ task'[d].pc = "look" /\ task'[d].op = task[d].op
      /\ \A e \in Doer \ {d} : task'[e] = task[e]
  <2>1. task \in [Doer -> TaskRec] /\ task[d] \in TaskRec
    BY Parts DEF TaskType
  <2> QED BY <2>1 DEF MapRoom, TaskRec
<1>3. x \in Thing /\ r \in Room /\ r # NoRoom /\ Owned(x, r)
  BY <1>1, Types DEF Safe, Owns, LocalsOwned, LocalOwned, Holding
<1>4. /\ ids'[x] = r /\ \A y \in Thing : y # x => ids'[y] = ids[y]
      /\ x \in Key => rkey'[r] = x
      /\ x \notin Key => rkey' = rkey
      /\ \A q \in Room : q # r => rkey'[q] = rkey[q]
  BY <1>3, Parts DEF MapRoom, MapsType
<1>5. Shape' /\ Alone'
  BY <1>0, <1>1, <1>2, Alike DEF Safe
<1>6. Owns'
  <2>1. RowsOwned'
    BY <1>1, <1>3, <1>4 DEF Safe, Owns, RowsOwned, Owned
  <2>2. KeysOwned'
    BY <1>1, <1>3, <1>4 DEF Safe, Owns, KeysOwned, Owned
  <2>3. LocalsOwned'
    BY <1>1, <1>2 DEF Safe, Owns, LocalsOwned, LocalOwned, Owned, Holding
  <2>4. UnreadOwned'
    BY <1>1 DEF Safe, Owns, UnreadOwned, Owned
  <2> QED BY <2>1, <2>2, <2>3, <2>4 DEF Owns
<1>7. Phases'
  BY <1>0, <1>1, <1>2, <1>4 DEF Safe, Phases, Missing, Silent
<1>8. crossed # "now" => table[x].rid = r
  BY <1>1 DEF Safe, Phases
<1>9. Agree'
  <2> SUFFICES ASSUME crossed # "now"
               PROVE  /\ \A y \in Key : ids'[y] # NoRoom => table'[y].rid = ids'[y]
                      /\ \A k \in Key, q \in Room : rkey'[q] = k <=> q # NoRoom /\ ids'[k] = q
    BY <1>1 DEF Agree
  <2>1. \A y \in Key : ids'[y] # NoRoom => table'[y].rid = ids'[y]
    BY <1>1, <1>4, <1>8, Bounds DEF Safe, Agree
  <2>2. ASSUME NEW k \in Key, NEW q \in Room
        PROVE  rkey'[q] = k <=> q # NoRoom /\ ids'[k] = q
    <3>0. /\ rkey[q] = k <=> q # NoRoom /\ ids[k] = q
          /\ k \in Thing /\ (ids[k] # NoRoom => table[k].rid = ids[k])
      BY Bounds DEF Safe, Agree
    <3>1. CASE k = x
      BY <1>3, <1>4, <1>8, <3>0, <3>1
    <3>2. CASE k # x
      <4>1. ids[k] # r
        BY <1>3, <3>0, <3>2, Types DEF Safe, Owns, RowsOwned, Owned
      <4> QED BY <1>3, <1>4, <3>0, <3>2, <4>1
    <3> QED BY <3>1, <3>2
  <2> QED BY <2>1, <2>2
<1>10. Recorded'
  BY <1>1, <1>2 DEF Safe, Recorded, Silent
<1>11. Replaced'
  <2> SUFFICES ASSUME crossed = "never", NEW q \in Silent
               PROVE  /\ q # NoRoom /\ q <= made
                      /\ \A y \in Thing : ids'[y] # q /\ (table[y].rid = q => Forgetting(q)')
                      /\ rkey'[q] = 0
                      /\ \A e \in Doer : task'[e].pc = "record" => task'[e].rid # q
    BY <1>1 DEF Replaced, Silent
  <2>1. /\ q # NoRoom /\ q <= made /\ rkey[q] = 0
        /\ \A y \in Thing : ids[y] # q /\ (table[y].rid = q => Forgetting(q))
        /\ \A e \in Doer : task[e].pc = "record" => task[e].rid # q
    BY DEF Safe, Replaced
  <2>2. ~Forgetting(q)
    BY <1>0, <1>1 DEF Forgetting
  <2>3. q # r /\ q \in Room
    BY <1>3, <1>8, <2>1, <2>2, Types
  <2>4. rkey'[q] = 0
    BY <1>4, <2>1, <2>3
  <2>5. \A e \in Doer : task'[e].pc = "record" => task'[e].rid # q
    BY <1>2, <2>1
  <2>6. \A y \in Thing : ids'[y] # q
    BY <1>4, <2>1, <2>3
  <2> QED BY <2>1, <2>2, <2>4, <2>5, <2>6
<1> QED BY <1>5, <1>6, <1>7, <1>9, <1>10, <1>11 DEF Safe

LEMMA SafeAskNewRoom ==
  ASSUME TypeOK, Safe, NEW d \in Doer, AskNewRoom(d)
  PROVE  Safe'
<1> USE DEF At
<1>1. PICK k \in Key, r \in Room :
        /\ rkey[r] = k
        /\ told' = told \cup {r} /\ kept' = kept \ {r}
        /\ task' = [task EXCEPT ![d] = [NoTask EXCEPT
                      !.op = "new room", !.pc = "forget", !.key = k, !.old = ids[k]]]
        /\ rkey' = [rkey EXCEPT ![ids[k]] = 0]
        /\ ids' = [ids EXCEPT ![k] = NoRoom]
  BY Parts DEF AskNewRoom, MemoryType, Config
<1>2. /\ UNCHANGED <<table, shown, made, unread, lost>>
      /\ crossed' \in {crossed, "now"} /\ (Others(d) = {} \/ crossed' = "now")
      /\ task[d].op = "none" /\ task[d].pc = "none"
  BY DEF AskNewRoom, Asked, disk, server, Safe, Shape
<1>3. k \in Thing /\ ids[k] \in Room
  BY Bounds, Types
<1>4. /\ task'[d].pc = "forget" /\ task'[d].op = "new room"
      /\ task'[d].key = k /\ task'[d].old = ids[k]
      /\ \A e \in Doer \ {d} : task'[e] = task[e]
  <2>1. task \in [Doer -> TaskRec]
    BY Parts DEF TaskType
  <2> QED BY <1>1, <2>1 DEF NoTask
<1>5. /\ ids'[k] = NoRoom /\ \A y \in Thing : y # k => ids'[y] = ids[y]
      /\ rkey'[ids[k]] = 0 /\ \A q \in Room : q # ids[k] => rkey'[q] = rkey[q]
  BY <1>1, <1>3, Parts DEF MapsType
<1>6. Shape' /\ Alone'
  BY <1>2, <1>4, Alike DEF Safe
<1>7. Owns'
  <2>1. RowsOwned'
    BY <1>2, <1>5 DEF Safe, Owns, RowsOwned, Owned
  <2>2. KeysOwned'
    BY <1>2, <1>5 DEF Safe, Owns, KeysOwned, Owned
  <2>3. LocalsOwned'
    <3>1. Owned(k, ids[k])
      BY <1>3 DEF Safe, Owns, RowsOwned
    <3>2. LocalOwned(d)'
      BY <1>2, <1>4, <3>1 DEF LocalOwned, Owned, Holding
    <3>3. ASSUME NEW e \in Doer, e # d PROVE LocalOwned(e)'
      <4>1. task'[e] = task[e] /\ LocalOwned(e)
        BY <1>4, <3>3 DEF Safe, Owns, LocalsOwned
      <4> QED BY <1>2, <4>1 DEF LocalOwned, Owned, Holding
    <3> QED BY <3>2, <3>3 DEF LocalsOwned
  <2>4. UnreadOwned'
    BY <1>2 DEF Safe, Owns, UnreadOwned, Owned
  <2> QED BY <2>1, <2>2, <2>3, <2>4 DEF Owns
<1>8. crossed' # "now" => /\ crossed # "now"
                         /\ \A e \in Doer \ {d} : task[e].pc \in {"none", "announce"}
  BY <1>2 DEF Safe, Shape, Others, Busy
<1>9. crossed # "now" => /\ ids[k] # NoRoom /\ table[k].rid = ids[k] /\ rkey[ids[k]] = k
                        /\ ids[k] = r
  BY <1>1, <1>3 DEF Safe, Agree
<1>10. Phases'
  <2> SUFFICES ASSUME crossed' # "now"
               PROVE  /\ table[k].rid = ids[k] /\ ids[k] # NoRoom /\ ids'[k] = NoRoom
                      /\ ids[k] \in Silent'
    BY <1>2, <1>4, <1>8 DEF Phases
  <2> QED BY <1>1, <1>5, <1>8, <1>9 DEF Silent
<1>11. Agree'
  <2> SUFFICES ASSUME crossed # "now"
               PROVE  /\ \A y \in Key : ids'[y] # NoRoom => table'[y].rid = ids'[y]
                      /\ \A j \in Key, q \in Room : rkey'[q] = j <=> q # NoRoom /\ ids'[j] = q
    BY <1>8 DEF Agree
  <2>1. \A y \in Key : ids'[y] # NoRoom => table'[y].rid = ids'[y]
    BY <1>2, <1>5, Bounds DEF Safe, Agree
  <2>2. ASSUME NEW j \in Key, NEW q \in Room
        PROVE  rkey'[q] = j <=> q # NoRoom /\ ids'[j] = q
    <3>1. (rkey[q] = j <=> q # NoRoom /\ ids[j] = q) /\ j \in Thing /\ j # 0
      BY Bounds DEF Safe, Agree
    <3> QED BY <1>5, <1>9, <3>1
  <2> QED BY <2>1, <2>2
<1>12. Recorded'
  <2>1. crossed' = "never" => crossed = "never"
    BY <1>2
  <2>2. \A e \in Doer : task[e].pc = "record" => task'[e] = task[e]
    BY <1>2, <1>4
  <2>3. Silent \subseteq Silent'
    BY <1>1 DEF Silent
  <2> QED BY <1>2, <2>1, <2>2, <2>3 DEF Safe, Recorded
<1>13. Replaced'
  <2> SUFFICES ASSUME crossed' = "never", NEW q \in Silent'
               PROVE  /\ q # NoRoom /\ q <= made
                      /\ \A x \in Thing : ids'[x] # q /\ (table[x].rid = q => Forgetting(q)')
                      /\ rkey'[q] = 0
                      /\ \A e \in Doer : task'[e].pc = "record" => task'[e].rid # q
    BY <1>2 DEF Replaced
  <2>1. crossed = "never" /\ q \in Silent \cup {r}
    BY <1>1, <1>2 DEF Silent
  <2>2. \A e \in Doer : task'[e].pc # "record"
    BY <1>4, <1>8, <2>1
  <2>3. CASE q = r
    <3>1. q # NoRoom /\ q <= made /\ Owned(k, q) /\ shown[q].of = k
      BY <1>3, <1>9, <2>1, <2>3 DEF Safe, Owns, RowsOwned, Owned
    <3>2. \A x \in Thing : x # k => ids[x] # q
      BY <3>1 DEF Safe, Owns, RowsOwned, Owned
    <3>3. Forgetting(q)'
      BY <1>4, <1>9, <2>1, <2>3 DEF Forgetting
    <3> QED BY <1>5, <1>9, <2>1, <2>2, <2>3, <3>1, <3>2, <3>3
  <2>4. CASE q \in Silent
    <3>1. /\ q # NoRoom /\ q <= made /\ rkey[q] = 0 /\ q \in Room
          /\ \A x \in Thing : ids[x] # q /\ (table[x].rid = q => Forgetting(q))
      BY <2>1, <2>4, Types DEF Safe, Replaced
    <3>2. rkey'[q] = 0 /\ \A x \in Thing : ids'[x] # q
      BY <1>5, <2>1, <3>1
    <3>3. Forgetting(q) => Forgetting(q)'
      BY <1>2, <1>4 DEF Forgetting
    <3> QED BY <2>2, <3>1, <3>2, <3>3
  <2> QED BY <2>1, <2>3, <2>4
<1> QED BY <1>6, <1>7, <1>10, <1>11, <1>12, <1>13 DEF Safe

LEMMA SafeForget ==
  ASSUME TypeOK, Safe, NEW d \in Doer, ForgetRoomID(d)
  PROVE  Safe'
<1> USE DEF At
<1> DEFINE k == task[d].key
           old == task[d].old
<1>0. /\ Busy(d) /\ task[d].op # "none" /\ (task[d].op = "start" => d = "start")
      /\ crossed # "now" => \A e \in Doer \ {d} : task[e].pc \in {"none", "announce"}
  BY InPhase DEF ForgetRoomID, Phase
<1>1. UNCHANGED <<shown, made, lost, told, unread, crossed>> /\ task[d].pc = "forget"
  BY DEF ForgetRoomID, server
<1>2. k \in Key /\ k \in Thing /\ old \in Room /\ Owned(k, old)
  BY <1>1, Types, Bounds DEF Safe, Owns, LocalsOwned, LocalOwned
<1>3. crossed # "now" => /\ old # NoRoom /\ table[k].rid = old /\ ids[k] = NoRoom
                        /\ old \in Silent
  BY <1>1 DEF Safe, Phases
<1>4. \A y \in Thing : Owned(y, table[y].rid) /\ Owned(y, ids[y])
  BY DEF Safe, Owns, RowsOwned
<1>5. CASE Fails(d, "forget") /\ ids' = [ids EXCEPT ![k] = old]
           /\ rkey' = [rkey EXCEPT ![old] = k] /\ kept' = kept \cup {old} /\ UNCHANGED table
  <2>1. /\ task'[d].pc \in {"none", "register"}
        /\ \A e \in Doer \ {d} : task'[e] = task[e]
        /\ task'[d] = NoTask \/ (task[d].op = "start" /\ task'[d] = Starting)
    BY <1>5, FailsType, Fields
  <2>2. /\ ids'[k] = old /\ \A y \in Thing : y # k => ids'[y] = ids[y]
        /\ rkey'[old] = k /\ \A q \in Room : q # old => rkey'[q] = rkey[q]
    BY <1>2, <1>5, Parts DEF MapsType
  <2>3. Shape' /\ Alone'
    <3>1. /\ task'[d].op = "none" => task'[d].pc = "none"
          /\ task'[d].op = "start" => d = "start"
          /\ task'[d].pc = "announce" => task'[d].op = "start"
      BY <1>0, <2>1, Fields
    <3> QED BY <1>0, <1>1, <2>1, <3>1, Alike DEF Safe
  <2>4. Owns'
    <3>1. RowsOwned'
      BY <1>1, <1>2, <1>4, <1>5, <2>2 DEF RowsOwned, Owned
    <3>2. KeysOwned'
      BY <1>1, <1>2, <2>2 DEF Safe, Owns, KeysOwned, Owned
    <3>3. LocalsOwned'
      BY <1>1, <2>1 DEF Safe, Owns, LocalsOwned, LocalOwned, Owned, Holding
    <3>4. UnreadOwned'
      BY <1>1 DEF Safe, Owns, UnreadOwned, Owned
    <3> QED BY <3>1, <3>2, <3>3, <3>4 DEF Owns
  <2>5. Phases'
    BY <1>0, <1>1, <2>1 DEF Phases
  <2>6. Agree'
    <3> SUFFICES ASSUME crossed # "now"
                 PROVE  /\ \A y \in Key : ids'[y] # NoRoom => table[y].rid = ids'[y]
                        /\ \A j \in Key, q \in Room : rkey'[q] = j <=> q # NoRoom /\ ids'[j] = q
      BY <1>1, <1>5 DEF Agree
    <3>1. \A y \in Key : ids'[y] # NoRoom => table[y].rid = ids'[y]
      BY <1>3, <2>2, Bounds DEF Safe, Agree
    <3>2. ASSUME NEW j \in Key, NEW q \in Room
          PROVE  rkey'[q] = j <=> q # NoRoom /\ ids'[j] = q
      <4>1. (rkey[q] = j <=> q # NoRoom /\ ids[j] = q) /\ j \in Thing
        BY Bounds DEF Safe, Agree
      <4>2. j # k => ids[j] # old
        BY <1>2, <1>3, <1>4, <4>1 DEF Owned
      <4> QED BY <1>3, <2>2, <4>1, <4>2
    <3> QED BY <3>1, <3>2
  <2>7. Recorded'
    <3> SUFFICES ASSUME crossed = "never", NEW q \in Room, User < q, q <= made,
                        q \notin Silent', q \notin lost, q \notin unread
                 PROVE  \/ \E y \in Thing : table[y].rid = q
                        \/ \E e \in Doer : task'[e].pc = "record" /\ task'[e].rid = q
      BY <1>1, <1>5 DEF Recorded
    <3>1. q = old \/ q \notin Silent
      BY <1>1, <1>5 DEF Silent
    <3> QED BY <1>1, <1>2, <1>3, <2>1, <3>1 DEF Safe, Recorded
  <2>8. Replaced'
    <3> SUFFICES ASSUME crossed = "never", NEW q \in Silent'
                 PROVE  /\ q # NoRoom /\ q <= made
                        /\ \A y \in Thing : ids'[y] # q /\ table[y].rid # q
                        /\ rkey'[q] = 0
                        /\ \A e \in Doer : task'[e].pc = "record" => task'[e].rid # q
      BY <1>1, <1>5 DEF Replaced
    <3>0. q \in Silent /\ q # old
      BY <1>1, <1>5 DEF Silent
    <3>1. /\ q # NoRoom /\ q <= made /\ rkey[q] = 0 /\ q \in Room
          /\ \A y \in Thing : ids[y] # q /\ (table[y].rid = q => Forgetting(q))
          /\ \A e \in Doer : task[e].pc = "record" => task[e].rid # q
      BY <3>0, Types DEF Safe, Replaced
    <3>2. ~Forgetting(q)
      BY <1>0, <3>0 DEF Forgetting
    <3>3. rkey'[q] = 0 /\ \A y \in Thing : ids'[y] # q
      BY <2>2, <3>0, <3>1
    <3>4. \A e \in Doer : task'[e].pc = "record" => task'[e].rid # q
      BY <2>1, <3>1
    <3> QED BY <3>1, <3>2, <3>3, <3>4
  <2> QED BY <2>3, <2>4, <2>5, <2>6, <2>7, <2>8 DEF Safe
<1>6. CASE /\ table' = [table EXCEPT ![k] = [rid |-> NoRoom, hash |-> NoHash]]
           /\ task' = [task EXCEPT ![d] = [task[d] EXCEPT !.pc = "look", !.todo = conf.rooms]]
           /\ UNCHANGED <<ids, rkey, kept>>
  <2>1. /\ task'[d].pc = "look" /\ task'[d].op = task[d].op
        /\ \A e \in Doer \ {d} : task'[e] = task[e]
    <3>1. task \in [Doer -> TaskRec] /\ task[d] \in TaskRec
      BY Parts DEF TaskType
    <3> QED BY <1>6, <3>1 DEF TaskRec
  <2>2. table'[k].rid = NoRoom /\ \A y \in Thing : y # k => table'[y].rid = table[y].rid
    BY <1>2, <1>6, Parts DEF TableType
  <2>3. Shape' /\ Alone'
    BY <1>0, <1>1, <2>1, Alike DEF Safe
  <2>4. Owns'
    <3>1. RowsOwned'
      BY <1>1, <1>4, <1>6, <2>2 DEF RowsOwned, Owned
    <3>2. KeysOwned'
      BY <1>1, <1>6 DEF Safe, Owns, KeysOwned, Owned
    <3>3. LocalsOwned'
      BY <1>1, <2>1 DEF Safe, Owns, LocalsOwned, LocalOwned, Owned, Holding
    <3>4. UnreadOwned'
      BY <1>1 DEF Safe, Owns, UnreadOwned, Owned
    <3> QED BY <3>1, <3>2, <3>3, <3>4 DEF Owns
  <2>5. Phases'
    BY <1>0, <1>1, <2>1 DEF Phases
  <2>6. Agree'
    BY <1>1, <1>3, <1>6, <2>2 DEF Safe, Agree
  <2>7. Recorded'
    <3> SUFFICES ASSUME crossed = "never", NEW q \in Room,
                        User < q, q <= made, q \notin Silent, q \notin lost, q \notin unread
                 PROVE  \/ \E y \in Thing : table'[y].rid = q
                        \/ \E e \in Doer : task'[e].pc = "record" /\ task'[e].rid = q
      BY <1>1, <1>6 DEF Recorded, Silent
    <3>1. q # old
      BY <1>3
    <3>2. \/ \E y \in Thing : table[y].rid = q
          \/ \E e \in Doer : task[e].pc = "record" /\ task[e].rid = q
      BY DEF Safe, Recorded
    <3> QED BY <1>1, <1>3, <2>1, <2>2, <3>1, <3>2
  <2>8. Replaced'
    <3> SUFFICES ASSUME crossed = "never", NEW q \in Silent
                 PROVE  /\ q # NoRoom /\ q <= made
                        /\ \A y \in Thing : ids[y] # q /\ table'[y].rid # q
                        /\ rkey[q] = 0
                        /\ \A e \in Doer : task'[e].pc = "record" => task'[e].rid # q
      BY <1>1, <1>6 DEF Replaced, Silent
    <3>1. /\ q # NoRoom /\ q <= made /\ rkey[q] = 0
          /\ \A y \in Thing : ids[y] # q /\ (table[y].rid = q => Forgetting(q))
      BY DEF Safe, Replaced
    <3>2. \A e \in Doer : task'[e].pc # "record"
      BY <1>0, <2>1
    <3>3. Forgetting(q) => q = old
      BY <1>0 DEF Forgetting
    <3>4. \A y \in Thing : table'[y].rid # q
      BY <1>2, <1>3, <1>4, <2>2, <3>1, <3>3 DEF Owned
    <3> QED BY <3>1, <3>2, <3>4
  <2> QED BY <2>3, <2>4, <2>5, <2>6, <2>7, <2>8 DEF Safe
<1> QED BY <1>5, <1>6 DEF ForgetRoomID

LEMMA SafeStop ==
  ASSUME TypeOK, Safe, Stop
  PROVE  Safe'
<1> USE DEF At
<1>1. /\ UNCHANGED <<table, shown, made, told, unread>>
      /\ \A x \in Thing : ids'[x] = NoRoom
      /\ \A r \in Room : rkey'[r] = 0
      /\ \A d \in Doer : task'[d] = IF d = "start" THEN Starting ELSE NoTask
      /\ crossed' = IF crossed = "never" THEN "never" ELSE "before"
      /\ lost' = lost \cup {task[d].rid : d \in {e \in Doer : At(e, "record")}}
      /\ kept' = kept \cup {task[d].old : d \in {e \in Doer : At(e, "forget")}}
  BY DEF Stop, Reset, disk, server
<1>2. \A d \in Doer : task'[d].pc \in {"none", "register"}
  BY <1>1, Fields
<1>3. Shape' /\ Alone'
  BY <1>1, Fields DEF Shape, Alone, Busy
<1>4. Owns'
  <2>1. RowsOwned' /\ KeysOwned'
    BY <1>1 DEF Safe, Owns, RowsOwned, KeysOwned, Owned
  <2>2. LocalsOwned'
    BY <1>2 DEF LocalsOwned, LocalOwned, Holding
  <2>3. UnreadOwned'
    BY <1>1 DEF Safe, Owns, UnreadOwned, Owned
  <2> QED BY <2>1, <2>2, <2>3 DEF Owns
<1>5. Phases'
  BY <1>2 DEF Phases
<1>6. Agree'
  BY <1>1, Bounds DEF Agree
<1>7. Recorded'
  <2> SUFFICES ASSUME crossed = "never", NEW r \in Room, User < r, r <= made,
                      r \notin Silent', r \notin lost', r \notin unread
               PROVE  \E x \in Thing : table[x].rid = r
    BY <1>1 DEF Recorded
  <2>1. CASE r \in Silent
    <3>1. PICK d \in Doer : task[d].pc = "forget" /\ r = task[d].old
      BY <1>1, <2>1 DEF Silent
    <3>2. task[d].key \in Thing /\ table[task[d].key].rid = r
      BY <3>1, Types, Bounds DEF Safe, Phases
    <3> QED BY <3>2
  <2>2. CASE r \notin Silent
    BY <1>1, <2>2 DEF Safe, Recorded
  <2> QED BY <2>1, <2>2
<1>8. Replaced'
  <2>1. \A r \in Silent' : r \in Silent /\ ~Forgetting(r)
    BY <1>1 DEF Silent, Forgetting
  <2> QED BY <1>1, <1>2, <2>1, Types DEF Safe, Replaced
<1> QED BY <1>3, <1>4, <1>5, <1>6, <1>7, <1>8 DEF Safe

LEMMA SafeNext == TypeOK /\ Safe /\ [Next]_vars => Safe'
<1> SUFFICES ASSUME TypeOK, Safe, [Next]_vars PROVE Safe'
  OBVIOUS
<1>1. "start" \in Doer /\ Tasks \subseteq Doer
  BY Bounds
<1>2. CASE StartStep
  BY <1>1, <1>2, SafeLocal, SafeRead, SafePatch, SafeCreate, SafeWrites, SafeMap DEF StartStep
<1>3. ASSUME NEW d \in Tasks, TaskStep(d)
      PROVE  Safe'
  BY <1>1, <1>3, SafeLocal, SafeRead, SafePatch, SafeCreate, SafeWrites, SafeMap, SafeForget DEF TaskStep
<1>4. ASSUME NEW d \in Tasks, Ask(d)
      PROVE  Safe'
  BY <1>1, <1>4, SafeLocal, SafeAskNewRoom DEF Ask
<1>5. CASE Stop
  BY <1>5, SafeStop
<1>6. CASE Edit
  BY <1>1, <1>6, SafeLocal
<1>7. CASE UNCHANGED vars
  BY <1>7, Still DEF vars, memory, disk, server, history
<1> QED BY <1>2, <1>3, <1>4, <1>5, <1>6, <1>7 DEF Next

LEMMA Safely == Spec => [](TypeOK /\ Safe)
<1>1. Init => TypeOK /\ Safe
  BY TypeInit, SafeInit
<1>2. TypeOK /\ Safe /\ [Next]_vars => TypeOK' /\ Safe'
  BY TypeNext, SafeNext
<1> QED BY <1>1, <1>2, PTL DEF Spec

\* One handler at a time, whatever fails and wherever the process dies, the
\* maps and the table tell the same story.
THEOREM MapsAlwaysAgree == Spec => []MapsAgree
<1>1. TypeOK /\ Safe => MapsAgree
  <2> SUFFICES ASSUME TypeOK, Safe, crossed # "now", NEW k \in Key
               PROVE  /\ ids[k] # NoRoom => table[k].rid = ids[k]
                      /\ {r \in Room : rkey[r] = k} = {ids[k]} \ {NoRoom}
    BY DEF MapsAgree
  <2>1. k \in Thing /\ ids[k] \in Room
    BY Bounds, Types
  <2>2. \A r \in Room : rkey[r] = k <=> r # NoRoom /\ ids[k] = r
    BY DEF Safe, Agree
  <2> QED BY <2>1, <2>2 DEF Safe, Agree
<1> QED BY <1>1, Safely, PTL

\* One handler at a time, a room that was told it is replaced is not a portal
\* from then on, unless its row was not deleted.
THEOREM ReplacedStaysReplaced == Spec => []NothingMoreSent
<1>1. Safe => NothingMoreSent
  BY DEF Safe, Replaced, NothingMoreSent, Silent, Forgetting
<1> QED BY <1>1, Safely, PTL

\* One handler at a time, no room is created beside the one a row names, save a
\* status room whose row could not be read.
THEOREM NoSecondRoom == Spec => []OneRoomEach
<1>1. TypeOK /\ Safe => OneRoomEach
  <2> SUFFICES ASSUME TypeOK, Safe, crossed = "never"
               PROVE  /\ \A r \in (User + 1 .. made) \ (Silent \cup lost \cup unread) :
                           \/ \E x \in Thing : table[x].rid = r
                           \/ \E d \in Doer : /\ At(d, "record") /\ task[d].rid = r
                                            /\ table[task[d].at].rid \in {NoRoom} \cup unread
                      /\ \A r \in unread : shown[r].of = Status
    BY DEF OneRoomEach, Silent
  <2>1. ASSUME NEW r \in (User + 1 .. made) \ (Silent \cup lost \cup unread)
        PROVE  \/ \E x \in Thing : table[x].rid = r
               \/ \E d \in Doer : /\ At(d, "record") /\ task[d].rid = r
                                /\ table[task[d].at].rid \in {NoRoom} \cup unread
    <3>1. r \in Room /\ User < r /\ r <= made
      BY Types, Params DEF Room, User, NoRoom
    <3>2. \/ \E x \in Thing : table[x].rid = r
          \/ \E d \in Doer : At(d, "record") /\ task[d].rid = r
      BY <3>1 DEF Safe, Recorded
    <3> QED BY <3>2 DEF Safe, Phases, Missing, At
  <2>2. \A r \in unread : shown[r].of = Status
    BY DEF Safe, Owns, UnreadOwned, Owned
  <2> QED BY <2>1, <2>2
<1> QED BY <1>1, Safely, PTL

-----------------------------------------------------------------------------
(* The announcement.                                                       *)

\* What a step may do to the balance.
LEMMA Balance ==
  ASSUME TypeOK, Spent,
         \/ said' = said /\ request' = request /\ (Pending' = Pending \/ Pending' = 0)
         \/ /\ said' = said \/ said' = said + 1
            /\ request' = request /\ Pending = 1 /\ Pending' = 0
         \/ said' = said /\ request # 0 /\ request' = 0 /\ Pending = 0
         \/ said' = said - 1 /\ (Pending' = Pending \/ request' = request)
  PROVE  Spent'
<1>1. /\ said \in Int
      /\ Requested \in Int /\ 0 <= Requested /\ Requested <= 1
      /\ Requested' \in Int /\ 0 <= Requested' /\ Requested' <= 1
      /\ request' = request => Requested' = Requested
      /\ request # 0 /\ request' = 0 => Requested = 1 /\ Requested' = 0
  BY Parts DEF HistoryType, Requested
<1>2. /\ Pending \in Int /\ 0 <= Pending /\ Pending <= 1
      /\ Pending' \in Int /\ 0 <= Pending' /\ Pending' <= 1
  BY DEF Pending
<1>3. \A s, a, b, c, e \in Int : s + a + b <= 0 /\ 0 <= a /\ 0 <= b /\ c <= 1 /\ e <= 1 =>
        /\ s + a + 0 <= 0
        /\ b = 1 => (s + 1) + a + 0 <= 0
        /\ a = 1 /\ b = 0 => s + 0 + e <= 0
        /\ (s - 1) + c + b <= 0
        /\ (s - 1) + a + e <= 0
  OBVIOUS
<1>4. said + Requested + Pending <= 0
  BY DEF Spent
<1>5. said' + Requested' + Pending' <= 0
  BY <1>1, <1>2, <1>3, <1>4
<1> QED BY <1>5 DEF Spent

LEMMA SpentNext == TypeOK /\ Safe /\ Spent /\ [Next]_vars => Spent'
<1> SUFFICES ASSUME TypeOK, Safe, Spent, [Next]_vars PROVE Spent'
  OBVIOUS
<1> USE DEF At
<1>0. task \in [Doer -> TaskRec]
  BY Parts DEF TaskType
<1>1. \A d \in Doer : /\ task[d].pc = "announce" => d = "start"
                      /\ task[d].op = "none" => task[d].pc = "none"
  BY DEF Safe, Shape
<1>2. "start" \in Doer /\ Tasks \subseteq Doer /\ "start" \notin Tasks
  BY Bounds
\* Whoever does not announce leaves what is pending as it is, or forgets it.
<1>3. ASSUME NEW d \in Doer, task[d].pc # "announce",
             \A e \in Doer \ {d} : task'[e] = task[e],
             task'[d].pc # "announce" \/ task'[d].look = NoHash,
             UNCHANGED <<request, said>>
      PROVE  Spent'
  <2>1. Pending' = Pending \/ Pending' = 0
    BY <1>2, <1>3 DEF Pending
  <2> QED BY <1>3, <2>1, Balance
<1>4. ASSUME NEW d \in Doer, Start(d) \/ Read(d) \/ CreateRoom(d) \/ RecordRoom(d) \/ PatchRoom(d)
                            \/ PutHash(d) \/ MapRoom(d) \/ NoAppservice(d)
                            \/ Swap(d) \/ ForgetRoomID(d) \/ AskReload(d) \/ AskNewRoom(d)
      PROVE  Spent'
  <2>1. UNCHANGED <<request, said>>
    BY <1>4 DEF Start, Read, CreateRoom, RecordRoom, PatchRoom, PutHash, MapRoom, NoAppservice,
       Swap, ForgetRoomID, AskReload, AskNewRoom, disk, history
  <2>2. task[d].pc # "announce"
    <3>1. CASE AskReload(d) \/ AskNewRoom(d)
      <4>1. task[d].op = "none"
        BY <3>1 DEF AskReload, AskNewRoom, Asked
      <4> QED BY <1>1, <4>1
    <3>2. CASE Start(d) \/ Read(d) \/ CreateRoom(d) \/ RecordRoom(d) \/ PatchRoom(d)
      BY <3>2 DEF Start, Read, CreateRoom, RecordRoom, PatchRoom
    <3>3. CASE PutHash(d) \/ MapRoom(d) \/ NoAppservice(d) \/ Swap(d) \/ ForgetRoomID(d)
      BY <3>3 DEF PutHash, MapRoom, NoAppservice, Swap, ForgetRoomID
    <3> QED BY <1>4, <3>1, <3>2, <3>3
  <2>3. ASSUME NEW q \in TaskRec, task' = [task EXCEPT ![d] = q], q.pc # "announce"
        PROVE  Spent'
    BY <1>0, <1>3, <2>1, <2>2, <2>3
  <2>4. ASSUME NEW what, Fails(d, what)
        PROVE  Spent'
    BY <1>3, <2>1, <2>2, <2>4, FailsType, Fields
  <2>5. ASSUME NEW pc \in PC, pc # "announce", Go(d, pc)
        PROVE  Spent'
    BY <1>3, <2>1, <2>2, <2>5, Going
  <2>6. task[d] \in TaskRec /\ NoTask \in TaskRec /\ NoTask.pc # "announce"
    BY <1>0, NoTaskType, Fields
  <2>7. CASE Start(d)
    BY <1>0, <1>3, <2>1, <2>2, <2>4, <2>6, <2>7, ZenonT(60) DEF Start, TaskRec
  <2>8. CASE Read(d)
    <3>1. ASSUME NEW x, NEW rid, NEW hash, Found(d, x, rid, hash)
          PROVE  Spent'
      BY <1>0, <1>3, <2>1, <2>2, <2>6, <3>1 DEF Found, TaskRec
    <3>2. CASE ~Fails(d, "read")
      <4>1. \E x, rid, hash : Found(d, x, rid, hash)
        BY <2>8, <3>2 DEF Read
      <4> QED BY <3>1, <4>1
    <3> QED BY <2>4, <3>2
  <2>9. CASE CreateRoom(d)
    <3>1. CASE task' = [task EXCEPT ![d] = [task[d] EXCEPT !.pc = "record", !.rid = made + 1]]
      BY <1>0, <1>3, <2>1, <2>2, <2>6, <3>1 DEF TaskRec
    <3> QED BY <2>4, <2>9, <3>1 DEF CreateRoom
  <2>10. CASE RecordRoom(d) \/ PatchRoom(d) \/ PutHash(d)
    BY <2>4, <2>5, <2>10 DEF RecordRoom, PatchRoom, PutHash, PC
  <2>11. CASE MapRoom(d)
    BY <1>0, <1>3, <2>1, <2>2, <2>6, <2>11 DEF MapRoom, TaskRec
  <2>12. CASE NoAppservice(d)
    BY <1>0, <2>3, <2>6, <2>12 DEF NoAppservice, End
  <2>13. CASE Swap(d)
    BY <1>0, <1>3, <2>1, <2>2, <2>6, <2>13 DEF Swap, TaskRec
  <2>14. CASE ForgetRoomID(d)
    <3>1. CASE task' = [task EXCEPT ![d] = [task[d] EXCEPT !.pc = "look", !.todo = conf.rooms]]
      BY <1>0, <1>3, <2>1, <2>2, <2>6, <3>1 DEF TaskRec
    <3> QED BY <2>4, <2>14, <3>1 DEF ForgetRoomID
  <2>15. CASE AskReload(d)
    BY <1>0, <1>3, <2>1, <2>2, <2>6, <2>15 DEF AskReload, NoTask
  <2>16. CASE AskNewRoom(d)
    <3>1. PICK k, old : task' = [task EXCEPT ![d] = [NoTask EXCEPT
            !.op = "new room", !.pc = "forget", !.key = k, !.old = old]]
      BY <2>16 DEF AskNewRoom
    <3> QED BY <1>0, <1>3, <2>1, <2>2, <3>1 DEF NoTask
  <2> QED BY <1>4, <2>7, <2>8, <2>9, <2>10, <2>11, <2>12, <2>13, <2>14, <2>15, <2>16, SMTT(30)
<1>5. ASSUME NEW d \in Doer, Reconciled(d)
      PROVE  Spent'
  <2>1. task[d] \in TaskRec /\ NoTask.pc # "announce" /\ task[d].pc # "announce"
        /\ UNCHANGED <<request, said>>
    BY <1>0, <1>5, Fields DEF Reconciled, disk, history
  <2>2. CASE task[d].op = "start"
    BY <1>0, <1>3, <1>5, <2>1, <2>2, ZenonT(60) DEF Reconciled, TaskRec
  <2>3. CASE task[d].op # "start"
    BY <1>0, <1>3, <1>5, <2>1, <2>3 DEF Reconciled, End
  <2> QED BY <2>2, <2>3
<1>6. CASE AnnounceRestart("start")
  <2>1. task["start"] \in TaskRec /\ NoTask.pc # "announce" /\ task["start"].pc = "announce"
    BY <1>0, <1>2, <1>6, Fields DEF AnnounceRestart
  <2>2. CASE task["start"].look # NoHash
    <3>1. Pending = 1 /\ Pending' = 0 /\ request' = request /\ (said' = said \/ said' = said + 1)
      BY <1>0, <1>2, <1>6, <2>1, <2>2 DEF AnnounceRestart, Pending, End
    <3> QED BY <3>1, Balance
  <2>3. CASE task["start"].look = NoHash /\ End("start") /\ UNCHANGED <<request, said>>
    <3>1. Pending' = 0
      BY <1>0, <1>2, <2>1, <2>3 DEF Pending, End
    <3> QED BY <2>3, <3>1, Balance
  <2>4. CASE /\ task["start"].look = NoHash /\ request # 0
             /\ \/ request' = 0 /\ said' = said
                \/ said' = said - 1 /\ request' = request
    <3>1. Pending = 0
      BY <2>4 DEF Pending
    <3> QED BY <2>4, <3>1, Balance
  <2>5. \/ task["start"].look # NoHash
        \/ task["start"].look = NoHash /\ End("start") /\ UNCHANGED <<request, said>>
        \/ /\ task["start"].look = NoHash /\ request # 0
           /\ \/ request' = 0 /\ said' = said
              \/ said' = said - 1 /\ request' = request
    BY <1>6 DEF AnnounceRestart
  <2> QED BY <2>2, <2>3, <2>4, <2>5
<1>7. ASSUME NEW d \in Doer, Restart(d)
      PROVE  Spent'
  <2>1. said' = said - 1 /\ Pending' = Pending
    BY <1>7 DEF Restart, Pending
  <2> QED BY <2>1, Balance
<1>8. CASE Stop
  <2>1. Pending' = 0 /\ request' = request /\ said' = said
    BY <1>2, <1>8, Fields DEF Stop, Reset, Pending, disk
  <2> QED BY <2>1, Balance
<1>9. CASE Edit \/ UNCHANGED vars
  <2>1. Pending' = Pending /\ request' = request /\ said' = said
    BY <1>9 DEF Edit, Pending, vars, disk, history
  <2> QED BY <2>1, Balance
<1>10. CASE StartStep
  BY <1>2, <1>4, <1>5, <1>6, <1>10 DEF StartStep
<1>11. ASSUME NEW d \in Tasks, TaskStep(d) \/ Ask(d)
       PROVE  Spent'
  BY <1>2, <1>4, <1>5, <1>7, <1>11 DEF TaskStep, Ask
<1> QED BY <1>8, <1>9, <1>10, <1>11 DEF Next

\* A restart is announced once, and once more for every time its request could
\* not be cleared, however often the process dies.
THEOREM AnnouncedAtMostOnce == Spec => []AnnouncedOnce
<1>1. Init => Spent
  <2> SUFFICES ASSUME Init PROVE Spent
    OBVIOUS
  <2>1. task["start"] = Starting
    BY Bounds DEF Init
  <2> QED BY <2>1, Fields DEF Init, Spent, Requested, Pending, At
<1>2. TypeOK /\ Spent => AnnouncedOnce
  <2> SUFFICES ASSUME TypeOK, Spent PROVE AnnouncedOnce
    OBVIOUS
  <2>1. said \in Int /\ Requested \in {0, 1} /\ Pending \in {0, 1}
    BY Parts DEF HistoryType, Requested, Pending
  <2> QED BY <2>1 DEF Spent, AnnouncedOnce
<1> QED BY <1>1, <1>2, SpentNext, Safely, PTL DEF Spec
=============================================================================
