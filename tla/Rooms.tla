------------------------------- MODULE Rooms -------------------------------
(***************************************************************************)
(* Start-up, reconciliation and the rooms of the configuration:            *)
(* connectLoop, Reload and the restart command of internal/service,        *)
(* Reconcile and RecreateRoom of internal/bridge/rooms.go, status.go, and  *)
(* the tables rooms, ghosts and kv of the store.                           *)
(*                                                                         *)
(* A ghost's profile and the status room are reconciled in the same steps  *)
(* as a room: read the stored hash, create what is missing, patch what     *)
(* differs, store the hash, fill the map.  They are two more things to     *)
(* reconcile, the first and the last; only a room has a key, and a ghost   *)
(* is never created: its user exists once the appservice is registered.    *)
(* What a thing looks like (name, topic, avatar, power levels, ...) is one *)
(* value, its hash the same value.                                         *)
(***************************************************************************)
EXTENDS Integers

CONSTANTS
  K,          \* keys a configuration may name
  L,          \* looks a configuration may give
  M,          \* rooms that are created (bound)
  Tasks,      \* handlers of reloads and commands that may be under way
  Requests,   \* what they are asked for: "reload", "new room", "restart"
  Asks,       \* requests (bound)
  Overlap,    \* may one start while another, or the start-up, is under way,
              \* once (bound)
  Edits,      \* changes of the configuration file (bound)
  Faults,     \* what may fail
  Mishaps     \* failures and deaths of the process (bound)

ASSUME RoomsAssumption ==
  /\ K \in Nat \ {0} /\ L \in Nat \ {0} /\ M \in Nat \ {0}
  /\ Asks \in Nat /\ Edits \in Nat /\ Mishaps \in Nat
  /\ Overlap \in BOOLEAN
  /\ "start" \notin Tasks
  /\ Requests \subseteq {"reload", "new room", "restart"}
  /\ Faults \subseteq {"register", "read", "create", "record", "patch", "put", "forget",
                 "clear"}

Key == 1 .. K
Ghost == 0
Status == K + 1
Thing == Ghost .. Status

NoRoom == 0
User == 1                      \* the ghost's user
Room == NoRoom .. M + 1        \* the rooms and the user, by age

NoHash == 0
Blank == L + 1                 \* the look of a config.Room{}
Mixed == L + 2                 \* neither what it was nor what was wanted
Look == NoHash .. Mixed

Config == [rooms : SUBSET Key, look : 1 .. L]
Doer == Tasks \cup {"start"}

TaskRec == [op : {"none", "start", "reload", "new room"},
            pc : {"none", "register", "swap", "look", "create",
                  "record", "patch", "put", "map", "forget", "announce"},
            conf : Config,         \* what config.Load returned
            todo : SUBSET Thing,   \* SortedKeys, still to visit
            at : Thing, rid : Room, look : Look,
            key : Key, old : Room] \* of RecreateRoom

VARIABLES
  file,      \* the configuration file
  conf,      \* Service.cfg, Bridge.cfg
  as,        \* Bridge.as is set, the websocket loop runs
  ready,     \* Service.ready is closed
  ids,       \* Bridge.roomIDs, ghosts and statusRoom
  rkey,      \* Bridge.roomKey
  dying,     \* the process has signalled itself to stop
  task,      \* the locals of the handlers
  table,     \* tables rooms and ghosts, kv status_room_*
  request,   \* kv restart_request: a key, or 0
  shown,     \* what the homeserver has of each room and user: which thing
             \* its bridge state says it is, and its look
  made,      \* the last room the homeserver created
  asks, edits, mishaps,
  crossed,   \* handlers were under way at once: "never", "before" this
             \* process, or "now" in it
  lost,      \* rooms created, and then not recorded
  told,      \* rooms the owner was told are replaced
  kept,      \* those whose row was not deleted: a failure, or a death before it
  unread,    \* status rooms whose row could not be read when it was needed
  said       \* restarts announced, less those asked for and less the times a
             \* request could not be cleared

memory == <<conf, as, ready, ids, rkey, dying>>
disk == <<file, table, request>>
server == <<shown, made>>
bounds == <<asks, edits, mishaps>>
history == <<crossed, lost, told, kept, unread, said>>
vars == <<memory, task, disk, server, bounds, history>>

NoConf == [rooms |-> {}, look |-> 1]
NoTask == [op |-> "none", pc |-> "none", conf |-> NoConf, todo |-> {}, at |-> Ghost,
           rid |-> NoRoom, look |-> NoHash, key |-> 1, old |-> NoRoom]
Starting == [NoTask EXCEPT !.op = "start", !.pc = "register"]

Init ==
  /\ file = [rooms |-> {1}, look |-> 1] /\ conf = file
  /\ as = FALSE /\ ready = FALSE /\ dying = FALSE
  /\ ids = [x \in Thing |-> NoRoom] /\ rkey = [r \in Room |-> 0]
  /\ task = [d \in Doer |-> IF d = "start" THEN Starting ELSE NoTask]
  /\ table = [x \in Thing |-> [rid |-> IF x = Ghost THEN User ELSE NoRoom, hash |-> NoHash]]
  /\ request = 0
  /\ shown = [r \in Room |-> [of |-> Ghost, look |-> NoHash]] /\ made = User
  /\ asks = 0 /\ edits = 0 /\ mishaps = 0
  /\ crossed = "never" /\ lost = {} /\ told = {} /\ kept = {}
  /\ unread = {} /\ said = 0

-----------------------------------------------------------------------------
(* A handler takes its next step, ends, or fails.                          *)

At(d, pc) == task[d].pc = pc
Go(d, pc) == task' = [task EXCEPT ![d] = [task[d] EXCEPT !.pc = pc]]
End(d) == task' = [task EXCEPT ![d] = NoTask]

\* Mutant: connectLoop returns the error instead of trying again.
GiveUpForGood(d) == End(d)

\* What it returned an error for: connectLoop waits and starts over, a reload
\* and a command say so and are done.
GiveUp(d) == task' = [task EXCEPT ![d] =
  IF task[d].op = "start" THEN Starting ELSE NoTask]

Mishap(what) ==
  /\ what \in Faults /\ mishaps < Mishaps
  /\ mishaps' = mishaps + 1

Fails(d, what) == Mishap(what) /\ GiveUp(d)

Busy(d) == task[d].op # "none" /\ task[d].pc # "announce"
Others(d) == {e \in Doer \ {d} : Busy(e)}

\* Service.ready is closed and the loop of reloadOnHUP, the API or the room
\* brings a request.
Asked(d, what) ==
  /\ what \in Requests /\ asks < Asks
  /\ task[d].op = "none"
  /\ Others(d) # {} => Overlap /\ crossed = "never"
  /\ asks' = asks + 1
  /\ crossed' = IF Others(d) # {} THEN "now" ELSE crossed

-----------------------------------------------------------------------------
(* connectLoop: Bridge.Start, Reconcile, and the restart to announce.      *)

\* A second call finds b.as set; what is stored of the registration is used
\* again, and registering again returns the one there is.
Start(d) ==
  /\ At(d, "register")
  /\ \/ /\ as' = TRUE
        /\ task' = [task EXCEPT ![d] = [task[d] EXCEPT !.pc = "look",
                      !.todo = {Ghost}]]
        /\ UNCHANGED mishaps
     \/ ~as /\ Fails(d, "register") /\ UNCHANGED as
  /\ UNCHANGED <<dying, conf, ready, ids, rkey, disk, server, asks, edits, history>>

\* Mutant: The request is answered first and cleared then.
AnnounceThenClear(d) ==
  /\ At(d, "announce")
  /\ IF task[d].look # NoHash
     THEN /\ request' = 0
          /\ End(d) /\ UNCHANGED said
     ELSE IF request = 0
     THEN End(d) /\ UNCHANGED <<request, said>>
     ELSE /\ said' = IF ids[request] # NoRoom THEN said + 1 ELSE said
          /\ task' = [task EXCEPT ![d] = [task[d] EXCEPT !.look = 1, !.key = request]]
          /\ UNCHANGED request
  /\ UNCHANGED <<memory, file, table, server, bounds, crossed, lost, told, kept, unread>>

\* The request is cleared before it is answered, where its room is mapped.  One
\* that cannot be cleared is answered all the same and stays.
AnnounceRestart(d) ==
  /\ At(d, "announce")
  /\ \/ /\ task[d].look # NoHash
        /\ said' = IF ids[task[d].key] # NoRoom THEN said + 1 ELSE said
        /\ End(d) /\ UNCHANGED <<request, mishaps>>
     \/ /\ task[d].look = NoHash
        /\ (request = 0 /\ UNCHANGED mishaps) \/ Mishap("read")
        /\ End(d) /\ UNCHANGED <<request, said>>
     \/ /\ task[d].look = NoHash /\ request # 0
        /\ task' = [task EXCEPT ![d] = [task[d] EXCEPT !.look = 1, !.key = request]]
        /\ \/ request' = 0 /\ UNCHANGED <<said, mishaps>>
           \/ Mishap("clear") /\ said' = said - 1 /\ UNCHANGED request
  /\ UNCHANGED <<memory, file, table, server, asks, edits, crossed, lost, told, kept, unread>>

-----------------------------------------------------------------------------
(* Reconcile, and the part of it RecreateRoom calls: one thing after the   *)
(* other, in the order of their keys.                                      *)

IsNext(d, x) == x \in task[d].todo /\ \A y \in task[d].todo : x <= y

\* The configuration is read again for every key: a key that has gone from it
\* since the keys were listed gives the empty config.Room.
WantedLook(x) == IF x \in Key \ conf.rooms THEN Blank ELSE conf.look

\* The next thing is taken in hand, with what is known of its row.
Found(d, x, rid, hash) ==
  task' = [task EXCEPT ![d] = [task[d] EXCEPT
    !.todo = task[d].todo \ {x}, !.at = x, !.rid = rid, !.look = WantedLook(x),
    !.pc = IF rid = NoRoom THEN "create"
           ELSE IF hash # WantedLook(x) THEN "patch" ELSE "map"]]

\* Mutant: What the map does not hold is taken for missing.
ReadFromMap(d) ==
  /\ At(d, "look") /\ as
  /\ \E x \in Thing : IsNext(d, x) /\
     \/ /\ Found(d, x, IF x = Ghost THEN User ELSE ids[x], table[x].hash)
        /\ UNCHANGED mishaps
     \/ Fails(d, "read")
  /\ UNCHANGED <<memory, disk, server, asks, edits, history>>

\* reconcileStatusRoom takes a row it cannot read for one that is not there.
Read(d) ==
  /\ At(d, "look") /\ as
  /\ \E x \in Thing : IsNext(d, x) /\
     \/ /\ Found(d, x, table[x].rid, table[x].hash)
        /\ unread' = unread \ {table[x].rid}
        /\ UNCHANGED mishaps
     \/ x # Status /\ Fails(d, "read") /\ UNCHANGED unread
     \/ /\ x = Status /\ Mishap("read")
        /\ Found(d, x, NoRoom, NoHash)
        /\ unread' = unread \cup ({table[x].rid} \ {NoRoom})
     \/ /\ x = Status /\ Mishap("read")
        /\ Found(d, x, table[x].rid, NoHash)
        /\ UNCHANGED unread
  /\ UNCHANGED <<memory, disk, server, asks, edits, crossed, lost, told, kept, said>>

\* The room may be there although the call failed.
CreateRoom(d) ==
  /\ At(d, "create") /\ made < M + 1
  /\ \/ /\ made' = made + 1
        /\ shown' = [shown EXCEPT ![made + 1] = [of |-> task[d].at, look |-> task[d].look]]
        /\ \/ /\ task' = [task EXCEPT ![d] = [task[d] EXCEPT !.pc = "record", !.rid = made + 1]]
              /\ UNCHANGED <<mishaps, lost>>
           \/ Fails(d, "create") /\ lost' = lost \cup {made + 1}
     \/ Fails(d, "create") /\ UNCHANGED <<made, shown, lost>>
  /\ UNCHANGED <<memory, disk, asks, edits, crossed, told, kept, unread, said>>

\* PutRoom with an empty hash: the room is patched as well.  The hash of the
\* status room is a row of its own, which stays, and may not be readable.
RecordRoom(d) ==
  /\ At(d, "record")
  /\ LET x == task[d].at IN
     \/ /\ x # Status
        /\ table' = [table EXCEPT ![x] = [rid |-> task[d].rid, hash |-> NoHash]]
        /\ Go(d, "patch")
        /\ UNCHANGED <<mishaps, lost>>
     \/ /\ x = Status
        /\ table' = [table EXCEPT ![x] = [rid |-> task[d].rid, hash |-> table[x].hash]]
        /\ \/ table[x].hash = task[d].look /\ Go(d, "map") /\ UNCHANGED mishaps
           \/ table[x].hash # task[d].look /\ Go(d, "patch") /\ UNCHANGED mishaps
           \/ Mishap("read") /\ Go(d, "patch")
        /\ UNCHANGED lost
     \/ /\ Fails(d, "record")
        /\ lost' = lost \cup {task[d].rid}
        /\ UNCHANGED table
  /\ UNCHANGED <<memory, file, request, server, asks, edits, crossed, told, kept, unread, said>>

\* One state event after the other: an error leaves the first of them set.
PatchRoom(d) ==
  /\ At(d, "patch")
  /\ \/ /\ shown' = [shown EXCEPT ![task[d].rid] = [of |-> task[d].at, look |-> task[d].look]]
        /\ Go(d, "put")
        /\ UNCHANGED mishaps
     \/ /\ Fails(d, "patch")
        /\ \/ UNCHANGED shown
           \/ /\ shown[task[d].rid].look # task[d].look
              /\ shown' = [shown EXCEPT ![task[d].rid] = [of |-> task[d].at, look |-> Mixed]]
  /\ UNCHANGED <<memory, disk, made, asks, edits, history>>

\* Of the status room the hash alone is written.
PutHash(d) ==
  /\ At(d, "put")
  /\ \/ /\ table' = [table EXCEPT ![task[d].at] =
             [rid |-> IF task[d].at = Status THEN table[Status].rid ELSE task[d].rid,
              hash |-> task[d].look]]
        /\ Go(d, "map")
        /\ UNCHANGED mishaps
     \/ Fails(d, "put") /\ UNCHANGED table
  /\ UNCHANGED <<memory, file, request, server, asks, edits, history>>

\* The keys of the rooms are listed once the ghosts are done.
MapRoom(d) ==
  /\ At(d, "map")
  /\ LET x == task[d].at IN
     /\ ids' = [ids EXCEPT ![x] = task[d].rid]
     /\ rkey' = IF x \in Key THEN [rkey EXCEPT ![task[d].rid] = x] ELSE rkey
     /\ task' = [task EXCEPT ![d] = [task[d] EXCEPT
          !.pc = "look", !.at = Ghost, !.rid = NoRoom, !.look = NoHash,
          !.todo = IF x = Ghost THEN conf.rooms \cup {Status} ELSE task[d].todo]]
  /\ UNCHANGED <<dying, conf, as, ready, disk, server, bounds, history>>

\* What comes after it: the bridge is ready, the reload has worked, and
\* RecreateRoom looks up what was created.
Reconciled(d) ==
  /\ At(d, "look") /\ as /\ task[d].todo = {}
  /\ IF task[d].op = "start"
     THEN /\ ready' = TRUE
          /\ task' = [task EXCEPT ![d] = [task[d] EXCEPT !.pc = "announce", !.look = NoHash]]
     ELSE End(d) /\ UNCHANGED ready
  /\ UNCHANGED <<dying, conf, as, ids, rkey, disk, server, bounds, history>>

\* b.as is still nil: Intent panics.  The HTTP server recovers; after a
\* SIGHUP the process is gone.
NoAppservice(d) ==
  /\ At(d, "look") /\ ~as
  /\ End(d)
  /\ UNCHANGED <<memory, disk, server, bounds, history>>

-----------------------------------------------------------------------------
(* Reload.                                                                 *)

\* config.Load and the agents built from it; a file that does not load, or
\* names another bridge, changes nothing.
AskReload(d) ==
  /\ Asked(d, "reload")
  /\ task' = [task EXCEPT ![d] = [NoTask EXCEPT !.op = "reload", !.pc = "swap", !.conf = file]]
  /\ UNCHANGED <<memory, disk, server, edits, mishaps, lost, told, kept, unread, said>>

\* Both configurations are replaced; then the rooms reconcile.
Swap(d) ==
  /\ At(d, "swap")
  /\ conf' = task[d].conf
  /\ task' = [task EXCEPT ![d] = [task[d] EXCEPT !.pc = "look", !.todo = {Ghost}, !.conf = NoConf]]
  /\ UNCHANGED <<dying, as, ready, ids, rkey, disk, server, bounds, history>>

-----------------------------------------------------------------------------
(* /purge new-room: purgeNewRoom and RecreateRoom.  The command comes from *)
(* a room the bridge listens to, and that room is told first that it is    *)
(* replaced and that nothing more will be sent there.                      *)

\* Mutant: The room that is left is still listened to.
AskNewRoomListens(d) ==
  /\ Asked(d, "new room")
  /\ \E r \in Room : LET k == rkey[r] IN
     /\ k \in conf.rooms
     /\ told' = told \cup {r} /\ kept' = kept \ {r}
     /\ task' = [task EXCEPT ![d] = [NoTask EXCEPT
                   !.op = "new room", !.pc = "forget", !.key = k, !.old = ids[k]]]
     /\ ids' = [ids EXCEPT ![k] = NoRoom]
  /\ UNCHANGED <<dying, conf, as, ready, rkey, disk, server, edits, mishaps, lost, unread, said>>

AskNewRoom(d) ==
  /\ Asked(d, "new room")
  /\ \E r \in Room : LET k == rkey[r] IN
     /\ k \in conf.rooms
     /\ told' = told \cup {r} /\ kept' = kept \ {r}
     /\ task' = [task EXCEPT ![d] = [NoTask EXCEPT
                   !.op = "new room", !.pc = "forget", !.key = k, !.old = ids[k]]]
     /\ rkey' = [rkey EXCEPT ![ids[k]] = 0]
     /\ ids' = [ids EXCEPT ![k] = NoRoom]
  /\ UNCHANGED <<dying, conf, as, ready, disk, server, edits, mishaps, lost, unread, said>>

\* Mutant: Only the hash is forgotten.
ForgetHash(d) ==
  /\ At(d, "forget")
  /\ LET k == task[d].key
         old == task[d].old IN
     \/ /\ table' = [table EXCEPT ![k] = [table[k] EXCEPT !.hash = NoHash]]
        /\ task' = [task EXCEPT ![d] = [task[d] EXCEPT !.pc = "look", !.todo = conf.rooms]]
        /\ UNCHANGED <<ids, rkey, mishaps, kept>>
     \/ /\ Fails(d, "forget")
        /\ ids' = [ids EXCEPT ![k] = old]
        /\ rkey' = [rkey EXCEPT ![old] = k]
        /\ kept' = kept \cup {old}
        /\ UNCHANGED table
  /\ UNCHANGED <<dying, conf, as, ready, file, request, server, asks, edits, crossed, lost, told,
                 unread, said>>

\* A failure puts the mapping back, of a room that was told it is replaced.
ForgetRoomID(d) ==
  /\ At(d, "forget")
  /\ LET k == task[d].key
         old == task[d].old IN
     \/ /\ table' = [table EXCEPT ![k] = [rid |-> NoRoom, hash |-> NoHash]]
        /\ task' = [task EXCEPT ![d] = [task[d] EXCEPT !.pc = "look", !.todo = conf.rooms]]
        /\ UNCHANGED <<ids, rkey, mishaps, kept>>
     \/ /\ Fails(d, "forget")
        /\ ids' = [ids EXCEPT ![k] = old]
        /\ rkey' = [rkey EXCEPT ![old] = k]
        /\ kept' = kept \cup {old}
        /\ UNCHANGED table
  /\ UNCHANGED <<dying, conf, as, ready, file, request, server, asks, edits, crossed, lost, told,
                 unread, said>>

-----------------------------------------------------------------------------
(* The process and the operator.                                           *)

Reset ==
  /\ as' = FALSE /\ ready' = FALSE /\ dying' = FALSE /\ conf' = file
  /\ ids' = [x \in Thing |-> NoRoom] /\ rkey' = [r \in Room |-> 0]
  /\ task' = [d \in Doer |-> IF d = "start" THEN Starting ELSE NoTask]
  /\ lost' = lost \cup {task[d].rid : d \in {e \in Doer : At(e, "record")}}
  /\ kept' = kept \cup {task[d].old : d \in {e \in Doer : At(e, "forget")}}
  /\ crossed' = IF crossed = "never" THEN "never" ELSE "before"

\* commandRestart: the request is stored, then the process signals itself.
Restart(d) ==
  /\ Asked(d, "restart") /\ ~dying
  /\ \E r \in Room : rkey[r] # 0 /\ request' = rkey[r]
  /\ dying' = TRUE /\ said' = said - 1
  /\ UNCHANGED <<conf, as, ready, ids, rkey, task, file, table, server, edits, mishaps, lost, told, kept,
                 unread>>

\* The process dies, or stops, and is started again: what it held is gone.
Stop ==
  /\ \/ dying /\ UNCHANGED mishaps
     \/ mishaps < Mishaps /\ mishaps' = mishaps + 1
  /\ Reset
  /\ UNCHANGED <<disk, server, asks, edits, told, unread, said>>

Edit ==
  /\ edits < Edits /\ edits' = edits + 1
  /\ file' \in Config \ {file} /\ file'.rooms # {}
  /\ UNCHANGED <<memory, task, table, request, server, asks, mishaps, history>>

StartStep == \/ Start("start") \/ Read("start") \/ CreateRoom("start")
             \/ RecordRoom("start") \/ PatchRoom("start") \/ PutHash("start")
             \/ MapRoom("start") \/ Reconciled("start") \/ AnnounceRestart("start")

TaskStep(d) == \/ Read(d) \/ CreateRoom(d) \/ RecordRoom(d) \/ PatchRoom(d) \/ PutHash(d)
               \/ MapRoom(d) \/ Reconciled(d) \/ NoAppservice(d)
               \/ Swap(d) \/ ForgetRoomID(d)

Ask(d) == AskReload(d) \/ AskNewRoom(d) \/ Restart(d)

Next == \/ StartStep
        \/ \E d \in Tasks : TaskStep(d) \/ Ask(d)
        \/ Stop \/ Edit

\* connectLoop and the handlers are goroutines that keep running, and a
\* process that signalled itself stops.
Fairness == /\ WF_vars(StartStep) /\ \A d \in Tasks : WF_vars(TaskStep(d))
            /\ WF_vars(dying /\ Stop)

Spec == Init /\ [][Next]_vars /\ Fairness

-----------------------------------------------------------------------------
(* What must hold.                                                         *)

\* Every variable stays in its set.
TypeOK ==
  /\ file \in Config /\ conf \in Config
  /\ as \in BOOLEAN /\ ready \in BOOLEAN /\ dying \in BOOLEAN
  /\ ids \in [Thing -> Room] /\ rkey \in [Room -> Key \cup {0}]
  /\ task \in [Doer -> TaskRec]
  /\ table \in [Thing -> [rid : Room, hash : Look]]
  /\ request \in Key \cup {0}
  /\ shown \in [Room -> [of : Thing, look : Look]] /\ made \in User .. M + 1
  /\ asks \in 0 .. Asks /\ edits \in 0 .. Edits
  /\ mishaps \in 0 .. Mishaps
  /\ crossed \in {"never", "before", "now"}
  /\ lost \subseteq Room /\ told \subseteq Room /\ kept \subseteq Room
  /\ unread \subseteq Room /\ said \in Int

\* One handler at a time, whatever fails under way and wherever the process
\* dies, the two maps and the table tell the same story: a key is mapped to
\* the room its row names, that room and no other is listened to under the
\* key (rooms.go:134-137, 159-172).
MapsAgree == crossed # "now" =>
  \A k \in Key :
    /\ ids[k] # NoRoom => table[k].rid = ids[k]
    /\ {r \in Room : rkey[r] = k} = {ids[k]} \ {NoRoom}

\* From the moment a room is told "Nothing more will be sent here" it is not a
\* portal, and its row goes next and never comes back, through whatever else
\* fails and through restarts, unless two handlers reconciled at once.  Only a
\* room whose row could not be deleted, or whose process died before it was,
\* goes on, told or not, until it is told again (purge.go:176, rooms.go:155-171).
NothingMoreSent == crossed = "never" =>
  \A r \in told \ kept :
    /\ rkey[r] = 0
    /\ \A x \in Thing : /\ ids[x] # r
                       /\ table[x].rid = r => \E d \in Doer : At(d, "forget") /\ task[d].old = r

\* A room no row names is one that was replaced, one the process died before
\* recording, or failed to, one that is about to be recorded where no row is,
\* or the status room: a second one is created when its row cannot be read, and
\* recorded over it.  With one handler at a time, no other room is ever created
\* or forgotten (rooms.go:111-119, 234, status.go:28-39).
OneRoomEach == crossed = "never" =>
  /\ \A r \in (User + 1 .. made) \ ((told \ kept) \cup lost \cup unread) :
       \/ \E x \in Thing : table[x].rid = r
       \/ \E d \in Doer : /\ At(d, "record") /\ task[d].rid = r
                         /\ table[task[d].at].rid \in {NoRoom} \cup unread
  /\ \A r \in unread : shown[r].of = Status

\* When the bridge is ready every key of the configuration it came up with
\* has its room, and it stays ready; it comes up in the end, however its
\* start failed and whenever the process died (service.go:213-241).
ComesUp == <>[]ready

\* A restart is announced once, and once more for every time its request could
\* not be cleared: it is spent before it is answered (lifecycle.go:123-127).
AnnouncedOnce == said <= 0
=============================================================================
