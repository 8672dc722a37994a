---------------------------- MODULE Stream_proofs ----------------------------
(***************************************************************************)
(* What holds of Stream for an answer of any length, any number of devices *)
(* and of failures, and a buffer of any size: the types, that at most one  *)
(* edit straggles behind the final one and escapes the turn's record, and  *)
(* that a device has every chunk, at most once for each of its requests.   *)
(***************************************************************************)
EXTENDS Stream, SequenceTheorems, FiniteSetTheorems, TLAPS

-----------------------------------------------------------------------------
(* The types, with what every phase of the turn and of the loop implies.   *)

Updates == [by : {"turn", "timer", "replay"}, no : Nat, deltas : Seq(SUBSET Chunk),
            to : SUBSET Subscriber, at : {"publish", "send"}]

\* Until the stream is registered there is nothing; from then on the body of
\* the anchor is there.
Opened ==
  IF turn.at \in {"start", "anchored"}
  THEN /\ full = 0 /\ ~armed /\ loop.at = "off" /\ state = "none"
       /\ buffered = <<>> /\ out = {} /\ follows = {} /\ trimmed = {}
       /\ \A u \in Subscriber : \A k \in Chunk : got[u][k] = 0
  ELSE flushed >= 1

Closing ==
  /\ closed <=> turn.at \notin {"start", "anchored", "writing"}
  /\ closed => flushed = full
  /\ turn.at \notin {"redacting", "done"} => gone = {} /\ turn.todo = {}

InHand ==
  /\ loop.at \in {"locking", "sending"} => loop.edit \in 1 .. full
  /\ loop.at = "recording" => loop.edit \in DOMAIN room

TypeInv ==
  /\ TypeOK /\ Opened /\ Closing /\ InHand
  /\ turn.todo \subseteq listed
  /\ buffered \in Seq(SUBSET Chunk) /\ out \subseteq Updates

-----------------------------------------------------------------------------
(* The edits.                                                              *)

\* What the room has and the stream does not know of.
Unrecorded == (DOMAIN room \ edits) \ lost
Escaped == (DOMAIN room \ listed) \ lost

Pending == loop.at \in {"locking", "sending"}

EditInv ==
  /\ \A i \in DOMAIN room : room[i] = Final =>
       /\ closed
       /\ Len(room) <= i + (IF Pending THEN 0 ELSE 1)
       /\ turn.at \in {"listing", "redacting", "done"}
  /\ Unrecorded \subseteq IF loop.at = "recording" THEN {loop.edit} ELSE {}
  /\ turn.at \in {"redacting", "done"} =>
       /\ IF Pending THEN Escaped = {} ELSE \E i \in 0 .. Len(room) : Escaped \subseteq {i}
       /\ turn.how = "abort" => Cardinality((listed \ gone) \ turn.todo) <= fails
  /\ turn.at = "done" => turn.todo = {}

-----------------------------------------------------------------------------
(* The deltas.                                                             *)

Apart(s) == \A i, j \in DOMAIN s : i # j => s[i] \cap s[j] = {}

\* The updates that are to bring a chunk to a device.
Brings(u, k) == {o \in out : u \in o.to /\ k \in Chunks(o.deltas)}

\* What a device was brought and what is on its way to it are together no more
\* than it asked for, and what is still to be published is nowhere else.
Once ==
  /\ IsFiniteSet(out)
  /\ Apart(buffered)
  /\ \A u \in Subscriber : \A k \in Chunk :
       got[u][k] + Cardinality(Brings(u, k)) <= asks[u]
  /\ \A u \in Subscriber : \A k \in Chunk : got[u][k] > 0 => k \in 2 .. flushed
  /\ \A u \in follows : asks[u] >= 1
  /\ \A o \in out :
       /\ Apart(o.deltas)
       /\ o.at = "publish" =>
            /\ o.to = {} /\ Chunks(o.deltas) \cap Chunks(buffered) = {}
            /\ \A p \in out : o # p => Chunks(o.deltas) \cap Chunks(p.deltas) = {}
            /\ \A u \in Subscriber : \A k \in Chunks(o.deltas) : got[u][k] = 0

Unpublished(k) == \E o \in out : o.at = "publish" /\ k \in Chunks(o.deltas)
Coming(u, k) == \E o \in out : u \in o.to /\ k \in Chunks(o.deltas)

\* What was flushed a device has, will get or is excused from; and one that
\* subscribes now will get the rest from the buffer.
Complete ==
  /\ state = "live" => follows \subseteq subs
  /\ "deltas" \in mode => \A k \in 2 .. flushed :
       /\ \A u \in follows : \/ got[u][k] > 0 \/ k \in excused[u]
                             \/ Unpublished(k) \/ Coming(u, k)
       /\ state = "live" => k \in trimmed \/ k \in Chunks(buffered) \/ Unpublished(k)

DeltaInv == Once /\ Complete
-----------------------------------------------------------------------------
(* Deltas, whatever they are sets of.                                      *)

LEMMA ChunksMember ==
  ASSUME NEW s, NEW k
  PROVE  k \in Chunks(s) <=> \E i \in DOMAIN s : k \in s[i]
BY DEF Chunks

LEMMA ChunksOfNone == Chunks(<<>>) = {}
BY DEF Chunks

LEMMA ChunksOfOne ==
  ASSUME NEW d, NEW S, d \in S
  PROVE  <<d>> \in Seq(S) /\ Chunks(<<d>>) = d /\ Apart(<<d>>)
<1>1. <<d>> \in Seq(S) /\ DOMAIN <<d>> = {1} /\ <<d>>[1] = d
  OBVIOUS
<1> QED BY <1>1, ChunksMember DEF Apart

LEMMA ChunksOfBoth ==
  ASSUME NEW S, NEW s \in Seq(S), NEW t \in Seq(S)
  PROVE  /\ s \o t \in Seq(S)
         /\ Chunks(s \o t) = Chunks(s) \cup Chunks(t)
<1>1. /\ s \o t \in Seq(S)
      /\ DOMAIN (s \o t) = 1 .. Len(s) + Len(t)
      /\ DOMAIN s = 1 .. Len(s) /\ DOMAIN t = 1 .. Len(t)
      /\ Len(s) \in Nat /\ Len(t) \in Nat
      /\ \A i \in 1 .. Len(s) + Len(t) :
           (s \o t)[i] = IF i <= Len(s) THEN s[i] ELSE t[i - Len(s)]
  BY ConcatProperties
<1>2. ASSUME NEW k, k \in Chunks(s \o t) PROVE k \in Chunks(s) \cup Chunks(t)
  <2>1. PICK i \in 1 .. Len(s) + Len(t) : k \in (s \o t)[i]
    BY <1>1, <1>2, ChunksMember
  <2>2. CASE i <= Len(s)
    BY <1>1, <2>1, <2>2, ChunksMember
  <2>3. CASE i > Len(s)
    <3>1. i - Len(s) \in 1 .. Len(t) /\ k \in t[i - Len(s)]
      BY <1>1, <2>1, <2>3
    <3> QED BY <1>1, <3>1, ChunksMember
  <2> QED BY <1>1, <2>2, <2>3
<1>3. ASSUME NEW k, k \in Chunks(s) PROVE k \in Chunks(s \o t)
  <2>1. PICK i \in 1 .. Len(s) : k \in s[i]
    BY <1>1, <1>3, ChunksMember
  <2>2. i \in 1 .. Len(s) + Len(t) /\ (s \o t)[i] = s[i]
    BY <1>1
  <2> QED BY <1>1, <2>1, <2>2, ChunksMember
<1>4. ASSUME NEW k, k \in Chunks(t) PROVE k \in Chunks(s \o t)
  <2>1. PICK i \in 1 .. Len(t) : k \in t[i]
    BY <1>1, <1>4, ChunksMember
  <2>2. i + Len(s) \in 1 .. Len(s) + Len(t) /\ (s \o t)[i + Len(s)] = t[i]
    BY <1>1
  <2> QED BY <1>1, <2>1, <2>2, ChunksMember
<1> QED BY <1>1, <1>2, <1>3, <1>4

LEMMA ApartOfBoth ==
  ASSUME NEW S, NEW s \in Seq(S), NEW t \in Seq(S),
         Apart(s), Apart(t), Chunks(s) \cap Chunks(t) = {}
  PROVE  Apart(s \o t)
<1>1. /\ DOMAIN (s \o t) = 1 .. Len(s) + Len(t)
      /\ DOMAIN s = 1 .. Len(s) /\ DOMAIN t = 1 .. Len(t)
      /\ Len(s) \in Nat /\ Len(t) \in Nat
      /\ \A i \in 1 .. Len(s) + Len(t) :
           (s \o t)[i] = IF i <= Len(s) THEN s[i] ELSE t[i - Len(s)]
  BY ConcatProperties
<1>2. \A i \in 1 .. Len(s), j \in 1 .. Len(t) : s[i] \cap t[j] = {}
  BY <1>1, ChunksMember
<1>3. SUFFICES ASSUME NEW i \in 1 .. Len(s) + Len(t), NEW j \in 1 .. Len(s) + Len(t), i < j
               PROVE  (s \o t)[i] \cap (s \o t)[j] = {}
  BY <1>1, SMTT(30) DEF Apart
<1>4. CASE j <= Len(s)
  BY <1>1, <1>3, <1>4 DEF Apart
<1>5. CASE i <= Len(s) /\ j > Len(s)
  <2>1. j - Len(s) \in 1 .. Len(t)
    BY <1>1, <1>5
  <2> QED BY <1>1, <1>2, <1>5, <2>1
<1>6. CASE i > Len(s)
  <2>1. /\ i - Len(s) \in 1 .. Len(t) /\ j - Len(s) \in 1 .. Len(t)
        /\ i - Len(s) # j - Len(s)
    BY <1>1, <1>3, <1>6
  <2> QED BY <1>1, <1>3, <1>6, <2>1, SMTT(30) DEF Apart
<1> QED BY <1>1, <1>4, <1>5, <1>6

\* What the buffer keeps is in it already, and no longer than it may be.
LEMMA Keeping ==
  ASSUME NEW S, NEW s \in Seq(S)
  PROVE  /\ Keep(s) \in Seq(S) /\ Len(Keep(s)) <= MaxBuffered
         /\ Chunks(Keep(s)) \subseteq Chunks(s)
         /\ Apart(s) => Apart(Keep(s))
<1>1. CASE Len(s) <= MaxBuffered
  BY <1>1, StreamAssumption DEF Keep
<1>2. CASE Len(s) > MaxBuffered
  <2> DEFINE m == Len(s) - MaxBuffered + 1
             n == Len(s)
             r == SubSeq(s, m, n)
  <2>1. /\ m \in Int /\ n \in Int /\ m \in 1 .. n /\ n - m + 1 = MaxBuffered
        /\ \A i \in m .. n : s[i] \in S
        /\ DOMAIN s = 1 .. n
    BY <1>2, StreamAssumption
  <2>2. /\ r \in Seq(S) /\ Len(r) = MaxBuffered
        /\ \A i \in 1 .. MaxBuffered : r[i] = s[m + i - 1]
    <3> HIDE DEF m, n
    <3> QED BY <2>1, SubSeqProperties
  <2>3. Keep(s) = r
    BY <1>2, StreamAssumption DEF Keep
  <2>4. DOMAIN r = 1 .. MaxBuffered
    BY <2>2
  <2>5. \A i \in 1 .. MaxBuffered : m + i - 1 \in 1 .. n
    BY <2>1, StreamAssumption
  <2> HIDE DEF m, n, r
  <2>6. Chunks(r) \subseteq Chunks(s)
    BY <2>1, <2>2, <2>4, <2>5, ChunksMember
  <2>7. Apart(s) => Apart(r)
    <3> SUFFICES ASSUME Apart(s), NEW i \in 1 .. MaxBuffered, NEW j \in 1 .. MaxBuffered, i # j
                 PROVE  r[i] \cap r[j] = {}
      BY <2>4 DEF Apart
    <3>1. m + i - 1 # m + j - 1
      BY <2>1
    <3> QED BY <2>1, <2>2, <2>5, <3>1 DEF Apart
  <2>8. Len(r) <= MaxBuffered
    BY <2>2, StreamAssumption
  <2> QED BY <2>2, <2>3, <2>6, <2>7, <2>8
<1> QED BY <1>1, <1>2, StreamAssumption

\* How often a chunk is in deltas that are apart.
LEMMA CopiesOf ==
  ASSUME NEW S, NEW s \in Seq(S), NEW k
  PROVE  /\ Copies(k, s) \in Nat
         /\ Apart(s) => Copies(k, s) <= 1
         /\ k \in Chunks(s) <=> Copies(k, s) > 0
<1> DEFINE T == {i \in DOMAIN s : k \in s[i]}
<1>1. IsFiniteSet(T)
  <2>1. DOMAIN s = 1 .. Len(s) /\ Len(s) \in Nat
    OBVIOUS
  <2>2. IsFiniteSet(1 .. Len(s)) /\ T \subseteq 1 .. Len(s)
    BY <2>1, FS_Interval
  <2> QED BY <2>2, FS_Subset
<1>2. Cardinality(T) \in Nat /\ (Cardinality(T) = 0 <=> T = {})
  BY <1>1, FS_CardinalityType, FS_EmptySet
<1>3. ASSUME Apart(s) PROVE Cardinality(T) <= 1
  <2>1. CASE T = {}
    BY <1>2, <2>1
  <2>2. CASE T # {}
    <3>1. PICK i \in T : TRUE
      BY <2>2
    <3>2. T = {i}
      BY <1>3, <3>1 DEF Apart
    <3>3. Cardinality({i}) = 1
      BY FS_Singleton
    <3>4. Cardinality(T) = 1
      BY <3>2, <3>3, Zenon
    <3> HIDE DEF T
    <3> QED BY <3>4
  <2> QED BY <2>1, <2>2
<1>4. k \in Chunks(s) <=> T # {}
  BY ChunksMember
<1>5. Copies(k, s) = Cardinality(T)
  BY DEF Copies
<1> HIDE DEF T
<1> QED BY <1>2, <1>3, <1>4, <1>5

-----------------------------------------------------------------------------
(* The types.                                                              *)

LEMMA TypeInit == Init => TypeInv
<1> SUFFICES ASSUME Init PROVE TypeInv
  OBVIOUS
<1>1. /\ buffered \in Seq(SUBSET Chunk) /\ Len(buffered) = 0 /\ Chunks(buffered) = {}
      /\ asks \in [Subscriber -> Nat] /\ got \in [Subscriber -> [Chunk -> Nat]]
      /\ \A u \in Subscriber : \A k \in Chunk : got[u][k] = 0
      /\ room \in Seq(0 .. C) /\ Len(room) = 0 /\ DOMAIN room = {}
  BY ChunksOfNone DEF Init
<1>2. turn \in [at : {"start", "anchored", "writing", "draining", "locking",
                     "committing", "listing", "redacting", "done"},
               how : {"none", "finish", "abort"}, todo : SUBSET (0 .. Len(room))]
  BY DEF Init
<1>3. loop \in [at : {"off", "waiting", "locking", "sending", "recording"}, edit : Nat]
  BY DEF Init
<1>4. /\ mode \in Modes /\ full = 0 /\ sentText = 0 /\ flushed = 0 /\ fails = 0
      /\ armed = FALSE /\ closed = FALSE /\ edits = {} /\ lost = {} /\ listed = {} /\ gone = {}
      /\ state = "none" /\ subs = {} /\ follows = {} /\ out = {} /\ trimmed = {}
      /\ excused \in [Subscriber -> SUBSET Chunk]
  BY DEF Init
<1>5. TypeOK
  <2>1. /\ flushed \in 0 .. full /\ sentText \in 0 .. full /\ full \in 0 .. C
        /\ fails \in 0 .. MaxFails /\ Len(buffered) <= MaxBuffered
    BY <1>1, <1>4, StreamAssumption
  <2>2. /\ edits \in SUBSET DOMAIN room /\ lost \in SUBSET DOMAIN room
        /\ listed \in SUBSET (0 .. Len(room)) /\ gone \subseteq listed
        /\ subs \subseteq follows /\ follows \subseteq Subscriber /\ trimmed \subseteq Chunk
        /\ Chunks(buffered) \subseteq 2 .. flushed
    BY <1>1, <1>4
  <2> QED BY <1>1, <1>2, <1>3, <1>4, <2>1, <2>2 DEF TypeOK
<1>6. Opened /\ Closing /\ InHand /\ turn.todo \subseteq listed
  BY <1>1 DEF Init, Opened, Closing, InHand
<1> QED BY <1>1, <1>4, <1>5, <1>6 DEF TypeInv

\* What leaves Stream.pending are the chunks that were not flushed yet.
LEMMA Taking ==
  ASSUME TypeInv, NEW by \in {"turn", "timer"}, TakePending(by), flushed >= 1
  PROVE  /\ flushed' = full /\ full \in 1 .. C /\ flushed \in 1 .. full
         /\ flushed + 1 .. full \subseteq 2 .. full
         /\ Chunks(<<flushed + 1 .. full>>) = flushed + 1 .. full
         /\ Update(by, 0, <<flushed + 1 .. full>>, {}, "publish") \in Updates
         /\ Apart(<<flushed + 1 .. full>>)
         /\ out' \subseteq Updates
         /\ \A o \in out' : Chunks(o.deltas) \subseteq 2 .. full
<1>1. flushed' = full /\ full \in 1 .. C /\ flushed \in 1 .. full
  BY StreamAssumption DEF TypeInv, TypeOK, TakePending
<1>2. flushed + 1 .. full \subseteq 2 .. full /\ flushed + 1 .. full \in SUBSET Chunk
  BY <1>1, StreamAssumption DEF Chunk
<1>3. /\ <<flushed + 1 .. full>> \in Seq(SUBSET Chunk)
      /\ Chunks(<<flushed + 1 .. full>>) = flushed + 1 .. full
      /\ Apart(<<flushed + 1 .. full>>)
  BY <1>2, ChunksOfOne
<1>4. /\ Update(by, 0, <<flushed + 1 .. full>>, {}, "publish") \in Updates
      /\ Update(by, 0, <<flushed + 1 .. full>>, {}, "publish").deltas = <<flushed + 1 .. full>>
  BY <1>3 DEF Update, Updates
<1>5. \A o \in out : o \in Updates /\ Chunks(o.deltas) \subseteq 2 .. flushed
  BY DEF TypeInv, TypeOK
<1>6. \A o \in out : Chunks(o.deltas) \subseteq 2 .. full
  BY <1>1, <1>5
<1> QED BY <1>1, <1>2, <1>3, <1>4, <1>5, <1>6 DEF TakePending

LEMMA Appending ==
  ASSUME TypeInv, NEW e \in 0 .. C, room' = Append(room, e)
  PROVE  /\ room' \in Seq(0 .. C) /\ Len(room') = Len(room) + 1
         /\ DOMAIN room' = DOMAIN room \cup {Len(room')}
         /\ DOMAIN room = 1 .. Len(room) /\ Len(room) \in Nat
         /\ 0 .. Len(room) \subseteq 0 .. Len(room')
         /\ room'[Len(room')] = e
         /\ \A i \in DOMAIN room : room'[i] = room[i]
BY StreamAssumption DEF TypeInv, TypeOK

\* An update on its way.
LEMMA UpdateType ==
  ASSUME TypeInv, NEW o \in out
  PROVE  /\ o \in Updates /\ o.deltas \in Seq(SUBSET Chunk)
         /\ o.by \in {"turn", "timer", "replay"} /\ o.to \subseteq Subscriber
         /\ Chunks(o.deltas) \subseteq 2 .. flushed
         /\ \A to \in SUBSET Subscriber :
              LET n == Update(o.by, o.no, o.deltas, to, "send") IN
              n \in Updates /\ n.deltas = o.deltas /\ n.to = to /\ n.at = "send" /\ n.by = o.by
BY DEF TypeInv, TypeOK, Updates, Update

LEMMA SomeChunks ==
  ASSUME TypeInv
  PROVE  2 .. flushed \subseteq Chunk
BY StreamAssumption DEF TypeInv, TypeOK, Chunk

LEMMA Asking ==
  ASSUME TypeInv, NEW u \in Subscriber, Subscribe(u)
  PROVE  /\ asks[u] \in Nat /\ asks'[u] = asks[u] + 1
         /\ \A v \in Subscriber : v # u => asks'[v] = asks[v]
         /\ out' = IF buffered = <<>> THEN out
                   ELSE out \cup {Update("replay", asks[u] + 1, buffered, {u}, "send")}
<1>1. asks \in [Subscriber -> Nat] /\ asks' = [asks EXCEPT ![u] = @ + 1]
  BY DEF Subscribe, TypeInv, TypeOK
<1>2. asks[u] \in Nat /\ asks'[u] = asks[u] + 1
      /\ \A v \in Subscriber : v # u => asks'[v] = asks[v]
  BY <1>1
<1> QED BY <1>2 DEF Subscribe

LEMMA TypeStep == TypeInv /\ [Next]_vars => TypeInv'
<1> SUFFICES ASSUME TypeInv, [Next]_vars PROVE TypeInv'
  OBVIOUS
<1> USE StreamAssumption
<1>1. CASE StartStream
  <2>1. /\ turn.at = "start" /\ turn' = [turn EXCEPT !.at = "anchored"]
        /\ UNCHANGED <<mode, text, editing, history, listed, gone, publisher, out, devices, fails>>
    BY <1>1 DEF StartStream, Move
  <2>2. /\ turn' \in [at : {"start", "anchored", "writing", "draining", "locking",
                            "committing", "listing", "redacting", "done"},
                      how : {"none", "finish", "abort"}, todo : SUBSET (0 .. Len(room))]
        /\ turn'.at = "anchored" /\ turn'.todo = turn.todo
    BY <2>1 DEF TypeInv, TypeOK
  <2>3. TypeOK'
    BY <2>1, <2>2 DEF TypeInv, TypeOK, text, editing, history, publisher, devices
  <2>4. Opened' /\ Closing' /\ InHand'
    BY <2>1, <2>2 DEF TypeInv, Opened, Closing, InHand, text, editing, history, publisher, devices
  <2> QED BY <2>1, <2>2, <2>3, <2>4 DEF TypeInv, history, publisher
<1>2. CASE Register
  <2>1. /\ full' = 1 /\ sentText' = 1 /\ flushed' = 1 /\ state' = "live"
        /\ turn' = [turn EXCEPT !.at = "writing"] /\ turn.at = "anchored"
        /\ \/ loop' = [loop EXCEPT !.at = "waiting"]
           \/ loop' = loop
    BY <1>2 DEF Register, Move
  <2>2. /\ out = {} /\ buffered = <<>> /\ follows = {} /\ ~closed /\ gone = {} /\ turn.todo = {}
        /\ loop.at = "off"
    BY <2>1 DEF TypeInv, Opened, Closing
  <2>3. TypeOK'
    <3>1. /\ turn' \in [at : {"start", "anchored", "writing", "draining", "locking",
                             "committing", "listing", "redacting", "done"},
                       how : {"none", "finish", "abort"}, todo : SUBSET (0 .. Len(room))]
          /\ loop' \in [at : {"off", "waiting", "locking", "sending", "recording"}, edit : Nat]
      BY <2>1, ZenonT(60) DEF TypeInv, TypeOK
    <3>2. /\ flushed' \in 0 .. full' /\ sentText' \in 0 .. full' /\ full' \in 0 .. C
      BY <2>1
    <3>3. /\ buffered' = <<>> /\ Len(buffered') <= MaxBuffered /\ Chunks(buffered') = {}
          /\ out' = {}
      BY <1>2, <2>2, ChunksOfNone DEF Register
    <3> QED BY <1>2, <2>1, <3>1, <3>2, <3>3 DEF Register, TypeInv, TypeOK, history, devices
  <2>4. Opened' /\ Closing' /\ InHand'
    BY <1>2, <2>1, <2>2 DEF Register, TypeInv, TypeOK, Opened, Closing, InHand, history, devices
  <2> QED BY <1>2, <2>1, <2>2, <2>3, <2>4 DEF Register, TypeInv
<1>3. CASE Push
  BY <1>3 DEF Push, TypeInv, TypeOK, Opened, Closing, InHand, editing, history, publisher, devices
<1>4. CASE Flush
  <2>1. turn.at \notin {"start", "anchored"} /\ flushed >= 1
    BY <1>4 DEF Flush, TypeInv, TypeOK, Opened
  <2>2. CASE closed
    <3>1. UNCHANGED <<flushed, out, turn, full, closed, mode, editing, history, listed, gone,
                      publisher, devices, fails>> /\ armed' = FALSE
      BY <1>4, <2>2 DEF Flush
    <3>2. TypeOK'
      BY <3>1, ZenonT(60) DEF TypeInv, TypeOK, editing, history, publisher, devices
    <3>3. Opened' /\ Closing' /\ InHand'
      BY <3>1 DEF TypeInv, Opened, Closing, InHand, editing, history, publisher, devices
    <3> QED BY <3>1, <3>2, <3>3 DEF TypeInv, editing, history, publisher, devices
  <2>3. CASE ~closed
    <3>1. TakePending("timer")
      BY <1>4, <2>3 DEF Flush
    <3>2. /\ flushed' = full /\ full \in 1 .. C /\ flushed \in 1 .. full
          /\ out' \subseteq Updates /\ \A o \in out' : Chunks(o.deltas) \subseteq 2 .. full
      BY <2>1, <3>1, Taking
    <3>3. \A o \in out' : /\ o.by \in {"turn", "timer", "replay"}
                          /\ o.to \subseteq Subscriber /\ o.at \in {"publish", "send"}
      BY <3>2 DEF Updates
    <3>4. 2 .. flushed \subseteq 2 .. flushed' /\ flushed' \in 0 .. full
      BY <3>2
    <3>5. Chunks(buffered) \subseteq 2 .. flushed' /\ armed' = FALSE
      BY <1>4, <3>4 DEF Flush, TypeInv, TypeOK
    <3>6. TypeOK'
      BY <1>4, <3>2, <3>3, <3>4, <3>5, ZenonT(60)
         DEF Flush, TypeInv, TypeOK, editing, history, publisher, devices
    <3> QED BY <1>4, <2>1, <2>3, <3>2, <3>6
            DEF Flush, TypeInv, Opened, Closing, InHand, editing, history, publisher, devices
  <2> QED BY <2>2, <2>3
<1>5. CASE Tick
  BY <1>5 DEF Tick, TypeInv, TypeOK, Opened, Closing, InHand, text, history, publisher, devices
<1>6. CASE LoopLocks
  BY <1>6 DEF LoopLocks, TypeInv, TypeOK, Opened, Closing, InHand, text, history, publisher,
              devices
<1>7. CASE LoopSends
  <2>1. loop.at = "sending" /\ loop.edit \in 1 .. full /\ loop.edit \in 0 .. C
        /\ turn.at \notin {"start", "anchored"}
    BY <1>7 DEF LoopSends, TypeInv, TypeOK, InHand, Opened
  <2>2. CASE room' = Append(room, loop.edit)
    <3>1. /\ room' \in Seq(0 .. C) /\ Len(room') = Len(room) + 1
          /\ DOMAIN room' = DOMAIN room \cup {Len(room')} /\ Len(room) \in Nat
          /\ 0 .. Len(room) \subseteq 0 .. Len(room')
      BY <2>1, <2>2, Appending
    <3>2. /\ loop' \in [at : {"off", "waiting", "locking", "sending", "recording"}, edit : Nat]
          /\ loop'.at \in {"recording", "waiting"}
          /\ loop'.at = "recording" => loop'.edit = Len(room')
      BY <1>7, <3>1 DEF LoopSends, TypeInv, TypeOK
    <3>3. lost' \subseteq DOMAIN room' /\ fails' \in 0 .. MaxFails
      BY <1>7, <3>1, SMTT(30) DEF LoopSends, TypeInv, TypeOK, Fail
    <3>4. turn' \in [at : {"start", "anchored", "writing", "draining", "locking",
                           "committing", "listing", "redacting", "done"},
                     how : {"none", "finish", "abort"}, todo : SUBSET (0 .. Len(room'))]
      BY <1>7, <3>1 DEF LoopSends, TypeInv, TypeOK
    <3>5. TypeOK'
      BY <1>7, <3>1, <3>2, <3>3, <3>4
         DEF LoopSends, TypeInv, TypeOK, text, publisher, devices
    <3> QED BY <1>7, <2>1, <3>1, <3>2, <3>5
            DEF LoopSends, TypeInv, Opened, Closing, InHand, text, publisher, devices
  <2>3. CASE loop' = [loop EXCEPT !.at = "waiting"] /\ Fail /\ UNCHANGED <<room, lost>>
    <3>1. /\ loop' \in [at : {"off", "waiting", "locking", "sending", "recording"}, edit : Nat]
          /\ loop'.at = "waiting" /\ fails' \in 0 .. MaxFails
      BY <2>3, SMTT(30) DEF TypeInv, TypeOK, Fail
    <3>2. TypeOK'
      BY <1>7, <2>3, <3>1 DEF LoopSends, TypeInv, TypeOK, text, publisher, devices
    <3> QED BY <1>7, <2>1, <2>3, <3>1, <3>2
            DEF LoopSends, TypeInv, Opened, Closing, InHand, text, publisher, devices
  <2> QED BY <1>7, <2>2, <2>3 DEF LoopSends
<1>8. CASE LoopRecords
  BY <1>8, ZenonT(60) DEF LoopRecords, TypeInv, TypeOK, Opened, Closing, InHand, text, publisher, devices
<1>9. CASE LoopStops
  BY <1>9 DEF LoopStops, TypeInv, TypeOK, Opened, Closing, InHand, text, history, publisher,
              devices
<1>10. ASSUME NEW how \in {"finish", "abort"}, Close(how)
       PROVE  TypeInv'
  <2>1. turn.at = "writing" /\ flushed >= 1 /\ ~closed
    BY <1>10 DEF Close, TypeInv, Opened, Closing
  <2>2. /\ flushed' = full /\ full \in 1 .. C /\ flushed \in 1 .. full
        /\ out' \subseteq Updates /\ \A o \in out' : Chunks(o.deltas) \subseteq 2 .. full
    <3>1. TakePending("turn")
      BY <1>10 DEF Close
    <3> QED BY <2>1, <3>1, Taking
  <2>3. \A o \in out' : /\ o.by \in {"turn", "timer", "replay"}
                        /\ o.to \subseteq Subscriber /\ o.at \in {"publish", "send"}
    BY <2>2 DEF Updates
  <2>4. 2 .. flushed \subseteq 2 .. flushed' /\ flushed' \in 0 .. full
    BY <2>2
  <2>5. /\ Chunks(buffered) \subseteq 2 .. flushed' /\ armed' \in BOOLEAN /\ closed' = TRUE
        /\ turn' \in [at : {"start", "anchored", "writing", "draining", "locking",
                           "committing", "listing", "redacting", "done"},
                     how : {"none", "finish", "abort"}, todo : SUBSET (0 .. Len(room))]
    BY <1>10, <2>4 DEF Close, TypeInv, TypeOK
  <2>6. TypeOK'
    BY <1>10, <2>2, <2>3, <2>4, <2>5
       DEF Close, TypeInv, TypeOK, editing, history, publisher, devices
  <2> QED BY <1>10, <2>1, <2>2, <2>6
          DEF Close, TypeInv, TypeOK, Opened, Closing, InHand, editing, history, publisher, devices
<1>11. CASE CloseStream
  <2>1. turn' \in [at : {"start", "anchored", "writing", "draining", "locking",
                         "committing", "listing", "redacting", "done"},
                   how : {"none", "finish", "abort"}, todo : SUBSET (0 .. Len(room))]
        /\ turn.at = "draining" /\ turn'.at \in {"locking", "listing"} /\ turn'.todo = turn.todo
    BY <1>11 DEF CloseStream, Move, TypeInv, TypeOK
  <2>2. TypeOK' /\ buffered' \in Seq(SUBSET Chunk)
    BY <1>11, <2>1, ChunksOfNone
       DEF CloseStream, TypeInv, TypeOK, text, editing, history, devices
  <2> QED BY <1>11, <2>1, <2>2
          DEF CloseStream, TypeInv, Opened, Closing, InHand, text, editing, history, devices
<1>12. CASE TurnLocks
  BY <1>12 DEF TurnLocks, Move, TypeInv, TypeOK, Opened, Closing, InHand, text, editing,
              history, publisher, devices
<1>13. CASE Commit
  <2>1. turn.at = "committing" /\ turn' = [turn EXCEPT !.at = "listing"]
    BY <1>13 DEF Commit, Move
  <2>2. CASE room' = Append(room, Final)
    <3>1. /\ room' \in Seq(0 .. C) /\ Len(room') = Len(room) + 1
          /\ DOMAIN room' = DOMAIN room \cup {Len(room')} /\ Len(room) \in Nat
          /\ 0 .. Len(room) \subseteq 0 .. Len(room')
      BY <2>2, Appending DEF Final
    <3>2. /\ lost' \subseteq DOMAIN room' /\ edits' \subseteq DOMAIN room'
          /\ fails' \in 0 .. MaxFails
      BY <1>13, <3>1 DEF Commit, TypeInv, TypeOK, Fail, history
    <3>3. turn' \in [at : {"start", "anchored", "writing", "draining", "locking",
                           "committing", "listing", "redacting", "done"},
                     how : {"none", "finish", "abort"}, todo : SUBSET (0 .. Len(room'))]
      BY <2>1, <3>1 DEF TypeInv, TypeOK
    <3>4. TypeOK'
      BY <1>13, <3>1, <3>2, <3>3 DEF Commit, TypeInv, TypeOK, text, editing, publisher, devices
    <3> QED BY <1>13, <2>1, <3>1, <3>4
            DEF Commit, TypeInv, TypeOK, Opened, Closing, InHand, text, editing, publisher, devices
  <2>3. CASE Fail /\ UNCHANGED history
    <3>1. /\ turn' \in [at : {"start", "anchored", "writing", "draining", "locking",
                             "committing", "listing", "redacting", "done"},
                       how : {"none", "finish", "abort"}, todo : SUBSET (0 .. Len(room))]
          /\ turn'.at = "listing" /\ turn'.todo = turn.todo
      BY <2>1 DEF TypeInv, TypeOK
    <3>2. fails' \in 0 .. MaxFails
      BY <2>3 DEF TypeInv, TypeOK, Fail
    <3>3. TypeOK'
      BY <1>13, <2>3, <3>1, <3>2
         DEF Commit, TypeInv, TypeOK, text, editing, history, publisher, devices
    <3> QED BY <1>13, <2>1, <2>3, <3>1, <3>3
            DEF Commit, TypeInv, Opened, Closing, InHand, text, editing, history, publisher, devices
  <2> QED BY <1>13, <2>2, <2>3 DEF Commit
<1>14. CASE ListEvents
  <2>1. listed' \subseteq 0 .. Len(room) /\ gone = {}
    BY <1>14 DEF ListEvents, TypeInv, TypeOK, Closing, Anchor
  <2>2. /\ turn' \in [at : {"start", "anchored", "writing", "draining", "locking",
                            "committing", "listing", "redacting", "done"},
                      how : {"none", "finish", "abort"}, todo : SUBSET (0 .. Len(room))]
        /\ turn.at = "listing" /\ turn'.at = "redacting" /\ turn'.todo \subseteq listed'
    BY <1>14, <2>1 DEF ListEvents, TypeInv, TypeOK
  <2>3. TypeOK'
    BY <1>14, <2>1, <2>2 DEF ListEvents, TypeInv, TypeOK, text, editing, history, publisher, devices
  <2> QED BY <1>14, <2>1, <2>2, <2>3
          DEF ListEvents, TypeInv, Opened, Closing, InHand, text, editing, history, publisher, devices
<1>15. CASE Redact
  <2>1. PICK e \in turn.todo :
          /\ turn' = [turn EXCEPT !.todo = @ \ {e}]
          /\ \/ gone' = gone \cup {e} /\ UNCHANGED fails
             \/ Fail /\ UNCHANGED gone
    BY <1>15 DEF Redact
  <2>2. /\ turn' \in [at : {"start", "anchored", "writing", "draining", "locking",
                            "committing", "listing", "redacting", "done"},
                      how : {"none", "finish", "abort"}, todo : SUBSET (0 .. Len(room))]
        /\ turn'.at = turn.at /\ turn'.todo = turn.todo \ {e}
    BY <2>1 DEF TypeInv, TypeOK
  <2>3. gone' \subseteq listed /\ fails' \in 0 .. MaxFails
    BY <2>1 DEF TypeInv, TypeOK, Fail
  <2>4. TypeOK'
    BY <1>15, <2>2, <2>3 DEF Redact, TypeInv, TypeOK, text, editing, history, publisher, devices
  <2> QED BY <1>15, <2>2, <2>4
          DEF Redact, TypeInv, Opened, Closing, InHand, text, editing, history, publisher, devices
<1>16. CASE Done
  BY <1>16 DEF Done, Move, TypeInv, TypeOK, Opened, Closing, InHand, text, editing,
              history, publisher, devices
<1>17. CASE Forget
  BY <1>17 DEF Forget, TypeInv, TypeOK, Opened, Closing, InHand, text, editing,
              history, devices
<1>18. ASSUME NEW o \in out, Publish(o) PROVE TypeInv'
  <2>1. /\ o.deltas \in Seq(SUBSET Chunk) /\ Chunks(o.deltas) \subseteq 2 .. flushed
        /\ Chunks(o.deltas) \subseteq Chunk
    BY UpdateType, SomeChunks
  <2>2. turn.at \notin {"start", "anchored"}
    BY <1>18 DEF TypeInv, Opened
  <2>3. /\ \A p \in out' : /\ p \in Updates /\ Chunks(p.deltas) \subseteq 2 .. flushed
                           /\ p.by \in {"turn", "timer", "replay"}
                           /\ p.to \subseteq Subscriber /\ p.at \in {"publish", "send"}
    <3>1. subs \in SUBSET Subscriber
      BY DEF TypeInv, TypeOK
    <3> DEFINE n == Update(o.by, o.no, o.deltas, subs, "send")
    <3>2. n \in Updates /\ n.deltas = o.deltas /\ n.to = subs /\ n.at = "send" /\ n.by = o.by
      BY <3>1, UpdateType
    <3>3. \A p \in out' : p \in out \/ p = n
      BY <1>18 DEF Publish, SendTo
    <3>4. \A p \in out : /\ p \in Updates /\ Chunks(p.deltas) \subseteq 2 .. flushed
                         /\ p.by \in {"turn", "timer", "replay"}
                         /\ p.to \subseteq Subscriber /\ p.at \in {"publish", "send"}
      BY DEF TypeInv, TypeOK
    <3> HIDE DEF n
    <3>5. /\ Chunks(n.deltas) \subseteq 2 .. flushed /\ n.by \in {"turn", "timer", "replay"}
      BY <2>1, <3>2, UpdateType
    <3> QED BY <3>1, <3>2, <3>3, <3>4, <3>5
  <2>4. /\ buffered' \in Seq(SUBSET Chunk) /\ Len(buffered') <= MaxBuffered
        /\ Chunks(buffered') \subseteq 2 .. flushed
        /\ trimmed' \subseteq Chunk
    <3>1. CASE state # "live"
      BY <1>18, <3>1 DEF Publish, TypeInv, TypeOK
    <3>2. CASE state = "live"
      <4>1. /\ buffered \o o.deltas \in Seq(SUBSET Chunk)
            /\ Chunks(buffered \o o.deltas) = Chunks(buffered) \cup Chunks(o.deltas)
        BY <2>1, ChunksOfBoth DEF TypeInv
      <4>2. /\ buffered' = Keep(buffered \o o.deltas)
            /\ trimmed' = trimmed \cup (Chunks(buffered \o o.deltas) \ Chunks(buffered'))
        BY <1>18, <3>2 DEF Publish
      <4>3. Chunks(buffered) \subseteq 2 .. flushed /\ trimmed \subseteq Chunk
        BY DEF TypeInv, TypeOK
      <4>4. Chunks(buffered \o o.deltas) \subseteq 2 .. flushed
        BY <2>1, <4>1, <4>3
      <4>5. /\ buffered' \in Seq(SUBSET Chunk) /\ Len(buffered') <= MaxBuffered
            /\ Chunks(buffered') \subseteq Chunks(buffered \o o.deltas)
        BY <4>1, <4>2, Keeping
      <4> QED BY <4>2, <4>3, <4>4, <4>5, SomeChunks
    <3> QED BY <3>1, <3>2
  <2>5. excused' \in [Subscriber -> SUBSET Chunk]
    BY <1>18, <2>1 DEF Publish, TypeInv, TypeOK
  <2>6. TypeOK'
    BY <1>18, <2>3, <2>4, <2>5 DEF Publish, TypeInv, TypeOK, text, editing, history
  <2> QED BY <1>18, <2>2, <2>3, <2>4, <2>6
          DEF Publish, TypeInv, Opened, Closing, InHand, text, editing, history
<1>19. ASSUME NEW o \in out, SendToDevice(o) PROVE TypeInv'
  <2>1. /\ o.deltas \in Seq(SUBSET Chunk) /\ Chunks(o.deltas) \subseteq Chunk
    BY UpdateType, SomeChunks
  <2>2. turn.at \notin {"start", "anchored"} /\ out' \subseteq out
    BY <1>19 DEF SendToDevice, TypeInv, Opened
  <2>3. got' \in [Subscriber -> [Chunk -> Nat]]
    <3>1. \A k \in Chunk : Copies(k, o.deltas) \in Nat
      BY <2>1, CopiesOf
    <3>2. \/ got' = [u \in Subscriber |-> [k \in Chunk |->
                      got[u][k] + IF u \in o.to THEN Copies(k, o.deltas) ELSE 0]]
          \/ got' = got
      BY <1>19 DEF SendToDevice
    <3>3. got \in [Subscriber -> [Chunk -> Nat]]
      BY DEF TypeInv, TypeOK
    <3>4. \A u \in Subscriber, k \in Chunk :
            got[u][k] + (IF u \in o.to THEN Copies(k, o.deltas) ELSE 0) \in Nat
      BY <3>1, <3>3
    <3> QED BY <3>2, <3>3, <3>4
  <2>4. excused' \in [Subscriber -> SUBSET Chunk] /\ fails' \in 0 .. MaxFails
    <3>1. \/ excused' = [u \in Subscriber |-> IF u \in o.to
                           THEN excused[u] \cup Chunks(o.deltas) ELSE excused[u]]
             /\ Fail
          \/ excused' = excused /\ fails' = fails
      BY <1>19 DEF SendToDevice
    <3>2. excused \in [Subscriber -> SUBSET Chunk] /\ fails \in 0 .. MaxFails
      BY DEF TypeInv, TypeOK
    <3> QED BY <2>1, <3>1, <3>2 DEF Fail
  <2>5. TypeOK'
    BY <1>19, <2>2, <2>3, <2>4 DEF SendToDevice, TypeInv, TypeOK, text, editing, history, publisher
  <2> QED BY <1>19, <2>2, <2>5
          DEF SendToDevice, TypeInv, Opened, Closing, InHand, text, editing, history, publisher
<1>20. ASSUME NEW u \in Subscriber, Subscribe(u) PROVE TypeInv'
  <2>1. turn.at \notin {"start", "anchored"}
    BY <1>20 DEF Subscribe, TypeInv, Opened
  <2>2. \A p \in out' : /\ p \in Updates /\ Chunks(p.deltas) \subseteq 2 .. flushed
                        /\ p.by \in {"turn", "timer", "replay"}
                        /\ p.to \subseteq Subscriber /\ p.at \in {"publish", "send"}
    <3> DEFINE n == Update("replay", asks[u] + 1, buffered, {u}, "send")
    <3>0. asks[u] \in Nat
      BY DEF TypeInv, TypeOK
    <3>1. n \in Updates /\ n.deltas = buffered /\ n.to = {u} /\ n.at = "send" /\ n.by = "replay"
      BY <3>0 DEF TypeInv, Update, Updates
    <3>2. \A p \in out' : p \in out \/ p = n
      BY <1>20, Asking
    <3> HIDE DEF n
    <3> QED BY <3>1, <3>2 DEF TypeInv, TypeOK
  <2>3. asks' \in [Subscriber -> Nat] /\ excused' \in [Subscriber -> SUBSET Chunk]
    BY <1>20 DEF Subscribe, TypeInv, TypeOK
  <2>4. TypeOK'
    BY <1>20, <2>2, <2>3, ZenonT(60) DEF Subscribe, TypeInv, TypeOK, text, editing, history
  <2> QED BY <1>20, <2>1, <2>2, <2>4
          DEF Subscribe, TypeInv, Opened, Closing, InHand, text, editing, history
<1>21. ASSUME NEW u \in Subscriber, Expire(u) PROVE TypeInv'
  BY <1>21 DEF Expire, TypeInv, TypeOK, Opened, Closing, InHand, text, editing, history
<1>22. CASE UNCHANGED vars
  BY <1>22 DEF vars, TypeInv, TypeOK, Opened, Closing, InHand
<1> QED BY <1>1, <1>2, <1>3, <1>4, <1>5, <1>6, <1>7, <1>8, <1>9, <1>10, <1>11, <1>12, <1>13,
           <1>14, <1>15, <1>16, <1>17, <1>18, <1>19, <1>20, <1>21, <1>22
        DEF Next, TurnStep, LoopStep, UpdateStep

\* Every variable keeps its type: the texts and the flushed chunks within what
\* was written, the places within the room, the buffer within its bound.
THEOREM TypeCorrect == Spec => []TypeOK
<1>1. TypeInv => TypeOK
  BY DEF TypeInv
<1> QED BY <1>1, TypeInit, TypeStep, PTL DEF Spec

-----------------------------------------------------------------------------
(* The edits.                                                              *)

LEMMA EditInit == Init => EditInv
BY DEF Init, EditInv, Unrecorded

LEMMA UnredactedFinite ==
  ASSUME TypeInv
  PROVE  /\ IsFiniteSet((listed \ gone) \ turn.todo)
         /\ Cardinality((listed \ gone) \ turn.todo) \in Nat
<1>1. IsFiniteSet(0 .. Len(room))
  <2>1. Len(room) \in Int /\ 0 \in Int
    BY DEF TypeInv, TypeOK
  <2> QED BY <2>1, FS_Interval
<1>2. (listed \ gone) \ turn.todo \subseteq 0 .. Len(room)
  BY DEF TypeInv, TypeOK
<1> QED BY <1>1, <1>2, FS_Subset, FS_CardinalityType

\* What touches neither the room nor the turn nor the loop.
LEMMA EditsAlone ==
  ASSUME TypeInv, EditInv, fails' \in Nat, fails' >= fails,
         UNCHANGED <<turn, closed, loop, room, edits, lost, listed, gone>>
  PROVE  EditInv'
<1>1. fails \in Nat
  BY StreamAssumption DEF TypeInv, TypeOK
<1>2. Cardinality((listed \ gone) \ turn.todo) \in Nat
  BY UnredactedFinite
<1> QED BY <1>1, <1>2 DEF EditInv, Unrecorded, Escaped, Pending

LEMMA LoopEdits ==
  ASSUME TypeInv, EditInv, LoopStep
  PROVE  EditInv'
<1> USE StreamAssumption
<1>0. turn' = turn /\ closed' = closed /\ listed' = listed /\ gone' = gone
  BY DEF LoopStep, Tick, LoopLocks, LoopSends, LoopRecords, LoopStops, text
<1>1. CASE Tick \/ LoopLocks \/ LoopStops
  <2>1. /\ UNCHANGED <<turn, closed, room, edits, lost, listed, gone, fails>>
        /\ loop.at # "recording" /\ loop'.at # "recording"
        /\ Pending' => Pending \/ ~closed
        /\ Pending => Pending'
    BY <1>1 DEF Tick, LoopLocks, LoopStops, TypeInv, TypeOK, text, history, Pending
  <2>2. closed <=> turn.at \notin {"start", "anchored", "writing"}
    BY DEF TypeInv, Closing
  <2>3. DOMAIN room = 1 .. Len(room) /\ Len(room) \in Nat
    BY DEF TypeInv, TypeOK
  <2>4. 0 \in 0 .. Len(room)
    BY <2>3
  <2> QED BY <2>1, <2>2, <2>3, <2>4 DEF EditInv, Unrecorded, Escaped
<1>2. CASE LoopSends
  <2>1. loop.at = "sending" /\ loop.edit \in 1 .. C /\ edits' = edits /\ Pending
    BY <1>2 DEF LoopSends, TypeInv, TypeOK, InHand, Pending
  <2>2. ~Pending' /\ loop'.at \in {"recording", "waiting"}
    BY <1>2 DEF LoopSends, TypeInv, TypeOK, Pending
  <2>3. CASE room' = Append(room, loop.edit)
    <3>1. /\ DOMAIN room' = DOMAIN room \cup {Len(room')} /\ Len(room') = Len(room) + 1
          /\ DOMAIN room = 1 .. Len(room) /\ Len(room) \in Nat
          /\ room'[Len(room')] = loop.edit
          /\ \A i \in DOMAIN room : room'[i] = room[i]
      BY <2>1, <2>3, Appending
    <3>2. \A i \in DOMAIN room' : room'[i] = Final =>
            /\ closed /\ Len(room') <= i + 1
            /\ turn.at \in {"listing", "redacting", "done"}
      BY <2>1, <3>1 DEF EditInv, Final
    <3>3. /\ \/ loop'.at = "recording" /\ loop'.edit = Len(room') /\ lost' = lost
             \/ loop'.at = "waiting" /\ lost' = lost \cup {Len(room')}
          /\ fails' \in {fails, fails + 1}
      BY <1>2, <3>1 DEF LoopSends, TypeInv, TypeOK, Fail
    <3>4. Unrecorded' \subseteq IF loop'.at = "recording" THEN {loop'.edit} ELSE {}
      BY <2>1, <3>1, <3>3 DEF EditInv, Unrecorded
    <3>5. Escaped' \subseteq Escaped \cup {Len(room')}
      BY <1>0, <3>1, <3>3 DEF Escaped
    <3>6. Len(room') \in 0 .. Len(room')
      BY <3>1
    <3>7. turn.at \in {"redacting", "done"} => Escaped = {}
      BY <2>1 DEF EditInv
    <3>8. /\ turn.at \in {"redacting", "done"} /\ turn.how = "abort"
             => Cardinality((listed \ gone) \ turn.todo) <= fails'
          /\ turn.at = "done" => turn.todo = {}
      <4>1. fails \in Nat /\ Cardinality((listed \ gone) \ turn.todo) \in Nat
        BY UnredactedFinite DEF TypeInv, TypeOK
      <4> QED BY <3>3, <4>1 DEF EditInv
    <3> QED BY <1>0, <2>2, <3>2, <3>4, <3>5, <3>6, <3>7, <3>8 DEF EditInv
  <2>4. CASE loop' = [loop EXCEPT !.at = "waiting"] /\ Fail /\ UNCHANGED <<room, lost>>
    <3>1. /\ loop'.at = "waiting" /\ fails' = fails + 1 /\ fails \in Nat
      BY <2>4 DEF TypeInv, TypeOK, Fail
    <3>2. DOMAIN room = 1 .. Len(room) /\ Len(room) \in Nat /\ 0 \in 0 .. Len(room)
      BY DEF TypeInv, TypeOK
    <3>3. Cardinality((listed \ gone) \ turn.todo) \in Nat
      BY UnredactedFinite
    <3> QED BY <1>0, <2>1, <2>2, <2>4, <3>1, <3>2, <3>3 DEF EditInv, Unrecorded, Escaped
  <2> QED BY <1>2, <2>3, <2>4 DEF LoopSends
<1>3. CASE LoopRecords
  <2>1. /\ UNCHANGED <<turn, closed, room, lost, listed, gone, fails>>
        /\ loop.at = "recording" /\ loop'.at = "waiting" /\ edits' = edits \cup {loop.edit}
        /\ ~Pending /\ ~Pending'
    BY <1>3 DEF LoopRecords, TypeInv, TypeOK, text, Pending
  <2> QED BY <2>1 DEF EditInv, Unrecorded, Escaped
<1> QED BY <1>1, <1>2, <1>3 DEF LoopStep

\* One event less to redact: it is gone, or a call has failed.
LEMMA RedactEdits ==
  ASSUME TypeInv, EditInv, Redact
  PROVE  EditInv'
<1>1. PICK e \in turn.todo :
        /\ turn' = [turn EXCEPT !.todo = @ \ {e}]
        /\ \/ gone' = gone \cup {e} /\ UNCHANGED fails
           \/ Fail /\ UNCHANGED gone
  BY DEF Redact
<1>2. /\ turn'.at = turn.at /\ turn'.todo = turn.todo \ {e} /\ turn'.how = turn.how
      /\ turn.at = "redacting" /\ fails \in Nat
  BY <1>1, StreamAssumption DEF Redact, TypeInv, TypeOK
<1>3. UNCHANGED <<closed, loop, room, edits, lost, listed>>
  BY DEF Redact, text, editing, history
<1> DEFINE S == (listed \ gone) \ turn.todo
<1>4. IsFiniteSet(S) /\ Cardinality(S) \in Nat
  BY UnredactedFinite
<1>5. turn.how = "abort" => Cardinality(S') <= fails'
  <2> SUFFICES ASSUME turn.how = "abort" PROVE Cardinality(S') <= fails'
    OBVIOUS
  <2>1. Cardinality(S) <= fails
    BY <1>2 DEF EditInv
  <2>2. CASE gone' = gone \cup {e} /\ UNCHANGED fails
    <3>1. S' = S \ {e}
      BY <1>2, <1>3, <2>2
    <3>2. e \notin S
      BY <1>1
    <3> QED BY <2>1, <2>2, <3>1, <3>2
  <2>3. CASE Fail /\ UNCHANGED gone
    <3>1. S' \subseteq S \cup {e} /\ IsFiniteSet(S \cup {e})
      BY <1>2, <1>3, <1>4, <2>3, FS_AddElement
    <3>2. Cardinality(S \cup {e}) <= Cardinality(S) + 1
      <4>1. Cardinality(S \cup {e}) = IF e \in S THEN Cardinality(S) ELSE Cardinality(S) + 1
        BY <1>4, FS_AddElement
      <4> QED BY <1>4, <4>1
    <3>3. Cardinality(S') <= Cardinality(S \cup {e})
      BY <3>1, FS_Subset
    <3>4. Cardinality(S') \in Nat /\ Cardinality(S) \in Nat /\ Cardinality(S \cup {e}) \in Nat
      BY <1>4, <3>1, FS_Subset, FS_CardinalityType
    <3> QED BY <1>2, <2>1, <2>3, <3>2, <3>3, <3>4 DEF Fail
  <2> QED BY <1>1, <2>2, <2>3
<1> QED BY <1>2, <1>3, <1>5 DEF EditInv, Unrecorded, Escaped, Pending

LEMMA TurnEdits ==
  ASSUME TypeInv, EditInv, TurnStep
  PROVE  EditInv'
<1> USE StreamAssumption
<1>1. CASE StartStream \/ Register \/ (\E how \in {"finish", "abort"} : Close(how))
           \/ CloseStream \/ TurnLocks
  <2>1. /\ UNCHANGED <<room, edits, lost, listed, gone, fails>>
        /\ turn'.at \notin {"redacting", "done"}
        /\ turn.at \notin {"listing", "redacting", "done"}
    BY <1>1, ZenonT(60) DEF StartStream, Register, Close, CloseStream, TurnLocks, Move, TypeInv, TypeOK,
                history
  <2>2. /\ loop'.at = "recording" <=> loop.at = "recording"
        /\ loop'.edit = loop.edit
    <3>1. CASE Register
      BY <3>1 DEF Register, TypeInv, TypeOK, Opened
    <3>2. CASE ~Register
      BY <1>1, <3>2 DEF StartStream, Close, CloseStream, TurnLocks, editing
    <3> QED BY <3>1, <3>2
  <2>3. \A i \in DOMAIN room : room[i] # Final
    BY <2>1 DEF EditInv
  <2> QED BY <2>1, <2>2, <2>3 DEF EditInv, Unrecorded
<1>2. CASE Commit
  <2>1. /\ turn.at = "committing" /\ turn'.at = "listing" /\ closed /\ closed' = closed
        /\ loop' = loop
    BY <1>2 DEF Commit, Move, TypeInv, TypeOK, Closing, text, editing
  <2>2. \A i \in DOMAIN room : room[i] # Final
    BY <2>1 DEF EditInv
  <2>3. CASE room' = Append(room, Final)
    <3>1. /\ DOMAIN room' = DOMAIN room \cup {Len(room')} /\ Len(room') = Len(room) + 1
          /\ DOMAIN room = 1 .. Len(room) /\ Len(room) \in Nat
          /\ \A i \in DOMAIN room : room'[i] = room[i]
      BY <2>3, Appending DEF Final
    <3>2. \A i \in DOMAIN room' : room'[i] = Final => i = Len(room')
      BY <2>2, <3>1
    <3>3. Unrecorded' \subseteq Unrecorded
      BY <1>2, <3>1 DEF Commit, Unrecorded, history
    <3> QED BY <2>1, <3>1, <3>2, <3>3 DEF EditInv, Pending
  <2>4. CASE Fail /\ UNCHANGED history
    BY <2>1, <2>2, <2>4 DEF EditInv, Unrecorded, history
  <2> QED BY <1>2, <2>3, <2>4 DEF Commit
<1>3. CASE ListEvents
  <2>1. /\ turn'.at = "redacting" /\ turn.at = "listing" /\ listed' = edits \cup {Anchor}
        /\ UNCHANGED <<closed, loop, room, edits, lost, gone, fails>>
        /\ turn'.how = "abort" => turn'.todo = listed'
        /\ fails \in Nat
    BY <1>3 DEF ListEvents, TypeInv, TypeOK, text, editing, history
  <2>2. Escaped' \subseteq Unrecorded
    BY <2>1 DEF Escaped, Unrecorded
  <2>3. turn'.how = "abort" => Cardinality((listed' \ gone') \ turn'.todo) = 0
    <3>1. turn'.how = "abort" => (listed' \ gone') \ turn'.todo = {}
      BY <2>1
    <3> QED BY <3>1, FS_EmptySet
  <2>4. IF Pending' THEN Escaped' = {} ELSE \E i \in 0 .. Len(room') : Escaped' \subseteq {i}
    <3>1. loop.at # "recording" => Unrecorded = {}
      BY DEF EditInv
    <3>2. loop.at = "recording" => Unrecorded \subseteq {loop.edit} /\ loop.edit \in 0 .. Len(room)
      BY DEF EditInv, TypeInv, TypeOK, InHand
    <3>3. 0 \in 0 .. Len(room)
      BY DEF TypeInv, TypeOK
    <3> QED BY <2>1, <2>2, <3>1, <3>2, <3>3 DEF Pending
  <2> QED BY <2>1, <2>3, <2>4 DEF EditInv, Unrecorded, Pending
<1>4. CASE Redact
  BY <1>4, RedactEdits
<1>5. CASE Done
  <2>1. /\ UNCHANGED <<closed, loop, room, edits, lost, listed, gone, fails>>
        /\ turn.at = "redacting" /\ turn.todo = {} /\ turn' = [turn EXCEPT !.at = "done"]
    BY <1>5 DEF Done, Move, text, editing, history
  <2>2. turn'.at = "done" /\ turn'.todo = {} /\ turn'.how = turn.how
    BY <2>1 DEF TypeInv, TypeOK
  <2> QED BY <2>1, <2>2 DEF EditInv, Unrecorded, Escaped, Pending
<1> QED BY <1>1, <1>2, <1>3, <1>4, <1>5 DEF TurnStep

LEMMA EditStep == TypeInv /\ EditInv /\ [Next]_vars => EditInv'
<1> SUFFICES ASSUME TypeInv, EditInv, [Next]_vars PROVE EditInv'
  OBVIOUS
<1>1. fails \in Nat
  BY StreamAssumption DEF TypeInv, TypeOK
<1>2. CASE LoopStep \/ TurnStep
  BY <1>2, LoopEdits, TurnEdits
<1>3. CASE Push \/ Flush \/ Forget \/ UNCHANGED vars
  BY <1>1, <1>3, EditsAlone DEF Push, Flush, Forget, text, editing, history, vars
<1>4. ASSUME NEW o \in out, Publish(o) \/ SendToDevice(o) PROVE EditInv'
  <2>1. fails' \in {fails, fails + 1}
    BY <1>4 DEF Publish, SendToDevice, Fail
  <2>2. UNCHANGED <<turn, closed, loop, room, edits, lost, listed, gone>>
    BY <1>4 DEF Publish, SendToDevice, text, editing, history
  <2> QED BY <1>1, <2>1, <2>2, EditsAlone
<1>5. ASSUME NEW u \in Subscriber, Subscribe(u) \/ Expire(u) PROVE EditInv'
  BY <1>1, <1>5, EditsAlone DEF Subscribe, Expire, text, editing, history
<1> QED BY <1>2, <1>3, <1>4, <1>5 DEF Next, UpdateStep

\* However the edit loop, the turn that finishes or aborts and failing calls
\* interleave, one edit at most lands behind the final one, and one at most
\* escapes the record of the turn or its Abort, but for calls that failed.
THEOREM OneStragglerAtMost == Spec => []OneStraggler
<1>1. TypeInv /\ EditInv => OneStraggler
  <2> SUFFICES ASSUME TypeInv, EditInv PROVE OneStraggler
    OBVIOUS
  <2>1. \A i \in DOMAIN room : room[i] = Final => Len(room) <= i + 1
    BY DEF EditInv, TypeInv, TypeOK
  <2>2. ASSUME turn.at = "done" PROVE Cardinality(Escaped) <= 1
    <3>1. PICK i \in 0 .. Len(room) : Escaped \subseteq {i}
      <4>1. 0 \in 0 .. Len(room)
        BY DEF TypeInv, TypeOK
      <4> QED BY <2>2, <4>1 DEF EditInv
    <3>2. IsFiniteSet({i}) /\ Cardinality({i}) = 1
      BY FS_Singleton
    <3>3. Cardinality(Escaped) <= Cardinality({i})
      BY <3>1, <3>2, FS_Subset
    <3> QED BY <3>2, <3>3
  <2>3. ASSUME turn.at = "done", turn.how = "abort" PROVE Cardinality(listed \ gone) <= fails
    <3>1. (listed \ gone) \ turn.todo = listed \ gone
      BY <2>3 DEF EditInv
    <3> QED BY <2>3, <3>1 DEF EditInv
  <2> QED BY <2>1, <2>2, <2>3 DEF OneStraggler, Escaped
<1> QED BY <1>1, TypeInit, TypeStep, EditInit, EditStep, PTL DEF Spec

-----------------------------------------------------------------------------
(* The deltas.                                                             *)

LEMMA DeltaInit == Init => DeltaInv
<1> SUFFICES ASSUME Init PROVE DeltaInv
  OBVIOUS
<1>1. buffered = <<>> /\ out = {} /\ follows = {} /\ state = "none" /\ Chunks(buffered) = {}
      /\ \A u \in Subscriber : asks[u] = 0 /\ \A k \in Chunk : got[u][k] = 0
  BY ChunksOfNone DEF Init
<1>2. \A u, k : Brings(u, k) = {}
  BY <1>1 DEF Brings
<1>3. Once
  <2>1. IsFiniteSet(out) /\ Cardinality({}) = 0
    BY <1>1, FS_EmptySet
  <2>2. \A u \in Subscriber : \A k \in Chunk :
          got[u][k] + Cardinality(Brings(u, k)) <= asks[u]
    <3> SUFFICES ASSUME NEW u \in Subscriber, NEW k \in Chunk
                 PROVE  got[u][k] + Cardinality(Brings(u, k)) <= asks[u]
      OBVIOUS
    <3>1. got[u][k] = 0 /\ asks[u] = 0
      BY <1>1
    <3>2. Cardinality(Brings(u, k)) = 0
      BY <1>2, <2>1
    <3> QED BY <3>1, <3>2
  <2>3. Apart(buffered) /\ \A u \in Subscriber : \A k \in Chunk : ~(got[u][k] > 0)
    BY <1>1 DEF Apart
  <2> QED BY <1>1, <2>1, <2>2, <2>3 DEF Once
<1>4. Complete
  <2>1. 2 .. flushed = {}
    BY DEF Init
  <2> QED BY <1>1, <2>1 DEF Complete
<1> QED BY <1>3, <1>4 DEF DeltaInv

LEMMA DeltasAlone ==
  ASSUME DeltaInv,
         UNCHANGED <<mode, flushed, state, subs, buffered, out, asks, got, excused, follows, trimmed>>
  PROVE  DeltaInv'
BY DEF DeltaInv, Once, Complete, Unpublished, Coming, Brings

\* Counting the updates that bring something.
LEMMA Fewer ==
  ASSUME NEW S, NEW T, IsFiniteSet(S), T \subseteq S
  PROVE  /\ IsFiniteSet(T) /\ Cardinality(T) \in Nat /\ Cardinality(S) \in Nat
         /\ Cardinality(T) <= Cardinality(S)
BY FS_Subset, FS_CardinalityType

LEMMA OneMore ==
  ASSUME NEW S, NEW T, NEW x, IsFiniteSet(S), T \subseteq S \cup {x}
  PROVE  /\ IsFiniteSet(T) /\ Cardinality(T) \in Nat /\ Cardinality(S) \in Nat
         /\ Cardinality(T) <= Cardinality(S) + 1
<1>1. /\ IsFiniteSet(S \cup {x}) /\ Cardinality(S) \in Nat
      /\ Cardinality(S \cup {x}) <= Cardinality(S) + 1
  BY FS_AddElement, FS_CardinalityType
<1>2. /\ Cardinality(T) \in Nat /\ IsFiniteSet(T) /\ Cardinality(S \cup {x}) \in Nat
      /\ Cardinality(T) <= Cardinality(S \cup {x})
  BY <1>1, Fewer
<1> QED BY <1>1, <1>2

LEMMA OneLess ==
  ASSUME NEW S, NEW T, NEW x \in S, IsFiniteSet(S), T \subseteq S \ {x}
  PROVE  /\ IsFiniteSet(T) /\ Cardinality(T) \in Nat /\ Cardinality(S) \in Nat
         /\ Cardinality(T) <= Cardinality(S) - 1
<1>1. /\ IsFiniteSet(S \ {x}) /\ Cardinality(S) \in Nat
      /\ Cardinality(S \ {x}) = Cardinality(S) - 1
  BY FS_RemoveElement, FS_CardinalityType
<1>2. /\ Cardinality(T) \in Nat /\ IsFiniteSet(T) /\ Cardinality(S \ {x}) \in Nat
      /\ Cardinality(T) <= Cardinality(S \ {x})
  BY <1>1, Fewer
<1> QED BY <1>1, <1>2

LEMMA Numbers ==
  ASSUME TypeInv, DeltaInv, NEW u \in Subscriber, NEW k \in Chunk
  PROVE  /\ got[u][k] \in Nat /\ asks[u] \in Nat
         /\ IsFiniteSet(Brings(u, k)) /\ Cardinality(Brings(u, k)) \in Nat
         /\ got[u][k] + Cardinality(Brings(u, k)) <= asks[u]
<1>1. got \in [Subscriber -> [Chunk -> Nat]] /\ asks \in [Subscriber -> Nat]
  BY DEF TypeInv, TypeOK
<1>2. IsFiniteSet(out) /\ Brings(u, k) \subseteq out
  BY DEF DeltaInv, Once, Brings
<1>3. got[u][k] + Cardinality(Brings(u, k)) <= asks[u]
  BY DEF DeltaInv, Once
<1> QED BY <1>1, <1>2, <1>3, Fewer

\* Nothing is flushed before the stream is registered.
LEMMA RegisterDeltas ==
  ASSUME TypeInv, DeltaInv, Register
  PROVE  DeltaInv'
<1>1. /\ buffered' = buffered /\ out' = {} /\ out = {} /\ follows' = {} /\ flushed' = 1 /\ subs' = subs
      /\ asks' = asks /\ got' = got
      /\ \A u \in Subscriber : \A k \in Chunk : got[u][k] = 0
  BY DEF Register, TypeInv, Opened, devices
<1>2. Once'
  <2>1. \A u, k : Brings(u, k)' = Brings(u, k)
    BY <1>1 DEF Brings
  <2> QED BY <1>1, <2>1 DEF DeltaInv, Once
<1>3. Complete'
  <2>1. 2 .. flushed' = {}
    BY <1>1
  <2> QED BY <1>1, <2>1 DEF Complete
<1> QED BY <1>2, <1>3 DEF DeltaInv

\* What is taken now has never been taken before.
LEMMA TakingDeltas ==
  ASSUME TypeInv, DeltaInv, NEW by \in {"turn", "timer"}, TakePending(by), flushed >= 1,
         UNCHANGED <<mode, state, subs, buffered, asks, got, excused, follows, trimmed>>
  PROVE  DeltaInv'
<1> DEFINE d == <<flushed + 1 .. full>>
           n == Update(by, 0, d, {}, "publish")
<1>1. /\ flushed' = full /\ full \in 1 .. C
      /\ Chunks(d) = flushed + 1 .. full /\ Apart(d)
  BY Taking
<1>2. n.deltas = d /\ n.to = {} /\ n.at = "publish"
  BY DEF Update
<1>3. /\ \A o \in out : Chunks(o.deltas) \subseteq 2 .. flushed
      /\ Chunks(buffered) \subseteq 2 .. flushed /\ flushed \in 1 .. full
  BY DEF TypeInv, TypeOK
<1>4. \A u \in Subscriber : \A k \in Chunk :
        got[u][k] \in Nat /\ (got[u][k] > 0 => k \in 2 .. flushed)
  BY DEF TypeInv, TypeOK, DeltaInv, Once
<1>5. \A u \in Subscriber : \A k \in Chunk : got[u][k] > 0 => k \in 2 .. full
  BY <1>1, <1>3, <1>4
<1>6. CASE "deltas" \in mode /\ flushed < full
  <2>1. out' = out \cup {n}
    BY <1>6 DEF TakePending
  <2> HIDE DEF d, n
  <2>2. 2 .. flushed \cap flushed + 1 .. full = {}
    BY <1>1, <1>3
  <2>3. \A o \in out : Chunks(o.deltas) \cap Chunks(n.deltas) = {}
    BY <1>1, <1>2, <1>3, <2>2
  <2>4. /\ Chunks(n.deltas) \cap Chunks(buffered) = {}
        /\ \A u \in Subscriber : \A k \in Chunks(n.deltas) : got[u][k] = 0
    <3>1. Chunks(n.deltas) \subseteq Chunk
      BY <1>1, <1>2, <1>3, StreamAssumption DEF Chunk
    <3> QED BY <1>1, <1>2, <1>3, <1>4, <2>2, <3>1
  <2>5. \A u, k : Brings(u, k)' = Brings(u, k)
    BY <1>2, <2>1 DEF Brings
  <2>6. Once'
    <3>1. \A o \in out' : Apart(o.deltas)
      BY <1>1, <1>2, <2>1 DEF DeltaInv, Once
    <3>2. \A o, p \in out' : o # p /\ o.at = "publish"
                             => Chunks(o.deltas) \cap Chunks(p.deltas) = {}
      BY <2>1, <2>3 DEF DeltaInv, Once
    <3>3. \A o \in out' : o.at = "publish" =>
            /\ o.to = {} /\ Chunks(o.deltas) \cap Chunks(buffered) = {}
            /\ \A u \in Subscriber : \A k \in Chunks(o.deltas) : got[u][k] = 0
      BY <1>2, <2>1, <2>4 DEF DeltaInv, Once
    <3>4. Apart(buffered) /\ IsFiniteSet(out) /\ \A u \in follows : asks[u] >= 1
      BY DEF DeltaInv, Once
    <3>5. IsFiniteSet(out')
      BY <2>1, <3>4, FS_AddElement
    <3>6. \A u \in Subscriber : \A k \in Chunk :
            got[u][k] + Cardinality(Brings(u, k)') <= asks[u]
      BY <2>5 DEF DeltaInv, Once
    <3> QED BY <1>1, <1>5, <3>1, <3>2, <3>3, <3>4, <3>5, <3>6 DEF Once
  <2>7. Complete'
    <3>1. state' = "live" => follows' \subseteq subs'
      BY DEF DeltaInv, Complete
    <3>2. \A k \in flushed + 1 .. full : Unpublished(k)'
      BY <1>1, <1>2, <2>1 DEF Unpublished
    <3>3. \A k : Unpublished(k) => Unpublished(k)'
      BY <2>1 DEF Unpublished
    <3>4. \A u, k : Coming(u, k) => Coming(u, k)'
      BY <2>1 DEF Coming
    <3>5. 2 .. full \subseteq 2 .. flushed \cup flushed + 1 .. full
      BY <1>1, <1>3
    <3> QED BY <1>1, <1>6, <3>1, <3>2, <3>3, <3>4, <3>5 DEF DeltaInv, Complete
  <2> QED BY <2>6, <2>7 DEF DeltaInv
<1>7. CASE ~("deltas" \in mode /\ flushed < full)
  <2>1. out' = out
    BY <1>7 DEF TakePending
  <2>2. \A u, k : Brings(u, k)' = Brings(u, k)
    BY <2>1 DEF Brings
  <2>3. Once'
    BY <1>1, <1>5, <2>1, <2>2, ZenonT(60) DEF DeltaInv, Once
  <2>4. "deltas" \in mode => flushed' = flushed
    BY <1>1, <1>3, <1>7
  <2>5. Complete'
    BY <2>1, <2>4 DEF DeltaInv, Complete, Unpublished, Coming
  <2> QED BY <2>3, <2>5 DEF DeltaInv
<1> QED BY <1>6, <1>7

\* Publishing hands an update on to those who listen, and to the buffer.
LEMMA PublishDeltas ==
  ASSUME TypeInv, DeltaInv, NEW o \in out, Publish(o)
  PROVE  DeltaInv'
<1>1. /\ o.at = "publish" /\ o.deltas \in Seq(SUBSET Chunk) /\ o.to = {}
      /\ Chunks(o.deltas) \subseteq 2 .. flushed /\ Apart(o.deltas)
      /\ UNCHANGED <<mode, flushed, state, subs, asks, got, follows>>
      /\ IsFiniteSet(out)
  BY UpdateType DEF Publish, text, DeltaInv, Once
<1>2. CASE state # "live"
  <2>1. /\ out' = out \ {o} /\ buffered' = buffered /\ trimmed' = trimmed
        /\ \A u \in Subscriber : excused'[u] = excused[u] \cup Chunks(o.deltas)
    BY <1>2 DEF Publish
  <2>2. Once'
    <3>1. \A u, k : Brings(u, k)' = Brings(u, k)
      BY <1>1, <2>1 DEF Brings
    <3>2. IsFiniteSet(out')
      BY <1>1, <2>1, Fewer
    <3>3. \A u \in Subscriber : \A k \in Chunk :
            got[u][k] + Cardinality(Brings(u, k)') <= asks[u]
      BY <3>1 DEF DeltaInv, Once
    <3>4. /\ Apart(buffered) /\ \A u \in follows : asks[u] >= 1
          /\ \A u \in Subscriber : \A k \in Chunk : got[u][k] > 0 => k \in 2 .. flushed
          /\ \A p \in out' :
               /\ Apart(p.deltas)
               /\ p.at = "publish" =>
                    /\ p.to = {} /\ Chunks(p.deltas) \cap Chunks(buffered) = {}
                    /\ \A q \in out' : p # q => Chunks(p.deltas) \cap Chunks(q.deltas) = {}
                    /\ \A u \in Subscriber : \A k \in Chunks(p.deltas) : got[u][k] = 0
      BY <2>1 DEF DeltaInv, Once
    <3>5. buffered' = buffered /\ asks' = asks /\ got' = got /\ flushed' = flushed
          /\ follows' = follows
      BY <1>1, <2>1
    <3> HIDE <1>1, <2>1
    <3> QED BY <3>2, <3>3, <3>4, <3>5 DEF Once
  <2>3. follows \subseteq Subscriber
    BY DEF TypeInv, TypeOK
  <2>4. \A k : Unpublished(k) => Unpublished(k)' \/ k \in Chunks(o.deltas)
    BY <2>1 DEF Unpublished
  <2>5. \A u, k : Coming(u, k) => Coming(u, k)'
    BY <1>1, <2>1 DEF Coming
  <2>6. Complete'
    BY <1>1, <1>2, <2>1, <2>3, <2>4, <2>5 DEF DeltaInv, Complete
  <2> QED BY <2>2, <2>6 DEF DeltaInv
<1>3. CASE state = "live"
  <2> DEFINE n == Update(o.by, o.no, o.deltas, subs, "send")
  <2>1. n.deltas = o.deltas /\ n.to = subs /\ n.at = "send"
    BY DEF Update
  <2>2. /\ subs \subseteq follows /\ follows \subseteq subs /\ follows \subseteq Subscriber
    BY <1>3 DEF TypeInv, TypeOK, DeltaInv, Complete
  <2>3. /\ \A p \in out' : (p \in out /\ p # o) \/ p = n
        /\ \A p \in out : p \in out' \/ p = o
        /\ subs # {} => n \in out'
        /\ out' \subseteq out \cup {n}
    BY <1>3 DEF Publish, SendTo
  <2> HIDE DEF n
  <2>4. /\ buffered \in Seq(SUBSET Chunk)
        /\ Chunks(buffered \o o.deltas) = Chunks(buffered) \cup Chunks(o.deltas)
        /\ Apart(buffered \o o.deltas) /\ buffered \o o.deltas \in Seq(SUBSET Chunk)
    <3>1. buffered \in Seq(SUBSET Chunk) /\ Apart(buffered)
          /\ Chunks(buffered) \cap Chunks(o.deltas) = {}
      BY <1>1 DEF TypeInv, DeltaInv, Once
    <3> QED BY <1>1, <3>1, ChunksOfBoth, ApartOfBoth
  <2>5. /\ buffered' = Keep(buffered \o o.deltas)
        /\ trimmed' = trimmed \cup (Chunks(buffered \o o.deltas) \ Chunks(buffered'))
        /\ excused' = excused
    BY <1>3 DEF Publish
  <2>6. Chunks(buffered') \subseteq Chunks(buffered) \cup Chunks(o.deltas) /\ Apart(buffered')
    BY <2>4, <2>5, Keeping
  <2>7. /\ \A p \in out : p # o => Chunks(p.deltas) \cap Chunks(o.deltas) = {}
        /\ \A u \in Subscriber : \A k \in Chunks(o.deltas) : got[u][k] = 0
    BY <1>1 DEF DeltaInv, Once
  <2>8. \A u \in Subscriber : \A k \in Chunk :
          got[u][k] + Cardinality(Brings(u, k)') <= asks[u]
    <3> SUFFICES ASSUME NEW u \in Subscriber, NEW k \in Chunk
                 PROVE  got[u][k] + Cardinality(Brings(u, k)') <= asks[u]
      OBVIOUS
    <3>1. /\ got[u][k] \in Nat /\ asks[u] \in Nat
          /\ IsFiniteSet(Brings(u, k)) /\ Cardinality(Brings(u, k)) \in Nat
          /\ got[u][k] + Cardinality(Brings(u, k)) <= asks[u]
      BY Numbers
    <3>2. CASE k \in Chunks(o.deltas) /\ u \in subs
      <4>1. Brings(u, k)' \subseteq {n}
        BY <2>3, <2>7, <3>2 DEF Brings
      <4>2. Cardinality(Brings(u, k)') \in Nat /\ Cardinality(Brings(u, k)') <= 1
        <5>1. IsFiniteSet({n}) /\ Cardinality({n}) = 1
          BY FS_Singleton
        <5> QED BY <4>1, <5>1, Fewer
      <4>3. got[u][k] = 0 /\ asks[u] >= 1
        BY <2>2, <2>7, <3>2 DEF DeltaInv, Once
      <4> QED BY <3>1, <4>2, <4>3
    <3>3. CASE ~(k \in Chunks(o.deltas) /\ u \in subs)
      <4>1. Brings(u, k)' \subseteq Brings(u, k)
        BY <2>1, <2>3, <3>3 DEF Brings
      <4>2. /\ Cardinality(Brings(u, k)') \in Nat
            /\ Cardinality(Brings(u, k)') <= Cardinality(Brings(u, k))
        BY <3>1, <4>1, Fewer
      <4> QED BY <3>1, <4>2
    <3> QED BY <3>2, <3>3
  <2>9. Once'
    <3>1. \A p \in out' : Apart(p.deltas)
      BY <1>1, <2>1, <2>3 DEF DeltaInv, Once
    <3>2. \A p, q \in out' : p # q /\ p.at = "publish"
                             => Chunks(p.deltas) \cap Chunks(q.deltas) = {}
      BY <2>1, <2>3, <2>7 DEF DeltaInv, Once
    <3>3. \A p \in out' : p.at = "publish" =>
            /\ p.to = {} /\ Chunks(p.deltas) \cap Chunks(buffered') = {}
            /\ \A u \in Subscriber : \A k \in Chunks(p.deltas) : got[u][k] = 0
      BY <2>1, <2>3, <2>6, <2>7 DEF DeltaInv, Once
    <3>4. IsFiniteSet(out')
      BY <1>1, <2>3, OneMore
    <3>5. /\ \A u \in Subscriber : \A k \in Chunk : got[u][k] > 0 => k \in 2 .. flushed
          /\ \A u \in follows : asks[u] >= 1
      BY DEF DeltaInv, Once
    <3> QED BY <1>1, <2>6, <2>8, <3>1, <3>2, <3>3, <3>4, <3>5 DEF Once
  <2>10. Complete'
    <3>1. \A k : Unpublished(k) => Unpublished(k)' \/ k \in Chunks(o.deltas)
      BY <2>3 DEF Unpublished
    <3>2. \A u, k : Coming(u, k) => Coming(u, k)'
      BY <1>1, <2>3 DEF Coming
    <3>3. \A u \in follows, k \in Chunks(o.deltas) : Coming(u, k)'
      BY <2>1, <2>2, <2>3 DEF Coming
    <3>4. \A k : k \in Chunks(buffered) \/ k \in Chunks(o.deltas) \/ k \in trimmed
                  => k \in trimmed' \/ k \in Chunks(buffered')
      BY <2>4, <2>5
    <3> QED BY <1>1, <2>2, <2>5, <3>1, <3>2, <3>3, <3>4 DEF DeltaInv, Complete
  <2> QED BY <2>9, <2>10 DEF DeltaInv
<1> QED BY <1>2, <1>3

\* What one request does for a device and a chunk: at most one more copy, and
\* whoever it was for has the chunk or is excused.
Sent(o, u, k) ==
  /\ got'[u][k] \in Nat /\ got'[u][k] >= got[u][k]
  /\ got'[u][k] > got[u][k] =>
       u \in o.to /\ k \in Chunks(o.deltas) /\ got'[u][k] = got[u][k] + 1
  /\ u \in o.to /\ k \in Chunks(o.deltas) => got'[u][k] > 0 \/ k \in excused'[u]
  /\ k \in excused[u] => k \in excused'[u]

LEMMA SendingOne ==
  ASSUME TypeInv, DeltaInv, NEW o \in out, SendToDevice(o)
  PROVE  \A u \in Subscriber : \A k \in Chunk : Sent(o, u, k)
<1>1. /\ o.at = "send" /\ o.deltas \in Seq(SUBSET Chunk) /\ o.to \subseteq Subscriber
      /\ Chunks(o.deltas) \subseteq 2 .. flushed /\ Apart(o.deltas)
      /\ UNCHANGED <<mode, flushed, state, subs, buffered, asks, follows, trimmed>>
      /\ out' = out \ {o}
  BY UpdateType DEF SendToDevice, text, publisher, DeltaInv, Once
<1>2. \A k : Unpublished(k) => Unpublished(k)'
  BY <1>1 DEF Unpublished
<1>3. \A u, k : Coming(u, k) => Coming(u, k)' \/ (u \in o.to /\ k \in Chunks(o.deltas))
  BY <1>1 DEF Coming
<1>4. follows \subseteq Subscriber
  BY DEF TypeInv, TypeOK
<1>5. \A k \in Chunk : /\ Copies(k, o.deltas) \in Nat /\ Copies(k, o.deltas) <= 1
                       /\ k \in Chunks(o.deltas) <=> Copies(k, o.deltas) > 0
  BY <1>1, CopiesOf
<1>6. /\ excused \in [Subscriber -> SUBSET Chunk] /\ got \in [Subscriber -> [Chunk -> Nat]]
      /\ 2 .. flushed \subseteq Chunk
  BY SomeChunks DEF TypeInv, TypeOK
<1>7. CASE /\ got' = [u \in Subscriber |-> [k \in Chunk |->
                     got[u][k] + IF u \in o.to THEN Copies(k, o.deltas) ELSE 0]]
           /\ excused' = excused
  <2> SUFFICES ASSUME NEW u \in Subscriber, NEW k \in Chunk
               PROVE  Sent(o, u, k)
    OBVIOUS
  <2>1. got[u][k] \in Nat
    BY <1>6
  <2>2. got'[u][k] = got[u][k] + IF u \in o.to THEN Copies(k, o.deltas) ELSE 0
    BY <1>7
  <2> QED BY <1>5, <1>7, <2>1, <2>2 DEF Sent
<1>8. CASE /\ excused' = [u \in Subscriber |-> IF u \in o.to
                         THEN excused[u] \cup Chunks(o.deltas) ELSE excused[u]]
           /\ got' = got
  <2> SUFFICES ASSUME NEW u \in Subscriber, NEW k \in Chunk
               PROVE  Sent(o, u, k)
    OBVIOUS
  <2>1. got[u][k] \in Nat /\ got'[u][k] = got[u][k]
    BY <1>6, <1>8
  <2>2. excused'[u] = IF u \in o.to THEN excused[u] \cup Chunks(o.deltas) ELSE excused[u]
    BY <1>8
  <2> QED BY <2>1, <2>2 DEF Sent
<1> QED BY <1>7, <1>8 DEF SendToDevice

LEMMA SendDeltas ==
  ASSUME TypeInv, DeltaInv, NEW o \in out, SendToDevice(o)
  PROVE  DeltaInv'
<1>1. /\ o.at = "send" /\ o.deltas \in Seq(SUBSET Chunk) /\ o.to \subseteq Subscriber
      /\ Chunks(o.deltas) \subseteq 2 .. flushed /\ Apart(o.deltas)
      /\ UNCHANGED <<mode, flushed, state, subs, buffered, asks, follows, trimmed>>
      /\ out' = out \ {o}
  BY UpdateType DEF SendToDevice, text, publisher, DeltaInv, Once
<1>2. \A k : Unpublished(k) => Unpublished(k)'
  BY <1>1 DEF Unpublished
<1>3. \A u, k : Coming(u, k) => Coming(u, k)' \/ (u \in o.to /\ k \in Chunks(o.deltas))
  BY <1>1 DEF Coming
<1>4. follows \subseteq Subscriber
  BY DEF TypeInv, TypeOK
<1>5. \A k \in Chunk : /\ Copies(k, o.deltas) \in Nat /\ Copies(k, o.deltas) <= 1
                       /\ k \in Chunks(o.deltas) <=> Copies(k, o.deltas) > 0
  BY <1>1, CopiesOf
<1>6. /\ excused \in [Subscriber -> SUBSET Chunk] /\ got \in [Subscriber -> [Chunk -> Nat]]
      /\ 2 .. flushed \subseteq Chunk
  BY SomeChunks DEF TypeInv, TypeOK
<1>8. \A u \in Subscriber : \A k \in Chunk :
        /\ got'[u][k] \in Nat /\ got'[u][k] >= got[u][k]
        /\ got'[u][k] > got[u][k] =>
             u \in o.to /\ k \in Chunks(o.deltas) /\ got'[u][k] = got[u][k] + 1
        /\ u \in o.to /\ k \in Chunks(o.deltas) => got'[u][k] > 0 \/ k \in excused'[u]
        /\ k \in excused[u] => k \in excused'[u]
  BY SendingOne DEF Sent
<1>9. \A u \in Subscriber : \A k \in Chunk :
        got'[u][k] + Cardinality(Brings(u, k)') <= asks[u]
  <2> SUFFICES ASSUME NEW u \in Subscriber, NEW k \in Chunk
               PROVE  got'[u][k] + Cardinality(Brings(u, k)') <= asks[u]
    OBVIOUS
  <2>1. /\ got[u][k] \in Nat /\ asks[u] \in Nat
        /\ IsFiniteSet(Brings(u, k)) /\ Cardinality(Brings(u, k)) \in Nat
        /\ got[u][k] + Cardinality(Brings(u, k)) <= asks[u]
    BY Numbers
  <2>2. CASE u \in o.to /\ k \in Chunks(o.deltas)
    <3>1. o \in Brings(u, k) /\ Brings(u, k)' \subseteq Brings(u, k) \ {o}
      BY <1>1, <2>2 DEF Brings
    <3>2. /\ Cardinality(Brings(u, k)') \in Nat
          /\ Cardinality(Brings(u, k)') <= Cardinality(Brings(u, k)) - 1
      BY <2>1, <3>1, OneLess
    <3>3. got'[u][k] \in Nat /\ got'[u][k] <= got[u][k] + 1
      BY <1>8, <2>1
    <3> QED BY <2>1, <3>2, <3>3
  <2>3. CASE ~(u \in o.to /\ k \in Chunks(o.deltas))
    <3>1. Brings(u, k)' \subseteq Brings(u, k)
      BY <1>1 DEF Brings
    <3>2. /\ Cardinality(Brings(u, k)') \in Nat
          /\ Cardinality(Brings(u, k)') <= Cardinality(Brings(u, k))
      BY <2>1, <3>1, Fewer
    <3>3. got'[u][k] = got[u][k]
      BY <1>8, <2>1, <2>3
    <3> QED BY <2>1, <3>2, <3>3
  <2> QED BY <2>2, <2>3
<1>10. Once'
  <2>1. \A p \in out' : p \in out /\ p # o
    BY <1>1
  <2>2. IsFiniteSet(out')
    BY <1>1, Fewer DEF DeltaInv, Once
  <2>3. \A u \in Subscriber : \A k \in Chunk : got'[u][k] > 0 => k \in 2 .. flushed
    <3> SUFFICES ASSUME NEW u \in Subscriber, NEW k \in Chunk, got'[u][k] > 0
                 PROVE  k \in 2 .. flushed
      OBVIOUS
    <3>1. got[u][k] \in Nat /\ got'[u][k] \in Nat
      BY <1>6, <1>8
    <3>2. got[u][k] > 0 \/ k \in Chunks(o.deltas)
      BY <1>8, <3>1
    <3> QED BY <1>1, <3>2 DEF DeltaInv, Once
  <2>4. \A p \in out' : p.at = "publish" =>
          \A u \in Subscriber : \A k \in Chunks(p.deltas) : got'[u][k] = 0
    <3> SUFFICES ASSUME NEW p \in out', p.at = "publish", NEW u \in Subscriber,
                        NEW k \in Chunks(p.deltas)
                 PROVE  got'[u][k] = 0
      OBVIOUS
    <3>1. k \in Chunk
      BY <1>6, <2>1, UpdateType
    <3>2. got[u][k] = 0 /\ k \notin Chunks(o.deltas)
      BY <2>1 DEF DeltaInv, Once
    <3> QED BY <1>8, <3>1, <3>2
  <2>5. /\ Apart(buffered) /\ \A u \in follows : asks[u] >= 1
        /\ \A p \in out' : /\ Apart(p.deltas)
                           /\ p.at = "publish" =>
                                /\ p.to = {} /\ Chunks(p.deltas) \cap Chunks(buffered) = {}
                                /\ \A q \in out' : p # q =>
                                     Chunks(p.deltas) \cap Chunks(q.deltas) = {}
    BY <2>1 DEF DeltaInv, Once
  <2> QED BY <1>1, <1>9, <2>2, <2>3, <2>4, <2>5 DEF Once
<1>11. Complete'
  <2>1. ASSUME NEW u \in follows, NEW k \in 2 .. flushed,
               got[u][k] > 0 \/ k \in excused[u] \/ Unpublished(k) \/ Coming(u, k)
        PROVE  got'[u][k] > 0 \/ k \in excused'[u] \/ Unpublished(k)' \/ Coming(u, k)'
    <3>1. u \in Subscriber /\ k \in Chunk /\ got[u][k] \in Nat
      BY <1>4, <1>6
    <3> QED BY <1>2, <1>3, <1>8, <2>1, <3>1
  <2>2. /\ state' = "live" => follows' \subseteq subs'
        /\ "deltas" \in mode => \A k \in 2 .. flushed :
             state' = "live" => k \in trimmed' \/ k \in Chunks(buffered') \/ Unpublished(k)'
    BY <1>1, <1>2 DEF DeltaInv, Complete
  <2> QED BY <1>1, <2>1, <2>2 DEF DeltaInv, Complete
<1> QED BY <1>10, <1>11 DEF DeltaInv

\* A device that subscribes gets from the buffer what it will not get live; a
\* device that renews its subscription gets once more what is in the buffer.
LEMMA SubscribeDeltas ==
  ASSUME TypeInv, DeltaInv, NEW u \in Subscriber, Subscribe(u)
  PROVE  DeltaInv'
<1> DEFINE n == Update("replay", asks[u] + 1, buffered, {u}, "send")
<1>1. /\ UNCHANGED <<mode, flushed, state, buffered, trimmed, got>>
      /\ state = "live"
      /\ follows' = follows \cup {u} /\ subs' = subs \cup {u}
      /\ excused'[u] = IF u \in follows THEN excused[u] \ Chunks(buffered) ELSE trimmed
      /\ \A v \in Subscriber : v # u => excused'[v] = excused[v]
  BY DEF Subscribe, text, TypeInv, TypeOK
<1>2. n.deltas = buffered /\ n.to = {u} /\ n.at = "send"
  BY DEF Update
<1>3. /\ \A p \in out' : p \in out \/ p = n
      /\ out \subseteq out' /\ (n \in out' \/ buffered = <<>>)
      /\ out' \subseteq out \cup {n}
      /\ asks[u] \in Nat /\ asks'[u] = asks[u] + 1
      /\ \A v \in Subscriber : v # u => asks'[v] = asks[v]
  BY Asking
<1>4. follows \subseteq Subscriber
  BY DEF TypeInv, TypeOK
<1> HIDE DEF n
<1>5. \A v \in Subscriber : \A k \in Chunk :
        got[v][k] + Cardinality(Brings(v, k)') <= asks'[v]
  <2> SUFFICES ASSUME NEW v \in Subscriber, NEW k \in Chunk
               PROVE  got[v][k] + Cardinality(Brings(v, k)') <= asks'[v]
    OBVIOUS
  <2>1. /\ got[v][k] \in Nat /\ asks[v] \in Nat
        /\ IsFiniteSet(Brings(v, k)) /\ Cardinality(Brings(v, k)) \in Nat
        /\ got[v][k] + Cardinality(Brings(v, k)) <= asks[v]
    BY Numbers
  <2>2. CASE v = u
    <3>1. Brings(v, k)' \subseteq Brings(v, k) \cup {n}
      BY <1>3 DEF Brings
    <3>2. /\ Cardinality(Brings(v, k)') \in Nat
          /\ Cardinality(Brings(v, k)') <= Cardinality(Brings(v, k)) + 1
      BY <2>1, <3>1, OneMore
    <3> QED BY <1>3, <2>1, <2>2, <3>2
  <2>3. CASE v # u
    <3>1. Brings(v, k)' \subseteq Brings(v, k)
      BY <1>2, <1>3, <2>3 DEF Brings
    <3>2. /\ Cardinality(Brings(v, k)') \in Nat
          /\ Cardinality(Brings(v, k)') <= Cardinality(Brings(v, k))
      BY <2>1, <3>1, Fewer
    <3> QED BY <1>3, <2>1, <2>3, <3>2
  <2> QED BY <2>2, <2>3
<1>6. Once'
  <2>1. \A p \in out' : Apart(p.deltas)
    BY <1>2, <1>3 DEF DeltaInv, Once
  <2>2. \A p, q \in out' : p # q /\ p.at = "publish" => Chunks(p.deltas) \cap Chunks(q.deltas) = {}
    <3>1. \A p \in out : p.at = "publish" => Chunks(p.deltas) \cap Chunks(n.deltas) = {}
      BY <1>2 DEF DeltaInv, Once
    <3>2. n.at # "publish"
      BY <1>2
    <3>3. \A p, q \in out : p # q /\ p.at = "publish" => Chunks(p.deltas) \cap Chunks(q.deltas) = {}
      BY DEF DeltaInv, Once
    <3> QED BY <1>3, <3>1, <3>2, <3>3
  <2>3. \A p \in out' : p.at = "publish" =>
          /\ p.to = {} /\ Chunks(p.deltas) \cap Chunks(buffered) = {}
          /\ \A v \in Subscriber : \A k \in Chunks(p.deltas) : got[v][k] = 0
    BY <1>2, <1>3 DEF DeltaInv, Once
  <2>4. Apart(buffered) /\ IsFiniteSet(out)
        /\ \A v \in Subscriber : \A k \in Chunk : got[v][k] > 0 => k \in 2 .. flushed
    BY DEF DeltaInv, Once
  <2>5. IsFiniteSet(out')
    BY <1>3, <2>4, OneMore
  <2>6. \A v \in follows' : asks'[v] >= 1
    <3>1. \A v \in follows : asks[v] >= 1
      BY DEF DeltaInv, Once
    <3> QED BY <1>1, <1>3, <1>4, <3>1
  <2> QED BY <1>1, <1>5, <2>1, <2>2, <2>3, <2>4, <2>5, <2>6 DEF Once
<1>7. Complete'
  <2>1. \A k : Unpublished(k) => Unpublished(k)'
    BY <1>3 DEF Unpublished
  <2>2. \A v, k : Coming(v, k) => Coming(v, k)'
    BY <1>3 DEF Coming
  <2>3. \A k \in Chunks(buffered) : Coming(u, k)'
    BY <1>2, <1>3, ChunksOfNone DEF Coming
  <2>4. ASSUME "deltas" \in mode, NEW k \in 2 .. flushed, NEW v \in follows'
        PROVE  got[v][k] > 0 \/ k \in excused'[v] \/ Unpublished(k)' \/ Coming(v, k)'
    <3>1. CASE v \in follows
      <4>1. got[v][k] > 0 \/ k \in excused[v] \/ Unpublished(k) \/ Coming(v, k)
        BY <2>4, <3>1 DEF DeltaInv, Complete
      <4> QED BY <1>1, <1>4, <2>1, <2>2, <2>3, <3>1, <4>1
    <3>2. CASE v \notin follows
      <4>1. v = u /\ excused'[v] = trimmed
        BY <1>1, <2>4, <3>2
      <4>2. k \in trimmed \/ k \in Chunks(buffered) \/ Unpublished(k)
        BY <1>1, <2>4 DEF DeltaInv, Complete
      <4> QED BY <2>1, <2>3, <4>1, <4>2
    <3> QED BY <3>1, <3>2
  <2>5. /\ state' = "live" => follows' \subseteq subs'
        /\ "deltas" \in mode => \A k \in 2 .. flushed :
             state' = "live" => k \in trimmed' \/ k \in Chunks(buffered') \/ Unpublished(k)'
    BY <1>1, <2>1 DEF DeltaInv, Complete
  <2> QED BY <1>1, <2>4, <2>5 DEF Complete
<1> QED BY <1>6, <1>7 DEF DeltaInv

\* A subscription lapses; the stream closes and is forgotten.
LEMMA ClosingDeltas ==
  ASSUME TypeInv, DeltaInv,
         \/ CloseStream \/ Forget \/ \E u \in Subscriber : Expire(u)
  PROVE  DeltaInv'
<1>1. CASE CloseStream
  <2>1. /\ UNCHANGED <<mode, flushed, out, asks, got, excused, follows, trimmed>>
        /\ state' = "closed" /\ buffered' = <<>>
    BY <1>1 DEF CloseStream, text, devices
  <2>2. Apart(buffered') /\ Chunks(buffered') = {}
    BY <2>1, ChunksOfNone DEF Apart
  <2>3. Once'
    BY <2>1, <2>2, ZenonT(60) DEF DeltaInv, Once, Brings
  <2>4. Complete'
    BY <2>1 DEF DeltaInv, Complete, Unpublished, Coming
  <2> QED BY <2>3, <2>4 DEF DeltaInv
<1>2. CASE Forget
  BY <1>2 DEF Forget, text, devices, DeltaInv, Once, Complete, Unpublished, Coming, Brings
<1>3. ASSUME NEW u \in Subscriber, Expire(u) PROVE DeltaInv'
  <2>1. /\ UNCHANGED <<mode, flushed, state, buffered, out, asks, got, excused, trimmed>>
        /\ follows' = follows \ {u} /\ subs' = subs \ {u}
    BY <1>3 DEF Expire, text
  <2>2. Once'
    BY <2>1 DEF DeltaInv, Once, Brings
  <2>3. Complete'
    BY <2>1 DEF DeltaInv, Complete, Unpublished, Coming
  <2> QED BY <2>2, <2>3 DEF DeltaInv
<1> QED BY <1>1, <1>2, <1>3

LEMMA DeltaStep == TypeInv /\ DeltaInv /\ [Next]_vars => DeltaInv'
<1> SUFFICES ASSUME TypeInv, DeltaInv, [Next]_vars PROVE DeltaInv'
  OBVIOUS
<1>1. CASE Register \/ CloseStream \/ Forget
  BY <1>1, RegisterDeltas, ClosingDeltas
<1>2. CASE Flush
  <2>1. flushed >= 1 /\ UNCHANGED <<mode, state, subs, buffered, asks, got, excused, follows, trimmed>>
    BY <1>2 DEF Flush, TypeInv, Opened, publisher, devices
  <2>2. closed => UNCHANGED <<flushed, out>>
    BY <1>2 DEF Flush
  <2>3. ~closed => TakePending("timer")
    BY <1>2 DEF Flush
  <2> QED BY <2>1, <2>2, <2>3, TakingDeltas, DeltasAlone
<1>3. ASSUME NEW how \in {"finish", "abort"}, Close(how) PROVE DeltaInv'
  <2>1. /\ flushed >= 1 /\ TakePending("turn")
        /\ UNCHANGED <<mode, state, subs, buffered, asks, got, excused, follows, trimmed>>
    BY <1>3 DEF Close, TypeInv, Opened, publisher, devices
  <2> QED BY <2>1, TakingDeltas
<1>4. CASE StartStream \/ TurnLocks \/ Commit \/ ListEvents \/ Redact \/ Done \/ Push \/ LoopStep
           \/ UNCHANGED vars
  BY <1>4, DeltasAlone
     DEF StartStream, TurnLocks, Commit, ListEvents, Redact, Done, Push, LoopStep, Tick, LoopLocks,
         LoopSends, LoopRecords, LoopStops, text, publisher, devices, vars
<1>5. ASSUME NEW o \in out, Publish(o) \/ SendToDevice(o) PROVE DeltaInv'
  BY <1>5, PublishDeltas, SendDeltas
<1>6. ASSUME NEW u \in Subscriber, Subscribe(u) \/ Expire(u) PROVE DeltaInv'
  BY <1>6, SubscribeDeltas, ClosingDeltas
<1> QED BY <1>1, <1>2, <1>3, <1>4, <1>5, <1>6 DEF Next, TurnStep, UpdateStep

\* A device is brought no chunk more often than it subscribed, however often it
\* renews and however slowly updates travel; and once all is over a device that
\* subscribed in time has them all, but for those it is excused from.
THEOREM NeverMoreThanAsked == Spec => []OncePerRequest
<1>1. TypeInv /\ DeltaInv => OncePerRequest
  <2> SUFFICES ASSUME TypeInv, DeltaInv PROVE OncePerRequest
    OBVIOUS
  <2>1. ASSUME NEW u \in Subscriber, NEW k \in Chunk PROVE got[u][k] <= asks[u]
    BY Numbers
  <2>2. ASSUME turn.at = "done", out = {}, "deltas" \in mode, NEW u \in follows, NEW k \in 2 .. full
        PROVE  got[u][k] > 0 \/ k \in excused[u]
    <3>1. flushed = full
      BY <2>2 DEF TypeInv, Closing
    <3>2. ~Unpublished(k) /\ ~Coming(u, k)
      BY <2>2 DEF Unpublished, Coming
    <3> QED BY <2>2, <3>1, <3>2 DEF DeltaInv, Complete
  <2> QED BY <2>1, <2>2 DEF OncePerRequest
<1> QED BY <1>1, TypeInit, TypeStep, DeltaInit, DeltaStep, PTL DEF Spec
=============================================================================
