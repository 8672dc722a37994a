---------------------------- MODULE Mirror_proofs ----------------------------
(***************************************************************************)
(* What is proved of Announce and of Mirror, which is Announce with one    *)
(* more caller.  Of Announce, for any number of calls, notifications and   *)
(* any queue size: the types, the order of the messages, that callers are  *)
(* told the truth, and that a key is posted once.  Of Mirror, for a topic  *)
(* of any length and any threshold: it uses Notify as Announce says a      *)
(* caller does, so that what is proved there holds of it; and its cursor   *)
(* never passes a message that nothing accounts for.                       *)
(***************************************************************************)
EXTENDS Mirror, FiniteSetTheorems, TLAPS

Busy == worker.at # "idle"

\* The types, with what makes them inductive: the worker's job is a call that
\* somebody made, and excuses are counted among the mishaps.
TypeInv ==
  /\ TypeOK
  /\ Busy => worker.t \in Call /\ worker.t \notin queued
  /\ \A t \in Call : st[t] # "none" => note[t] \in Note
  /\ \A t \in posted \cup rows : note[t] \in Note
  /\ \A t \in queued : st[t] \in {"waiting", "left"}
  /\ Busy => st[worker.t] \in {"waiting", "left"}
  /\ \A n \in Note : excuse[n] <= mishaps

USE AnnounceAssumption

Steps == {"idle", "look", "send", "record", "reply"}

\* A job of the worker, and what is in it.
LEMMA JobType ==
  ASSUME NEW a \in Steps, NEW t \in 0 .. N, NEW r \in Standing,
         NEW e \in 0 .. N
  PROVE  LET w == [at |-> a, t |-> t, result |-> r, event |-> e]
         IN  w \in Job /\ w.at = a /\ w.t = t
  BY DEF Job, Steps

LEMMA InHandType ==
  ASSUME NEW a \in Steps, NEW t \in 0 .. N
  PROVE  InHand(a, t) \in Job /\ InHand(a, t).at = a /\ InHand(a, t).t = t
  BY JobType DEF InHand, Standing

LEMMA IdleType == Idle \in Job /\ Idle.at = "idle"
  BY InHandType DEF Idle, Steps

LEMMA ConcludeType ==
  ASSUME NEW r \in Standing, NEW e \in 0 .. N, worker.t \in 0 .. N,
         Conclude(r, e)
  PROVE  worker' \in Job /\ worker'.at = "reply" /\ worker'.t = worker.t
  BY JobType DEF Conclude, Steps

LEMMA ExcuseType ==
  ASSUME TypeInv, NEW n \in Note, Mishap, Excuse(n)
  PROVE  /\ excuse' \in [Note -> 0 .. MaxMishaps]
         /\ mishaps' \in 0 .. MaxMishaps
         /\ \A m \in Note : excuse'[m] <= mishaps'
<1>1. /\ mishaps \in 0 .. MaxMishaps /\ mishaps < MaxMishaps
      /\ mishaps' = mishaps + 1 /\ MaxMishaps \in Nat
  BY DEF TypeInv, TypeOK, Mishap
<1>2. /\ excuse \in [Note -> 0 .. MaxMishaps]
      /\ \A m \in Note : excuse[m] <= mishaps
      /\ excuse' = [excuse EXCEPT ![n] = @ + 1]
  BY DEF TypeInv, TypeOK, Excuse
<1> QED BY <1>1, <1>2

LEMMA TypeInit == Init => TypeInv
<1> SUFFICES ASSUME Init PROVE TypeInv
  OBVIOUS
<1>1. worker \in Job /\ ~Busy
  BY IdleType DEF Init, Busy
<1>2. /\ st \in [Call -> Standing] /\ note \in [Call -> Note \cup {0}]
      /\ event \in [Call -> 0 .. N] /\ excuse \in [Note -> 0 .. MaxMishaps]
      /\ \A n \in Note : excuse[n] <= mishaps
  BY DEF Init, Standing
<1> QED BY <1>1, <1>2 DEF Init, TypeInv, TypeOK

\* What a step that leaves the callers, the queue and the worker's job alone
\* still has to show.
LEMMA TypeByParts ==
  ASSUME TypeInv, UNCHANGED <<st, note, event, queued>>,
         worker' \in Job, worker'.t = worker.t, Busy,
         posted' \subseteq posted \cup {worker.t},
         rows' \subseteq rows \cup {worker.t},
         unsure' \in SUBSET Call,
         excuse' \in [Note -> 0 .. MaxMishaps],
         mishaps' \in 0 .. MaxMishaps,
         \A n \in Note : excuse'[n] <= mishaps'
  PROVE  TypeInv'
  BY DEF TypeInv, TypeOK, Busy

\* Facts of the state every step starts from.
LEMMA TypeFacts ==
  ASSUME TypeInv
  PROVE  /\ st \in [Call -> Standing] /\ note \in [Call -> Note \cup {0}]
         /\ event \in [Call -> 0 .. N] /\ queued \in SUBSET Call
         /\ worker \in Job /\ worker.t \in 0 .. N
         /\ posted \in SUBSET Call /\ rows \in SUBSET Call
         /\ unsure \in SUBSET Call
         /\ excuse \in [Note -> 0 .. MaxMishaps]
         /\ mishaps \in 0 .. MaxMishaps
         /\ \A n \in Note : excuse[n] <= mishaps
         /\ Busy => worker.t \in Call /\ note[worker.t] \in Note
<1>1. worker \in Job => worker.t \in 0 .. N
  BY DEF Job
<1>2. Busy => worker.t \in Call /\ st[worker.t] # "none"
  BY DEF TypeInv
<1> QED BY <1>1, <1>2 DEF TypeInv, TypeOK

LEMMA TypeStep == TypeInv /\ [Next]_vars => TypeInv'
<1> SUFFICES ASSUME TypeInv, [Next]_vars PROVE TypeInv'
  OBVIOUS
<1>0. /\ excuse \in [Note -> 0 .. MaxMishaps] /\ mishaps \in 0 .. MaxMishaps
      /\ \A n \in Note : excuse[n] <= mishaps
  BY TypeFacts
<1>1. ASSUME NEW t \in Call, NEW n \in Note, Notify(t, n) PROVE TypeInv'
  <2>1. st[t] = "none" /\ note' = [note EXCEPT ![t] = n]
    BY <1>1 DEF Notify, NextCall
  <2>2. t \notin queued /\ (Busy => t # worker.t)
    BY <2>1 DEF TypeInv
  <2>3. PICK s \in {"waiting", "refused"} :
          /\ st' = [st EXCEPT ![t] = s]
          /\ queued' = IF s = "waiting" THEN queued \cup {t} ELSE queued
    BY <1>1 DEF Notify
  <2>4. /\ st' \in [Call -> Standing] /\ note' \in [Call -> Note \cup {0}]
        /\ queued' \in SUBSET Call
    BY <2>1, <2>3, TypeFacts DEF Standing
  <2>5. \A u \in Call : st'[u] # "none" => note'[u] \in Note
    BY <2>1, <2>3, TypeFacts DEF TypeInv
  <2>6. /\ \A u \in queued' : st'[u] \in {"waiting", "left"}
        /\ Busy => worker.t \notin queued' /\ st'[worker.t] = st[worker.t]
    BY <2>2, <2>3, <2>4, TypeFacts DEF TypeInv
  <2> QED BY <1>1, <2>4, <2>5, <2>6
          DEF TypeInv, TypeOK, Busy, Notify, room, ghosts
<1>2. ASSUME NEW t \in Call, Leave(t) PROVE TypeInv'
  BY <1>2 DEF TypeInv, TypeOK, Busy, Leave, Standing, room, ghosts
<1>3. ASSUME NEW t \in Call, Take(t) PROVE TypeInv'
  <2>1. worker' \in Job /\ worker'.t = t
    BY <1>3, InHandType DEF Take, Steps, Call
  <2> QED BY <1>3, <2>1
          DEF TypeInv, TypeOK, Busy, Take, room, ghosts, callers
<1>4. CASE LookUp
  <2>1. Busy
    BY <1>4 DEF LookUp, Busy
  <2>2. worker' \in Job /\ worker'.t = worker.t
    <3>1. CASE worker' = InHand("send", worker.t)
      BY <3>1, TypeFacts, InHandType DEF Steps
    <3>2. ASSUME NEW u \in rows, Conclude("duplicate", u)
          PROVE  worker' \in Job /\ worker'.t = worker.t
      <4>1. u \in 0 .. N
        BY TypeFacts DEF Call
      <4> QED BY <3>2, <4>1, TypeFacts, ConcludeType DEF Standing
    <3>3. CASE Conclude("failed", 0)
      BY <3>3, TypeFacts, ConcludeType DEF Standing
    <3> QED BY <1>4, <3>1, <3>2, <3>3 DEF LookUp, Before
  <2> QED BY <1>4, <1>0, <2>1, <2>2, TypeByParts, TypeFacts
          DEF LookUp, room, ghosts, callers
<1>5. CASE Send
  <2>1. Busy /\ UNCHANGED <<st, note, event, queued, rows>>
    BY <1>5 DEF Send, Busy, callers
  <2>2. worker' \in Job /\ worker'.t = worker.t
    <3>1. CASE worker' = InHand("record", worker.t)
      BY <3>1, TypeFacts, InHandType DEF Steps
    <3>2. CASE Conclude("failed", 0)
      BY <3>2, TypeFacts, ConcludeType DEF Standing
    <3> QED BY <1>5, <3>1, <3>2 DEF Send
  <2>3. /\ posted' \subseteq posted \cup {worker.t}
        /\ unsure' \in SUBSET Call
    BY <1>5, <2>1, TypeFacts DEF Send, ghosts
  <2>4. /\ excuse' \in [Note -> 0 .. MaxMishaps]
        /\ mishaps' \in 0 .. MaxMishaps
        /\ \A m \in Note : excuse'[m] <= mishaps'
    <3>1. CASE UNCHANGED ghosts
      BY <3>1, <1>0 DEF ghosts
    <3>2. CASE Mishap /\ Excuse(note[worker.t])
      BY <3>2, <2>1, ExcuseType, TypeFacts
    <3> QED BY <1>5, <3>1, <3>2 DEF Send
  <2> QED BY <2>1, <2>2, <2>3, <2>4, TypeByParts, TypeFacts
<1>6. CASE Record \/ RecordFails
  <2>1. Busy /\ UNCHANGED <<st, note, event, queued, posted, unsure>>
    BY <1>6 DEF Record, RecordFails, Busy, callers, ghosts, room
  <2>2. worker' \in Job /\ worker'.t = worker.t
    BY <1>6, TypeFacts, ConcludeType DEF Record, RecordFails, Standing
  <2>3. rows' \subseteq rows \cup {worker.t}
    BY <1>6, <2>1, TypeFacts DEF Record, RecordFails, room
  <2>4. /\ excuse' \in [Note -> 0 .. MaxMishaps]
        /\ mishaps' \in 0 .. MaxMishaps
        /\ \A m \in Note : excuse'[m] <= mishaps'
    <3>1. CASE Record
      BY <3>1, <1>0 DEF Record, ghosts
    <3>2. CASE RecordFails
      BY <3>2, <2>1, ExcuseType, TypeFacts DEF RecordFails
    <3> QED BY <1>6, <3>1, <3>2
  <2> QED BY <2>1, <2>2, <2>3, <2>4, TypeByParts, TypeFacts
<1>7. CASE Reply
  <2>1. worker' \in Job /\ ~Busy'
    BY <1>7, IdleType DEF Reply, Busy
  <2>2. /\ Busy /\ worker.t \in Call /\ worker.t \notin queued
        /\ st[worker.t] \in {"waiting", "left"}
        /\ worker.result \in Standing /\ worker.event \in 0 .. N
    <3>1. worker \in Job => worker.result \in Standing /\ worker.event \in 0 .. N
      BY DEF Job
    <3> QED BY <1>7, <3>1 DEF Reply, Busy, TypeInv, TypeOK
  <2>3. \/ /\ st' = [st EXCEPT ![worker.t] = worker.result]
           /\ event' = [event EXCEPT ![worker.t] = worker.event]
        \/ UNCHANGED <<st, event>>
    BY <1>7 DEF Reply
  <2>4. st' \in [Call -> Standing] /\ event' \in [Call -> 0 .. N]
    BY <2>2, <2>3, TypeFacts
  <2>5. \A u \in Call : st'[u] # "none" => st[u] # "none"
    BY <2>2, <2>3, TypeFacts
  <2>6. \A u \in queued : st'[u] \in {"waiting", "left"}
    BY <2>2, <2>3, TypeFacts DEF TypeInv
  <2>7. UNCHANGED <<note, queued, posted, rows, excuse, unsure, mishaps>>
    BY <1>7 DEF Reply, room, ghosts
  <2> QED BY <2>1, <2>4, <2>5, <2>6, <2>7 DEF TypeInv, TypeOK
<1>8. ASSUME NEW t \in Call, Cleanup(t) PROVE TypeInv'
  <2>1. /\ t \in rows /\ rows' = rows \ {t} /\ Mishap /\ Excuse(note[t])
        /\ UNCHANGED <<st, note, event, queued, worker, posted, unsure>>
    BY <1>8 DEF Cleanup, callers
  <2>2. note[t] \in Note
    BY <2>1 DEF TypeInv
  <2>3. /\ excuse' \in [Note -> 0 .. MaxMishaps]
        /\ mishaps' \in 0 .. MaxMishaps
        /\ \A m \in Note : excuse'[m] <= mishaps'
    BY <2>1, <2>2, ExcuseType
  <2> QED BY <2>1, <2>3 DEF TypeInv, TypeOK, Busy
<1>9. CASE Crash
  <2>1. worker' \in Job /\ ~Busy'
    BY <1>9, IdleType DEF Crash, Busy
  <2>2. /\ excuse' \in [Note -> 0 .. MaxMishaps]
        /\ mishaps' \in 0 .. MaxMishaps
        /\ \A m \in Note : excuse'[m] <= mishaps'
    <3>1. CASE worker.at = "record"
      BY <1>9, <3>1, ExcuseType, TypeFacts DEF Crash, Busy
    <3>2. CASE worker.at # "record"
      BY <1>9, <1>0, <3>2 DEF Crash, Mishap
    <3> QED BY <3>1, <3>2
  <2>3. /\ st' = [t \in Call |-> IF st[t] = "waiting" THEN "dead" ELSE st[t]]
        /\ queued' = {} /\ UNCHANGED <<note, event, posted, rows, unsure>>
    BY <1>9 DEF Crash, room
  <2>4. /\ st' \in [Call -> Standing]
        /\ \A t \in Call : st'[t] # "none" <=> st[t] # "none"
    BY <2>3, TypeFacts DEF Standing
  <2> QED BY <2>1, <2>2, <2>3, <2>4 DEF TypeInv, TypeOK
<1>10. CASE UNCHANGED vars
  BY <1>10 DEF TypeInv, TypeOK, Busy, vars
<1> QED BY <1>1, <1>2, <1>3, <1>4, <1>5, <1>6, <1>7, <1>8, <1>9, <1>10
        DEF Next, WorkerStep

\* Every variable stays in its set (Notify, sendWorker and deliver, over the
\* notifications table).
THEOREM TypeCorrect == Spec => []TypeOK
<1>1. TypeInv => TypeOK
  BY DEF TypeInv
<1> QED BY TypeInit, TypeStep, <1>1, PTL DEF Spec
-----------------------------------------------------------------------------
(* The order of the messages.                                              *)

\* What is posted comes before what the worker is about to post, and that
\* before what is queued; a call that is made later is last.
OrderInv ==
  /\ worker.at = "reply" => worker.result \in {"posted", "duplicate", "failed"}
  /\ \A t, u \in Call : u < t /\ st[t] # "none" => st[u] # "none"
  /\ \A p \in posted : st[p] # "none"
  /\ \A p \in posted, q \in queued : p < q
  /\ Busy => \A q \in queued : worker.t < q
  /\ worker.at \in {"look", "send"} => \A p \in posted : p < worker.t

\* What deliver leaves alone: the worker moves on with its job, and at most
\* its message is new in the room.
LEMMA DeliverKeepsOrder ==
  ASSUME TypeInv, OrderInv, UNCHANGED <<st, queued>>, worker'.t = worker.t,
         Busy,
         \/ posted' = posted
         \/ /\ posted' = posted \cup {worker.t} /\ worker.at = "send"
            /\ worker'.at \in {"record", "reply"},
         worker'.at \in {"look", "send"} => worker.at \in {"look", "send"},
         worker'.at = "reply" =>
           worker'.result \in {"posted", "duplicate", "failed"}
  PROVE  OrderInv'
<1>1. worker.t \in Call /\ st[worker.t] # "none"
  BY DEF TypeInv
<1> QED BY <1>1 DEF OrderInv, Busy

\* Where the steps of the worker lead.
LEMMA WorkerMoves ==
  ASSUME TypeInv, LookUp \/ Send \/ Record \/ RecordFails
  PROVE  /\ UNCHANGED <<st, note, event, queued>>
         /\ worker'.t = worker.t
         /\ worker'.at \in {"send", "record", "reply"}
         /\ worker'.at = "reply" =>
              worker'.result \in {"posted", "duplicate", "failed"}
         /\ worker'.at = "send" => worker.at = "look"
  BY DEF LookUp, Send, Record, RecordFails, Conclude, InHand, callers

LEMMA OrderStep == TypeInv /\ OrderInv /\ [Next]_vars => OrderInv'
<1> SUFFICES ASSUME TypeInv, OrderInv, [Next]_vars PROVE OrderInv'
  OBVIOUS
<1>0. /\ queued \subseteq Call /\ posted \subseteq Call
      /\ Busy => worker.t \in Call /\ st[worker.t] # "none"
      /\ \A q \in queued : st[q] # "none"
      /\ st \in [Call -> Standing]
  BY DEF TypeInv, TypeOK
<1>1. ASSUME NEW t \in Call, NEW n \in Note, Notify(t, n) PROVE OrderInv'
  <2>1. /\ st[t] = "none" /\ \A u \in Call : u < t => st[u] # "none"
        /\ queued' \subseteq queued \cup {t}
        /\ UNCHANGED <<worker, posted>>
    BY <1>1 DEF Notify, NextCall, room
  <2>2. st'[t] # "none" /\ \A u \in Call \ {t} : st'[u] = st[u]
    BY <1>0, <1>1 DEF Notify
  <2>3. \A u \in Call : st[u] # "none" => u < t
    BY <2>1 DEF OrderInv, Call
  <2>4. \A u, v \in Call : v < u /\ st'[u] # "none" => st'[v] # "none"
    BY <2>1, <2>2 DEF OrderInv, Call
  <2> QED BY <1>0, <2>1, <2>2, <2>3, <2>4 DEF OrderInv, Busy
<1>2. ASSUME NEW t \in Call, Leave(t) PROVE OrderInv'
  <2>1. \A u \in Call : st'[u] # "none" <=> st[u] # "none"
    BY <1>0, <1>2 DEF Leave
  <2> QED BY <1>0, <1>2, <2>1 DEF OrderInv, Busy, Leave, room
<1>3. ASSUME NEW t \in Call, Take(t) PROVE OrderInv'
  <2>1. worker'.t = t /\ worker'.at = "look"
    BY <1>3 DEF Take, InHand
  <2> QED BY <1>0, <1>3, <2>1 DEF OrderInv, Busy, Take, room, callers, Call
<1>4. CASE LookUp \/ Send \/ Record \/ RecordFails
  <2>1. Busy /\ \/ posted' = posted
                \/ /\ posted' = posted \cup {worker.t} /\ worker.at = "send"
                   /\ worker'.at \in {"record", "reply"}
    BY <1>4 DEF LookUp, Send, Record, RecordFails, Conclude, InHand, room, Busy
  <2> QED BY <1>4, <2>1, WorkerMoves, DeliverKeepsOrder
<1>5. CASE Reply
  <2>1. worker'.at = "idle"
    BY <1>5 DEF Reply, Idle, InHand
  <2>2. \A u \in Call : st'[u] # "none" <=> st[u] # "none"
    BY <1>0, <1>5 DEF Reply, OrderInv, Busy
  <2> QED BY <1>0, <1>5, <2>1, <2>2 DEF OrderInv, Busy, Reply, room
<1>6. ASSUME NEW t \in Call, Cleanup(t) PROVE OrderInv'
  BY <1>6 DEF OrderInv, Busy, Cleanup, callers
<1>7. CASE Crash
  <2>1. worker'.at = "idle"
    BY <1>7 DEF Crash, Idle, InHand
  <2>2. \A u \in Call : st'[u] # "none" <=> st[u] # "none"
    BY <1>7 DEF Crash
  <2> QED BY <1>0, <1>7, <2>1, <2>2 DEF OrderInv, Busy, Crash, room
<1>8. CASE UNCHANGED vars
  BY <1>8 DEF OrderInv, Busy, vars
<1> QED BY <1>1, <1>2, <1>3, <1>4, <1>5, <1>6, <1>7, <1>8
        DEF Next, WorkerStep

\* What a step posts is the worker's job, and the worker is about to send it.
LEMMA OnlySendPosts ==
  ASSUME [Next]_vars
  PROVE  posted' \subseteq posted \/ (/\ posted' = posted \cup {worker.t}
                                     /\ worker.at = "send")
  BY DEF Next, WorkerStep, Notify, Leave, Take, LookUp, Send, Record,
         RecordFails, Reply, Cleanup, Crash, vars, room, callers

\* The messages of any number of callers appear in the room in the order in
\* which the queue took them (Notify, sendWorker and deliver).
THEOREM OrderKept == Spec => PostedInOrder
<1>1. Init => OrderInv
  <2>1. Init => worker.at = "idle"
    BY DEF Init, Idle, InHand
  <2> QED BY <2>1 DEF Init, OrderInv, Busy
<1>2. /\ TypeInv /\ OrderInv /\ [Next]_vars
      => [\A t \in posted' \ posted : \A u \in posted : u < t]_vars
  BY OnlySendPosts DEF OrderInv
<1> QED BY TypeInit, TypeStep, OrderStep, <1>1, <1>2, PTL
        DEF Spec, PostedInOrder
-----------------------------------------------------------------------------
(* What callers are told.                                                  *)

\* A row stands for a message that is in the room, and the result the worker
\* is about to hand over is true already.
TruthInv ==
  /\ ToldTheTruth
  /\ rows \subseteq posted
  /\ worker.at = "record" => worker.t \in posted
  /\ worker.at = "reply" =>
       /\ worker.result \in {"posted", "duplicate"} =>
            worker.event \in posted /\ note[worker.event] = note[worker.t]
       /\ worker.result = "failed" => worker.t \notin posted \ unsure

LEMMA TruthStep ==
  TypeInv /\ OrderInv /\ TruthInv /\ [Next]_vars => TruthInv'
<1> SUFFICES ASSUME TypeInv, OrderInv, TruthInv, [Next]_vars PROVE TruthInv'
  OBVIOUS
<1>0. /\ queued \subseteq Call /\ posted \subseteq Call
      /\ st \in [Call -> Standing] /\ note \in [Call -> Note \cup {0}]
      /\ event \in [Call -> 0 .. N]
      /\ Busy => worker.t \in Call /\ st[worker.t] \in {"waiting", "left"}
      /\ \A p \in posted : st[p] # "none"
      /\ worker.at \in {"look", "send"} => worker.t \notin posted
  <2>1. posted \subseteq Call /\ \A p \in posted : p \in Nat /\ ~(p < p)
    BY DEF TypeInv, TypeOK, Call
  <2>2. worker.at \in {"look", "send"} => worker.t \notin posted
    BY <2>1 DEF OrderInv
  <2> QED BY <2>1, <2>2 DEF TypeInv, TypeOK, OrderInv
<1>1. ASSUME NEW t \in Call, NEW n \in Note, Notify(t, n) PROVE TruthInv'
  <2>1. /\ st[t] = "none" /\ note' = [note EXCEPT ![t] = n]
        /\ UNCHANGED <<event, worker, posted, rows, unsure>>
    BY <1>1 DEF Notify, NextCall, room, ghosts
  <2>2. t \notin posted /\ (Busy => worker.t # t)
    BY <1>0, <2>1
  <2>3. /\ st'[t] \in {"waiting", "refused"}
        /\ \A u \in Call \ {t} : st'[u] = st[u]
    BY <1>0, <1>1 DEF Notify
  <2>4. /\ \A p \in posted : note'[p] = note[p]
        /\ \A u \in Call \ {t} : note'[u] = note[u]
        /\ Busy => note'[worker.t] = note[worker.t]
    BY <1>0, <2>1, <2>2
  <2>5. ToldTheTruth'
    BY <1>0, <2>1, <2>2, <2>3, <2>4 DEF TruthInv, ToldTheTruth
  <2> QED BY <2>1, <2>2, <2>4, <2>5 DEF TruthInv, Busy
<1>2. ASSUME NEW t \in Call, Leave(t) PROVE TruthInv'
  BY <1>0, <1>2 DEF TruthInv, ToldTheTruth, Leave, room, ghosts
<1>3. ASSUME NEW t \in Call, Take(t) PROVE TruthInv'
  <2>1. worker'.at = "look"
    BY <1>3 DEF Take, InHand
  <2> QED BY <1>3, <2>1 DEF TruthInv, ToldTheTruth, Take, room, ghosts, callers
<1>4. CASE LookUp
  <2>1. /\ UNCHANGED <<st, note, event, posted, rows, unsure>>
        /\ worker'.t = worker.t /\ worker.t \notin posted
    BY <1>0, <1>4 DEF LookUp, InHand, Conclude, room, ghosts, callers
  <2>2. \/ worker'.at = "send"
        \/ /\ worker'.at = "reply" /\ worker'.result = "duplicate"
           /\ worker'.event \in rows
           /\ note[worker'.event] = note[worker.t]
        \/ worker'.at = "reply" /\ worker'.result = "failed"
    BY <1>4 DEF LookUp, InHand, Conclude, Before
  <2> QED BY <2>1, <2>2 DEF TruthInv, ToldTheTruth
<1>5. CASE Send
  <2>1. /\ UNCHANGED <<st, note, event, rows>> /\ worker'.t = worker.t
        /\ worker.t \notin posted /\ worker.t \in Call
        /\ st[worker.t] \in {"waiting", "left"}
    BY <1>0, <1>5 DEF Send, InHand, Conclude, callers, Busy
  <2>2. \/ /\ worker'.at = "record" /\ posted' = posted \cup {worker.t}
           /\ unsure' = unsure
        \/ /\ worker'.at = "reply" /\ worker'.result = "failed"
           /\ UNCHANGED <<posted, unsure>>
        \/ /\ worker'.at = "reply" /\ worker'.result = "failed"
           /\ posted' = posted \cup {worker.t}
           /\ unsure' = unsure \cup {worker.t}
    BY <1>5 DEF Send, InHand, Conclude, ghosts
  <2> QED BY <2>1, <2>2 DEF TruthInv, ToldTheTruth
<1>6. CASE Record \/ RecordFails
  <2>1. /\ UNCHANGED <<st, note, event, posted, unsure>>
        /\ rows' \subseteq rows \cup {worker.t}
        /\ worker.at = "record" /\ worker'.at = "reply"
        /\ worker'.t = worker.t /\ worker'.event = worker.t
        /\ worker'.result = "posted"
    BY <1>6 DEF Record, RecordFails, Conclude, room, ghosts, callers
  <2> QED BY <2>1 DEF TruthInv, ToldTheTruth
<1>7. CASE Reply
  <2>1. /\ worker'.at = "idle" /\ worker.at = "reply" /\ worker.t \in Call
        /\ worker.result \in {"posted", "duplicate", "failed"}
    BY <1>0, <1>7 DEF Reply, Idle, InHand, OrderInv, Busy
  <2>2. \A u \in Call :
          \/ st'[u] = st[u] /\ event'[u] = event[u]
          \/ u = worker.t /\ st'[u] = worker.result /\ event'[u] = worker.event
    BY <1>0, <1>7 DEF Reply
  <2>3. UNCHANGED <<note, posted, rows, unsure>>
    BY <1>7 DEF Reply, room, ghosts
  <2>4. ToldTheTruth'
    <3> SUFFICES ASSUME NEW u \in Call
                 PROVE  /\ st'[u] \in {"posted", "duplicate"} =>
                             event'[u] \in posted /\ note[event'[u]] = note[u]
                        /\ st'[u] \in {"failed", "refused"} =>
                             u \notin posted \ unsure
      BY <2>3 DEF ToldTheTruth
    <3> QED BY <2>1, <2>2 DEF TruthInv, ToldTheTruth
  <2> QED BY <2>1, <2>3, <2>4 DEF TruthInv
<1>8. ASSUME NEW t \in Call, Cleanup(t) PROVE TruthInv'
  BY <1>8 DEF TruthInv, ToldTheTruth, Cleanup, callers
<1>9. CASE Crash
  <2>1. worker'.at = "idle"
    BY <1>9 DEF Crash, Idle, InHand
  <2>2. \A u \in Call : st'[u] = st[u] \/ st'[u] = "dead"
    BY <1>9 DEF Crash
  <2> QED BY <1>9, <2>1, <2>2 DEF TruthInv, ToldTheTruth, Crash, room
<1>10. CASE UNCHANGED vars
  BY <1>10 DEF TruthInv, ToldTheTruth, vars
<1> QED BY <1>1, <1>2, <1>3, <1>4, <1>5, <1>6, <1>7, <1>8, <1>9, <1>10
        DEF Next, WorkerStep

\* What Notify returns is so, for its own caller and for the callers of
\* duplicates (deliver and the result channel of a job).
THEOREM CallersToldTheTruth == Spec => []ToldTheTruth
<1>1. Init => OrderInv /\ TruthInv
  <2>1. Init => worker.at = "idle"
    BY DEF Init, Idle, InHand
  <2> QED BY <2>1 DEF Init, OrderInv, TruthInv, ToldTheTruth, Busy
<1>2. TruthInv => ToldTheTruth
  BY DEF TruthInv
<1> QED BY TypeInit, TypeStep, OrderStep, TruthStep, <1>1, <1>2, PTL DEF Spec
-----------------------------------------------------------------------------
(* A key is posted once.                                                   *)

\* The next send of n will find that n was posted.
Covered(n) ==
  Before(n) # {} \/ (worker.at = "record" /\ note[worker.t] = n)

\* One message for each excuse, and one more when it is recorded or about to
\* be; the worker sends only what is not recorded.
OnceInv ==
  /\ \A n \in Note \ Unkeyed :
       /\ Cardinality(Posts(n)) <= excuse[n] + 1
       /\ ~Covered(n) => Cardinality(Posts(n)) <= excuse[n]
  /\ worker.at = "send" => Before(note[worker.t]) = {}

LEMMA PostsFinite ==
  ASSUME TypeInv, NEW n
  PROVE  IsFiniteSet(Posts(n)) /\ Cardinality(Posts(n)) \in Nat
<1>1. Posts(n) \subseteq 1 .. N
  BY DEF TypeInv, TypeOK, Posts, Call
<1>2. IsFiniteSet(1 .. N)
  BY FS_Interval
<1> QED BY <1>1, <1>2, FS_Subset, FS_CardinalityType

\* A step that leaves the messages of n alone: it may excuse n, and it must
\* excuse n when n is no longer covered.
LEMMA OnceKept ==
  ASSUME TypeInv, OnceInv, NEW n \in Note \ Unkeyed, Posts(n)' = Posts(n),
         \/ excuse'[n] = excuse[n] /\ (Covered(n) => Covered(n)')
         \/ excuse'[n] = excuse[n] + 1
  PROVE  /\ Cardinality(Posts(n))' <= excuse'[n] + 1
         /\ ~Covered(n)' => Cardinality(Posts(n))' <= excuse'[n]
<1>1. Cardinality(Posts(n))' = Cardinality(Posts(n))
  OBVIOUS
<1>2. excuse[n] \in Nat /\ Cardinality(Posts(n)) \in Nat
  BY PostsFinite DEF TypeInv, TypeOK
<1> QED BY <1>1, <1>2 DEF OnceInv

LEMMA OnceStep ==
  TypeInv /\ OrderInv /\ TruthInv /\ OnceInv /\ [Next]_vars => OnceInv'
<1> SUFFICES ASSUME TypeInv, OrderInv, TruthInv, OnceInv, [Next]_vars
             PROVE  OnceInv'
  OBVIOUS
<1> DEFINE Kept(n) ==
      \/ excuse'[n] = excuse[n] /\ (Covered(n) => Covered(n)')
      \/ excuse'[n] = excuse[n] + 1
<1>a. ASSUME \A n \in Note \ Unkeyed : Posts(n)' = Posts(n) /\ Kept(n),
             worker'.at = "send" => Before(note[worker.t])' = {}
                                    /\ worker'.t = worker.t /\ note' = note
      PROVE  OnceInv'
  BY <1>a, OnceKept DEF OnceInv
<1>b. /\ excuse \in [Note -> 0 .. MaxMishaps] /\ rows \subseteq posted
      /\ posted \subseteq Call /\ note \in [Call -> Note \cup {0}]
      /\ Busy => worker.t \in Call /\ st[worker.t] # "none"
                /\ note[worker.t] \in Note
      /\ \A p \in posted : st[p] # "none" /\ note[p] \in Note
  BY DEF TypeInv, TypeOK, TruthInv, OrderInv
<1>1. ASSUME NEW t \in Call, NEW n \in Note, Notify(t, n) PROVE OnceInv'
  <2>1. /\ st[t] = "none" /\ note' = [note EXCEPT ![t] = n]
        /\ UNCHANGED <<worker, posted, rows, excuse>>
    BY <1>1 DEF Notify, NextCall, room, ghosts
  <2>2. /\ \A p \in posted : note'[p] = note[p]
        /\ Busy => note'[worker.t] = note[worker.t]
    BY <1>b, <2>1
  <2>3. \A m : Posts(m)' = Posts(m) /\ Before(m)' = Before(m)
    BY <1>b, <2>1, <2>2 DEF Posts, Before
  <2>4. \A m : Covered(m)' = Covered(m)
    BY <2>1, <2>2, <2>3 DEF Covered, Busy
  <2> QED BY <2>1, <2>2, <2>3, <2>4 DEF OnceInv, Busy
<1>2. ASSUME UNCHANGED <<note, posted, rows, excuse>>,
             worker'.at = "send" => /\ worker'.t = worker.t
                                    /\ Before(note[worker.t]) = {},
             worker.at = "record" => worker' = worker
      PROVE  OnceInv'
  <2>1. \A m : Posts(m)' = Posts(m) /\ Before(m)' = Before(m)
    BY <1>2 DEF Posts, Before
  <2>2. \A m : Covered(m) => Covered(m)'
    BY <1>2, <2>1 DEF Covered
  <2> QED BY <1>2, <1>a, <2>1, <2>2
<1>3. ASSUME NEW t \in Call, Leave(t) \/ Take(t) PROVE OnceInv'
  BY <1>2, <1>3 DEF Leave, Take, InHand, OnceInv, room, ghosts, callers
<1>4. CASE LookUp \/ Reply
  BY <1>2, <1>4
  DEF LookUp, Reply, InHand, Idle, Conclude, OnceInv, room, ghosts, callers
<1>5. CASE Send
  <2>1. /\ worker.at = "send" /\ worker'.t = worker.t
        /\ worker'.at \in {"record", "reply"}
        /\ UNCHANGED <<note, rows>>
    BY <1>5 DEF Send, InHand, Conclude, callers
  <2>2. Busy /\ worker.t \in Call /\ note[worker.t] \in Note
    BY <1>b, <2>1 DEF Busy
  <2>3. \A m : Before(m)' = Before(m)
    BY <2>1 DEF Before
  <2>4. \A m : Covered(m) => Covered(m)'
    BY <2>1, <2>3 DEF Covered
  <2>5. CASE posted' = posted /\ UNCHANGED ghosts
    BY <1>a, <2>1, <2>4, <2>5 DEF Posts, ghosts
  <2>6. ASSUME posted' = posted \cup {worker.t},
               \/ worker'.at = "record" /\ excuse' = excuse
               \/ Excuse(note[worker.t])
        PROVE  OnceInv'
    <3> SUFFICES ASSUME NEW n \in Note \ Unkeyed
                 PROVE  /\ Cardinality(Posts(n))' <= excuse'[n] + 1
                        /\ ~Covered(n)' => Cardinality(Posts(n))' <= excuse'[n]
      BY <2>1 DEF OnceInv
    <3>1. CASE note[worker.t] # n
      <4>1. Posts(n)' = Posts(n) /\ excuse'[n] = excuse[n]
        BY <1>b, <2>1, <2>6, <3>1 DEF Posts, Excuse
      <4> QED BY <2>4, <4>1, OnceKept
    <3>2. CASE note[worker.t] = n
      <4>1. Posts(n)' = Posts(n) \cup {worker.t}
        BY <2>1, <2>6, <3>2 DEF Posts
      <4>2. Cardinality(Posts(n)) <= excuse[n]
        BY <2>1, <3>2 DEF OnceInv, Covered
      <4>3. /\ Cardinality(Posts(n)') \in Nat
            /\ Cardinality(Posts(n)') <= Cardinality(Posts(n)) + 1
            /\ Cardinality(Posts(n)) \in Nat
        BY <4>1, PostsFinite, FS_AddElement
      <4>4. excuse[n] \in Nat
        BY <1>b
      <4>5. CASE worker'.at = "record" /\ excuse' = excuse
        <5>1. Covered(n)'
          BY <2>1, <3>2, <4>5 DEF Covered
        <5> QED BY <4>2, <4>3, <4>4, <4>5, <5>1
      <4>6. CASE Excuse(note[worker.t])
        <5>1. excuse'[n] = excuse[n] + 1
          BY <1>b, <3>2, <4>6 DEF Excuse
        <5> QED BY <4>2, <4>3, <4>4, <5>1
      <4> QED BY <2>6, <4>5, <4>6
    <3> QED BY <3>1, <3>2
  <2> QED BY <1>5, <2>5, <2>6 DEF Send, InHand, ghosts
<1>6. CASE Record
  <2>1. /\ worker.at = "record" /\ worker'.at = "reply"
        /\ UNCHANGED <<note, posted, excuse>>
    BY <1>6 DEF Record, Conclude, callers, ghosts
  <2>2. \A n \in Note \ Unkeyed : Covered(n) => Before(n)' # {}
    <3> SUFFICES ASSUME NEW n \in Note \ Unkeyed, Covered(n)
                 PROVE  Before(n)' # {}
      OBVIOUS
    <3>1. rows \subseteq rows'
      BY <1>6 DEF Record
    <3>2. CASE Before(n) # {}
      BY <2>1, <3>1, <3>2 DEF Before
    <3>3. CASE Before(n) = {} /\ note[worker.t] = n
      <4>1. worker.t \in rows'
        BY <1>6, <3>3 DEF Record
      <4> QED BY <2>1, <3>3, <4>1 DEF Before
    <3> QED BY <3>2, <3>3 DEF Covered
  <2> QED BY <1>a, <2>1, <2>2 DEF Posts, Covered
<1>7. CASE RecordFails
  <2>1. /\ worker.at = "record" /\ worker'.at = "reply"
        /\ UNCHANGED <<note, posted, rows>> /\ Excuse(note[worker.t])
    BY <1>7 DEF RecordFails, Conclude, callers, room
  <2>2. \A n \in Note \ Unkeyed : Posts(n)' = Posts(n) /\ Kept(n)
    BY <1>b, <2>1 DEF Posts, Covered, Before, Excuse
  <2> QED BY <1>a, <2>1, <2>2
<1>8. ASSUME NEW t \in Call, Cleanup(t) PROVE OnceInv'
  <2>1. /\ rows' = rows \ {t} /\ Excuse(note[t])
        /\ UNCHANGED <<note, posted, worker>>
    BY <1>8 DEF Cleanup, callers
  <2>2. \A n \in Note \ Unkeyed : Posts(n)' = Posts(n) /\ Kept(n)
    <3> SUFFICES ASSUME NEW n \in Note \ Unkeyed PROVE Kept(n)
      BY <2>1 DEF Posts
    <3>1. CASE note[t] = n
      BY <1>b, <2>1, <3>1 DEF Excuse
    <3>2. CASE note[t] # n
      <4>1. Before(n)' = Before(n)
        BY <2>1, <3>2 DEF Before
      <4> QED BY <1>b, <2>1, <3>2, <4>1 DEF Covered, Excuse
    <3> QED BY <3>1, <3>2
  <2>3. worker.at = "send" => Before(note[worker.t])' = {}
    BY <2>1 DEF Before, OnceInv
  <2> QED BY <1>a, <2>1, <2>2, <2>3
<1>9. CASE Crash
  <2>1. worker'.at = "idle" /\ UNCHANGED <<note, posted, rows>>
    BY <1>9 DEF Crash, Idle, InHand, room
  <2>2. \A n \in Note \ Unkeyed : Posts(n)' = Posts(n) /\ Kept(n)
    <3>1. CASE worker.at = "record"
      <4>1. Excuse(note[worker.t])
        BY <1>9, <3>1 DEF Crash
      <4> QED BY <1>b, <2>1, <4>1 DEF Posts, Covered, Before, Excuse
    <3>2. CASE worker.at # "record"
      <4>1. excuse' = excuse
        BY <1>9, <3>2 DEF Crash
      <4> QED BY <2>1, <3>2, <4>1 DEF Posts, Covered, Before
    <3> QED BY <3>1, <3>2
  <2> QED BY <1>a, <2>1, <2>2
<1>10. CASE UNCHANGED vars
  BY <1>2, <1>10 DEF vars, OnceInv
<1> QED BY <1>1, <1>3, <1>4, <1>5, <1>6, <1>7, <1>8, <1>9, <1>10
        DEF Next, WorkerStep

\* A dedupe key is in the room once, but for what crashes, lost answers and
\* swept or unwritten rows excuse (deliver and NotificationByDedupe).
THEOREM KeyPostedOnce == Spec => []OncePerKey
<1>1. Init => OrderInv /\ TruthInv /\ OnceInv
  <2>1. Init => worker.at = "idle"
    BY DEF Init, Idle, InHand
  <2>2. Init => OnceInv
    <3> SUFFICES ASSUME Init PROVE OnceInv
      OBVIOUS
    <3>1. \A n \in Note : Cardinality(Posts(n)) = 0 /\ excuse[n] = 0
      BY FS_EmptySet DEF Init, Posts
    <3> QED BY <2>1, <3>1 DEF OnceInv
  <2> QED BY <2>1, <2>2 DEF Init, OrderInv, TruthInv, ToldTheTruth, Busy
<1>2. TypeInv /\ OnceInv => OncePerKey
  <2> SUFFICES ASSUME TypeInv, OnceInv, NEW n \in Note \ Unkeyed
               PROVE  Cardinality(Posts(n)) <= 1 + excuse[n]
    BY DEF OncePerKey
  <2>1. excuse[n] \in Nat
    BY DEF TypeInv, TypeOK
  <2> QED BY <2>1 DEF OnceInv
<1> QED BY TypeInit, TypeStep, OrderStep, TruthStep, OnceStep, <1>1, <1>2, PTL
        DEF Spec

-----------------------------------------------------------------------------
(* The mirror.                                                             *)

USE MirrorAssumption

Places == {"down", "reading", "emit", "remember"}
Sub == [at : Places, m : 0 .. M, t : 0 .. N]

LEMMA AtType ==
  ASSUME NEW a \in Places, NEW m \in 0 .. M, NEW t \in 0 .. N
  PROVE  /\ At(a, m, t) \in Sub
         /\ At(a, m, t).at = a /\ At(a, m, t).m = m /\ At(a, m, t).t = t
  BY DEF At, Sub

\* The types, with what ties the subscription to its call.
MirrorTypeInv ==
  /\ TypeInv /\ OrderInv
  /\ MirrorTypeOK
  /\ cursor <= published
  /\ sub.at \in {"reading", "emit", "remember"} => sub.m <= published
  /\ sub.at = "emit" => sub.t \in Call /\ sub.m \in 1 .. M
                        /\ st[sub.t] # "none" /\ note[sub.t] = sub.m

\* Every step of the mirror is a step of Announce, or leaves it alone.
LEMMA MirrorImplementsAnnounceStep ==
  MirrorTypeOK /\ [MirrorNext]_mirrorVars => [Next]_vars
<1> SUFFICES ASSUME MirrorTypeOK, [MirrorNext]_mirrorVars PROVE [Next]_vars
  OBVIOUS
<1>1. ASSUME NEW t \in Call, Emit(t) PROVE Next
  <2>1. sub.m + 1 \in 1 .. M /\ Notify(t, sub.m + 1)
    <3>1. sub.m \in 0 .. M
      BY DEF MirrorTypeOK
    <3> QED BY <1>1, <3>1 DEF Emit, Read, MirrorTypeOK
  <2> QED BY <2>1 DEF Next
<1>2. CASE SubStep
  BY <1>1, <1>2
  DEF SubStep, Connect, ReadLow, EmitFails, EmitReturns, Remember, RememberFails
<1>3. CASE Publish \/ ConnectFallback \/ Drop \/ UNCHANGED mirrorVars
  BY <1>3 DEF Publish, ConnectFallback, Drop, mirrorVars
<1>4. CASE Restart
  BY <1>4 DEF Restart, Next
<1>5. CASE ApiNext
  BY <1>5 DEF ApiNext, Next
<1>6. CASE WorkerStep
  BY <1>6 DEF Next
<1> QED BY <1>2, <1>3, <1>4, <1>5, <1>6 DEF MirrorNext

\* A call once made keeps its notification, and stays made.
LEMMA CallsStay ==
  ASSUME TypeInv, OrderInv, [Next]_vars, NEW t \in Call, st[t] # "none"
  PROVE  note'[t] = note[t] /\ st'[t] # "none"
<1>1. st \in [Call -> Standing] /\ note \in [Call -> Note \cup {0}]
  BY DEF TypeInv, TypeOK
<1>2. CASE \E u \in Call, n \in Note : Notify(u, n)
  BY <1>1, <1>2 DEF Notify, NextCall
<1>3. CASE \E u \in Call : Leave(u)
  BY <1>1, <1>3 DEF Leave
<1>4. CASE Reply
  BY <1>1, <1>4 DEF Reply, OrderInv
<1>5. CASE Crash
  BY <1>1, <1>5 DEF Crash
<1>6. CASE UNCHANGED <<st, note>>
  BY <1>6
<1> QED BY <1>2, <1>3, <1>4, <1>5, <1>6
        DEF Next, WorkerStep, Cleanup, Take, LookUp, Send, Record, RecordFails,
            callers, vars

LEMMA MirrorTypeStep ==
  MirrorTypeInv /\ [MirrorNext]_mirrorVars => MirrorTypeInv'
<1> SUFFICES ASSUME MirrorTypeInv, [MirrorNext]_mirrorVars
             PROVE  MirrorTypeInv'
  OBVIOUS
<1>1. TypeInv' /\ OrderInv' /\ TypeOK'
  BY MirrorImplementsAnnounceStep, TypeStep, OrderStep DEF MirrorTypeInv, TypeInv
<1>2. /\ sub.m \in 0 .. M /\ sub.t \in 0 .. N
      /\ published \in 0 .. M /\ cursor \in 0 .. M /\ breaks \in 0 .. MaxBreaks
      /\ failed \subseteq 1 .. M /\ missed \subseteq 1 .. M
  BY DEF MirrorTypeInv, MirrorTypeOK
<1>3. sub.at = "emit" =>
        sub.t \in Call /\ st'[sub.t] # "none" /\ note'[sub.t] = sub.m
  BY CallsStay, MirrorImplementsAnnounceStep DEF MirrorTypeInv
<1> DEFINE Rest ==
      /\ published' \in 0 .. M /\ published <= published'
      /\ cursor' \in 0 .. M /\ cursor' <= published'
      /\ failed' \subseteq 1 .. M /\ missed' \subseteq 1 .. M
      /\ breaks' \in 0 .. MaxBreaks
<1>4. cursor <= published
  BY DEF MirrorTypeInv
<1>5. CASE UNCHANGED sub /\ Rest
  BY <1>1, <1>2, <1>3, <1>5 DEF MirrorTypeInv, MirrorTypeOK
<1>6. ASSUME NEW a \in {"down", "reading", "remember"}, NEW m \in 0 .. M,
             sub' = At(a, m, 0), a = "down" \/ m <= published, Rest
      PROVE  MirrorTypeInv'
  <2>1. sub' \in Sub /\ sub'.at = a /\ sub'.m = m
    BY <1>6, AtType DEF Places
  <2>2. m <= published => m <= published'
    BY <1>2, <1>6
  <2> QED BY <1>1, <1>6, <2>1, <2>2 DEF MirrorTypeInv, MirrorTypeOK, Sub, Places
<1>7. ASSUME NEW t \in Call, Emit(t) PROVE MirrorTypeInv'
  <2>1. sub.m + 1 \in 1 .. M /\ sub.m + 1 <= published
    BY <1>2, <1>7 DEF Emit, Read
  <2>2. st'[t] # "none" /\ note'[t] = sub.m + 1
    BY <1>7 DEF Emit, Notify, MirrorTypeInv, TypeInv, TypeOK
  <2>3. sub' \in Sub /\ sub'.at = "emit" /\ sub'.m = sub.m + 1 /\ sub'.t = t
    BY <1>7, <2>1, AtType DEF Emit, Places, Call
  <2>4. UNCHANGED <<published, cursor, failed, missed, breaks>>
    BY <1>7 DEF Emit
  <2> QED BY <1>1, <1>2, <1>4, <2>1, <2>2, <2>3, <2>4
          DEF MirrorTypeInv, MirrorTypeOK, Sub, Places
<1>8. CASE Publish
  BY <1>2, <1>4, <1>5, <1>8 DEF Publish
<1>9. CASE Connect \/ ConnectFallback
  <2>1. PICK p \in 0 .. M : p <= published /\ OpenAfter(p)
    BY <1>2, <1>4, <1>9 DEF Connect, ConnectFallback
  <2>2. /\ UNCHANGED <<published, cursor, failed>>
        /\ breaks' \in 0 .. MaxBreaks
    BY <1>2, <1>9 DEF Connect, ConnectFallback, Break
  <2>3. missed' \subseteq 1 .. M /\ sub' = At("reading", p, 0)
    BY <1>2, <2>1 DEF OpenAfter
  <2>4. Rest
    BY <1>2, <1>4, <2>2, <2>3
  <2> QED BY <1>6, <2>1, <2>3, <2>4
<1>10. CASE Drop \/ Restart
  <2>1. sub' = At("down", 0, 0) /\ UNCHANGED <<published, cursor, failed, missed>>
    BY <1>10 DEF Drop, Restart, Down
  <2>2. breaks' \in 0 .. MaxBreaks
    BY <1>2, <1>10 DEF Drop, Restart, Break
  <2>3. Rest /\ 0 \in 0 .. M
    BY <1>2, <1>4, <2>1, <2>2
  <2> QED BY <1>6, <2>1, <2>3
<1>11. CASE ReadLow
  <2>1. sub.m + 1 \in 0 .. M /\ sub.m + 1 <= published
    BY <1>2, <1>11 DEF ReadLow, Read
  <2>2. Rest /\ sub' = At("remember", sub.m + 1, 0)
    BY <1>2, <1>4, <1>11 DEF ReadLow
  <2> QED BY <1>6, <2>1, <2>2
<1>12. CASE EmitFails \/ EmitReturns
  <2>1. sub.m \in 1 .. M /\ sub.m <= published
    BY <1>12 DEF EmitFails, EmitReturns, MirrorTypeInv
  <2>2. \/ sub' = At("reading", sub.m, 0) /\ failed' = failed \cup {sub.m}
        \/ sub' = At("remember", sub.m, 0) /\ failed' = failed
    BY <1>12 DEF EmitFails, EmitReturns
  <2>3. UNCHANGED <<published, cursor, missed, breaks>>
    BY <1>12 DEF EmitFails, EmitReturns
  <2>4. failed' \subseteq 1 .. M /\ sub.m \in 0 .. M
    BY <1>2, <2>1, <2>2
  <2>5. Rest
    BY <1>2, <1>4, <2>3, <2>4
  <2> QED BY <1>6, <2>1, <2>2, <2>4, <2>5
<1>13. CASE Remember \/ RememberFails
  <2>1. sub.m <= published /\ sub' = At("reading", sub.m, 0)
    BY <1>13 DEF Remember, RememberFails, MirrorTypeInv
  <2>2. /\ cursor' \in {cursor, sub.m} /\ breaks' \in 0 .. MaxBreaks
        /\ UNCHANGED <<published, failed, missed>>
    BY <1>2, <1>13 DEF Remember, RememberFails, Break
  <2>3. Rest
    BY <1>2, <1>4, <2>1, <2>2
  <2> QED BY <1>2, <1>6, <2>1, <2>3
<1>14. CASE UNCHANGED feed
  BY <1>2, <1>4, <1>5, <1>14 DEF feed
<1> QED BY <1>7, <1>8, <1>9, <1>10, <1>11, <1>12, <1>13, <1>14
        DEF MirrorNext, SubStep, ApiNext, mirrorVars

LEMMA MirrorTypeInit == MirrorInit => MirrorTypeInv /\ TruthInv
<1> SUFFICES ASSUME MirrorInit PROVE MirrorTypeInv /\ TruthInv
  OBVIOUS
<1>1. worker.at = "idle"
  BY DEF MirrorInit, Init, Idle, InHand
<1>2. TypeInv /\ OrderInv /\ TruthInv
  BY <1>1, TypeInit
  DEF MirrorInit, Init, OrderInv, TruthInv, ToldTheTruth, Busy
<1>3. sub \in Sub /\ sub.at = "down"
  BY AtType DEF MirrorInit, Down, Places
<1>4. TypeOK /\ published = 0 /\ cursor = 0 /\ failed = {} /\ missed = {}
      /\ breaks = 0
  BY <1>2 DEF MirrorInit, TypeInv
<1> QED BY <1>2, <1>3, <1>4 DEF MirrorTypeInv, MirrorTypeOK, Sub, Places

\* The mirror is a caller of Notify like any other (emit of main.go).
THEOREM MirrorImplementsAnnounce == MirrorSpec => Spec
<1>1. MirrorInit => Init
  BY DEF MirrorInit
<1>2. MirrorTypeInv => MirrorTypeOK
  BY DEF MirrorTypeInv
<1> QED BY <1>1, <1>2, MirrorTypeInit, MirrorTypeStep,
           MirrorImplementsAnnounceStep, PTL DEF MirrorSpec, Spec

\* Every variable of the mirror stays in its set (ntfy.go).
THEOREM MirrorTypeCorrect == MirrorSpec => []MirrorTypeOK
<1>1. MirrorTypeInv => MirrorTypeOK
  BY DEF MirrorTypeInv
<1> QED BY <1>1, MirrorTypeInit, MirrorTypeStep, PTL DEF MirrorSpec
-----------------------------------------------------------------------------
(* The cursor.                                                             *)

Handled(m) == Shown(m) \/ m \in Low \cup failed \cup missed

\* What lies behind the subscription is handled, as what lies behind the
\* cursor is; the message in hand is handled once it may be remembered.
HoleInv ==
  /\ NoSilentHole
  /\ sub.at \in {"reading", "remember"} => \A m \in 1 .. sub.m : Handled(m)
  /\ sub.at = "emit" => \A m \in 1 .. sub.m - 1 : Handled(m)

LEMMA HandledStays ==
  ASSUME MirrorTypeInv, [MirrorNext]_mirrorVars, NEW m, Handled(m)
  PROVE  Handled(m)'
<1>1. posted \subseteq posted' /\ \A t \in posted : note'[t] = note[t]
  <2>1. \A t \in posted : t \in Call /\ st[t] # "none"
    BY DEF MirrorTypeInv, OrderInv, TypeInv, TypeOK
  <2>2. posted \subseteq posted'
    BY MirrorImplementsAnnounceStep
    DEF MirrorTypeInv, Next, WorkerStep, Notify, Leave, Take, LookUp, Send,
        Record, RecordFails, Reply, Cleanup, Crash, vars, room, callers
  <2> QED BY <2>1, <2>2, CallsStay, MirrorImplementsAnnounceStep
          DEF MirrorTypeInv
<1>2. failed \subseteq failed' /\ missed \subseteq missed'
  BY DEF MirrorNext, SubStep, Publish, Connect, ConnectFallback, OpenAfter,
         Drop, ReadLow, Emit, EmitFails, EmitReturns, Remember, RememberFails,
         Restart, ApiNext, feed, mirrorVars
<1> QED BY <1>1, <1>2 DEF Handled, Shown

LEMMA HoleStep ==
  MirrorTypeInv /\ TruthInv /\ HoleInv /\ [MirrorNext]_mirrorVars => HoleInv'
<1> SUFFICES ASSUME MirrorTypeInv, TruthInv, HoleInv, [MirrorNext]_mirrorVars
             PROVE  HoleInv'
  OBVIOUS
<1>1. /\ sub.m \in 0 .. M /\ sub.t \in 0 .. N /\ cursor \in 0 .. M
      /\ \A m \in 1 .. cursor : Handled(m)
  BY DEF MirrorTypeInv, MirrorTypeOK, HoleInv, NoSilentHole, Handled
<1>2. \A m : Handled(m) => Handled(m)'
  BY HandledStays
<1>3. ASSUME cursor' = cursor PROVE NoSilentHole'
  BY <1>1, <1>2, <1>3 DEF NoSilentHole, Handled
<1>4. ASSUME NEW a \in {"reading", "remember"}, NEW m \in 0 .. M,
             sub' = At(a, m, 0), \A k \in 1 .. m : Handled(k)',
             cursor' = cursor \/ cursor' = m
      PROVE  HoleInv'
  <2>1. sub'.at = a /\ sub'.m = m
    BY <1>4, AtType DEF Places
  <2>2. NoSilentHole'
    BY <1>3, <1>4 DEF NoSilentHole, Handled
  <2> QED BY <1>4, <2>1, <2>2 DEF HoleInv
<1>5. CASE UNCHANGED <<sub, cursor>>
  BY <1>2, <1>3, <1>5 DEF HoleInv
<1>6. CASE Drop \/ Restart
  <2>1. sub'.at = "down" /\ cursor' = cursor
    BY <1>6 DEF Drop, Restart, Down, At
  <2> QED BY <1>3, <2>1 DEF HoleInv
<1>7. CASE Connect \/ ConnectFallback
  <2>1. PICK p \in 0 .. M : OpenAfter(p) /\ cursor' = cursor
    BY <1>1, <1>7 DEF Connect, ConnectFallback, MirrorTypeInv, MirrorTypeOK
  <2>2. ASSUME NEW k \in 1 .. p PROVE Handled(k)'
    <3>1. CASE k <= cursor
      BY <1>1, <1>2, <3>1
    <3>2. CASE cursor < k
      BY <2>1, <3>2 DEF OpenAfter, Handled
    <3> QED BY <1>1, <3>1, <3>2
  <2>3. sub' = At("reading", p, 0)
    BY <2>1 DEF OpenAfter
  <2> QED BY <1>4, <2>1, <2>2, <2>3
<1>8. CASE ReadLow
  <2>1. /\ sub.m + 1 \in 0 .. M /\ sub.m + 1 \in Low /\ cursor' = cursor
        /\ sub' = At("remember", sub.m + 1, 0)
    BY <1>1, <1>8 DEF ReadLow, Read, MirrorTypeInv, MirrorTypeOK
  <2>2. ASSUME NEW k \in 1 .. sub.m + 1 PROVE Handled(k)'
    <3>1. k \in 1 .. sub.m => Handled(k)
      BY <1>8 DEF ReadLow, Read, HoleInv
    <3>2. Handled(sub.m + 1)
      BY <2>1 DEF Handled
    <3> QED BY <1>1, <1>2, <3>1, <3>2
  <2> QED BY <1>4, <2>1, <2>2
<1>9. ASSUME NEW t \in Call, Emit(t) PROVE HoleInv'
  <2>1. /\ sub'.at = "emit" /\ sub'.m = sub.m + 1 /\ cursor' = cursor
        /\ sub.at = "reading"
    BY <1>9 DEF Emit, At, Read
  <2>2. sub'.m - 1 = sub.m
    BY <1>1, <2>1
  <2> QED BY <1>2, <1>3, <2>1, <2>2 DEF HoleInv
<1>10. CASE EmitFails \/ EmitReturns
  <2>1. PICK m \in 1 .. M : m = sub.m
    BY <1>10 DEF EmitFails, EmitReturns, MirrorTypeInv
  <2>2. Handled(m)'
    <3>1. CASE EmitFails
      BY <2>1, <3>1 DEF EmitFails, Handled
    <3>2. CASE EmitReturns
      <4>1. event[sub.t] \in posted /\ note[event[sub.t]] = m
        BY <2>1, <3>2 DEF EmitReturns, MirrorTypeInv, TruthInv, ToldTheTruth
      <4> QED BY <1>2, <4>1 DEF Handled, Shown
    <3> QED BY <1>10, <3>1, <3>2
  <2>3. ASSUME NEW k \in 1 .. m PROVE Handled(k)'
    <3>1. k # m => k \in 1 .. sub.m - 1
      BY <2>1
    <3>2. k # m => Handled(k)
      BY <1>10, <3>1 DEF EmitFails, EmitReturns, HoleInv
    <3> QED BY <1>2, <2>2, <3>2
  <2>4. /\ sub' = At("reading", m, 0) \/ sub' = At("remember", m, 0)
        /\ cursor' = cursor /\ m \in 0 .. M
    BY <1>10, <2>1 DEF EmitFails, EmitReturns
  <2> QED BY <1>4, <2>3, <2>4
<1>11. CASE Remember \/ RememberFails
  <2>1. /\ sub.at = "remember" /\ sub' = At("reading", sub.m, 0)
        /\ cursor' = cursor \/ cursor' = sub.m
    BY <1>11 DEF Remember, RememberFails
  <2>2. \A k \in 1 .. sub.m : Handled(k)'
    BY <1>2, <2>1 DEF HoleInv
  <2> QED BY <1>1, <1>4, <2>1, <2>2
<1> QED BY <1>5, <1>6, <1>7, <1>8, <1>9, <1>10, <1>11
        DEF MirrorNext, SubStep, Publish, ApiNext, feed, mirrorVars

\* Whatever crashes, reconnects or fails, the stored cursor never passes a
\* message that is neither shown nor accounted for (stream and remember of
\* ntfy.go, Notify and deliver of service.go).
THEOREM CursorHasNoHole == MirrorSpec => []NoSilentHole
<1>1. MirrorInit => HoleInv
  <2>1. MirrorInit => sub.at = "down" /\ cursor = 0
    BY DEF MirrorInit, Down, At
  <2> QED BY <2>1 DEF HoleInv, NoSilentHole
<1>2. HoleInv => NoSilentHole
  BY DEF HoleInv
<1>3. MirrorTypeInv /\ TruthInv /\ [MirrorNext]_mirrorVars => TruthInv'
  BY MirrorImplementsAnnounceStep, TruthStep DEF MirrorTypeInv
<1> QED BY <1>1, <1>2, <1>3, MirrorTypeInit, MirrorTypeStep, HoleStep, PTL
        DEF MirrorSpec

\* What Announce promises its callers, it promises in the presence of the
\* mirror.
COROLLARY MirroredOnce ==
  MirrorSpec => []OncePerKey /\ []ToldTheTruth /\ PostedInOrder
BY MirrorImplementsAnnounce, KeyPostedOnce, CallersToldTheTruth, OrderKept, PTL
=============================================================================
