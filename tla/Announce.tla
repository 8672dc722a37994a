------------------------------ MODULE Announce ------------------------------
(***************************************************************************)
(* Announcements: Notify, the bounded send queue, the one sendWorker and   *)
(* deliver of internal/service/service.go, over the notifications table.   *)
(*                                                                         *)
(* Calls of Notify are numbered as they are made, and the number of a call *)
(* that posts is also its event in the room.  A notification is a number;  *)
(* a caller that tries again makes another call for the same one.          *)
(***************************************************************************)
EXTENDS Naturals, FiniteSets

CONSTANTS
  N,           \* how many calls are made (bound)
  Note,        \* the notifications
  Unkeyed,     \* those without a dedupe key
  QueueSize,   \* limits.queue_size
  MaxMishaps   \* crashes, lost answers, failed statements, sweeps (bound)

ASSUME AnnounceAssumption ==
  /\ N \in Nat
  /\ Note \subseteq Nat \ {0}
  /\ Unkeyed \subseteq Note
  /\ QueueSize \in Nat \ {0}
  /\ MaxMishaps \in Nat

Call == 1 .. N

\* left: the caller's context ended; dead: the process did.
Standing == {"none", "waiting", "left", "dead", "refused", "posted",
             "duplicate", "failed"}

\* What the worker has in hand: a job, the next step of deliver, its result.
Job == [at : {"idle", "look", "send", "record", "reply"}, t : 0 .. N,
        result : Standing, event : 0 .. N]
InHand(a, t) == [at |-> a, t |-> t, result |-> "none", event |-> 0]
Idle == InHand("idle", 0)

VARIABLES
  st,        \* what became of a call
  note,      \* the notification it was made for, or 0
  event,     \* the event its caller was told of, or 0
  queued,    \* jobs in the queue; the oldest is the one with least number
  worker,    \* sendWorker
  posted,    \* jobs whose message is in the room
  rows,      \* table notifications, by event
  excuse,    \* how often something happened that may have it posted again
  unsure,    \* jobs whose message went out and whose send failed
  mishaps

room == <<posted, rows>>
callers == <<st, note, event>>
ghosts == <<excuse, unsure, mishaps>>
vars == <<st, note, event, queued, worker, posted, rows, excuse, unsure,
          mishaps>>

Init ==
  /\ st = [t \in Call |-> "none"]
  /\ note = [t \in Call |-> 0]
  /\ event = [t \in Call |-> 0]
  /\ queued = {}
  /\ worker = Idle
  /\ posted = {}
  /\ rows = {}
  /\ excuse = [n \in Note |-> 0]
  /\ unsure = {}
  /\ mishaps = 0

Mishap == mishaps < MaxMishaps /\ mishaps' = mishaps + 1
Excuse(n) == excuse' = [excuse EXCEPT ![n] = @ + 1]

NextCall(t) == st[t] = "none" /\ \A u \in Call : u < t => st[u] # "none"

\* A full queue refuses the caller at once.
Notify(t, n) ==
  /\ NextCall(t)
  /\ note' = [note EXCEPT ![t] = n]
  /\ IF Cardinality(queued) < QueueSize
     THEN /\ st' = [st EXCEPT ![t] = "waiting"]
          /\ queued' = queued \cup {t}
     ELSE /\ st' = [st EXCEPT ![t] = "refused"]
          /\ UNCHANGED queued
  /\ UNCHANGED <<event, worker, room, ghosts>>

\* The caller's context ends; its job stays where it is.
Leave(t) ==
  /\ st[t] = "waiting"
  /\ st' = [st EXCEPT ![t] = "left"]
  /\ UNCHANGED <<note, event, queued, worker, room, ghosts>>

-----------------------------------------------------------------------------
(* sendWorker and deliver.                                                 *)

\* Mutant: the newest job first.
TakeNewest(t) ==
  /\ worker.at = "idle"
  /\ t \in queued /\ \A u \in queued : t >= u
  /\ queued' = queued \ {t}
  /\ worker' = InHand("look", t)
  /\ UNCHANGED <<callers, room, ghosts>>

Take(t) ==
  /\ worker.at = "idle"
  /\ t \in queued /\ \A u \in queued : t <= u
  /\ queued' = queued \ {t}
  /\ worker' = InHand("look", t)
  /\ UNCHANGED <<callers, room, ghosts>>

\* NotificationByDedupe; a notification without a key is not looked for.
Before(n) == {u \in rows : n \notin Unkeyed /\ note[u] = n}

Conclude(result, e) ==
  worker' = [at |-> "reply", t |-> worker.t, result |-> result, event |-> e]

LookUp ==
  /\ worker.at = "look"
  /\ \/ /\ Before(note[worker.t]) = {}
        /\ worker' = InHand("send", worker.t)
     \/ \E u \in Before(note[worker.t]) : Conclude("duplicate", u)
     \/ Conclude("failed", 0)  \* no such room, ghost or thread
  /\ UNCHANGED <<callers, queued, room, ghosts>>

\* The homeserver takes the message, or does not, or takes it and its answer
\* is lost.
Send ==
  /\ worker.at = "send"
  /\ \/ /\ worker' = InHand("record", worker.t)
        /\ posted' = posted \cup {worker.t}
        /\ UNCHANGED ghosts
     \/ /\ Conclude("failed", 0)
        /\ UNCHANGED <<posted, ghosts>>
     \/ /\ Conclude("failed", 0)
        /\ posted' = posted \cup {worker.t}
        /\ unsure' = unsure \cup {worker.t}
        /\ Mishap /\ Excuse(note[worker.t])
  /\ UNCHANGED <<callers, queued, rows>>

\* Mutant: the notification is not recorded.
RecordNothing ==
  /\ worker.at = "record"
  /\ Conclude("posted", worker.t)
  /\ UNCHANGED <<callers, queued, room, ghosts>>

\* The unique index refuses a second row for a key; the error is logged.
Record ==
  /\ worker.at = "record"
  /\ Conclude("posted", worker.t)
  /\ rows' = IF Before(note[worker.t]) = {} THEN rows \cup {worker.t}
             ELSE rows
  /\ UNCHANGED <<callers, queued, posted, ghosts>>

RecordFails ==
  /\ worker.at = "record"
  /\ Conclude("posted", worker.t)
  /\ Mishap /\ Excuse(note[worker.t])
  /\ UNCHANGED <<callers, queued, room, unsure>>

\* Mutant: the result channel has no buffer, so the worker waits for a caller
\* that has left.
ReplyToWaiting ==
  /\ worker.at = "reply" /\ st[worker.t] = "waiting"
  /\ st' = [st EXCEPT ![worker.t] = worker.result]
  /\ event' = [event EXCEPT ![worker.t] = worker.event]
  /\ worker' = Idle
  /\ UNCHANGED <<note, queued, room, ghosts>>

\* Mutant: the caller is told of its own job, which a duplicate never posts.
ReplyOwnEvent ==
  /\ worker.at = "reply"
  /\ IF st[worker.t] = "waiting"
     THEN /\ st' = [st EXCEPT ![worker.t] = worker.result]
          /\ event' = [event EXCEPT ![worker.t] = worker.t]
     ELSE UNCHANGED <<st, event>>
  /\ worker' = Idle
  /\ UNCHANGED <<note, queued, room, ghosts>>

\* The channel holds one result, whether or not the caller is still there.
Reply ==
  /\ worker.at = "reply"
  /\ IF st[worker.t] = "waiting"
     THEN /\ st' = [st EXCEPT ![worker.t] = worker.result]
          /\ event' = [event EXCEPT ![worker.t] = worker.event]
     ELSE UNCHANGED <<st, event>>
  /\ worker' = Idle
  /\ UNCHANGED <<note, queued, room, ghosts>>

WorkerStep ==
  \/ \E t \in Call : Take(t)
  \/ LookUp \/ Send \/ Record \/ RecordFails \/ Reply

\* The sweep drops an old notification, and its key with it.
Cleanup(t) ==
  /\ t \in rows
  /\ rows' = rows \ {t}
  /\ Mishap /\ Excuse(note[t])
  /\ UNCHANGED <<callers, queued, worker, posted, unsure>>

\* The process stops: the queue, the worker and the callers are gone.
Crash ==
  /\ Mishap
  /\ st' = [t \in Call |-> IF st[t] = "waiting" THEN "dead" ELSE st[t]]
  /\ queued' = {}
  /\ worker' = Idle
  /\ IF worker.at = "record" THEN Excuse(note[worker.t])
                             ELSE UNCHANGED excuse
  /\ UNCHANGED <<note, event, room, unsure>>

Next ==
  \/ \E t \in Call : Leave(t) \/ Cleanup(t) \/ \E n \in Note : Notify(t, n)
  \/ WorkerStep
  \/ Crash

Spec == Init /\ [][Next]_vars
-----------------------------------------------------------------------------
(* What must hold.                                                         *)

\* Every variable stays in its set.
TypeOK ==
  /\ st \in [Call -> Standing]
  /\ note \in [Call -> Note \cup {0}]
  /\ event \in [Call -> 0 .. N]
  /\ queued \in SUBSET Call
  /\ worker \in Job
  /\ posted \in SUBSET Call
  /\ rows \in SUBSET Call
  /\ excuse \in [Note -> 0 .. MaxMishaps]
  /\ unsure \in SUBSET Call
  /\ mishaps \in 0 .. MaxMishaps

Posts(n) == {t \in posted : note[t] = n}

\* A notification with a dedupe key is in the room once, whoever sends it
\* again, while the first is queued or after its caller has left, plus once for
\* every lost answer, row that was not written or was swept, or crash between
\* the message and its row.
OncePerKey ==
  \A n \in Note \ Unkeyed : Cardinality(Posts(n)) <= 1 + excuse[n]

\* What a caller is told is so: the event it gets is in the room and shows its
\* notification, its own or the first of that key; one that was refused or told
\* of a failure has posted nothing, unless the answer to its send was lost.
ToldTheTruth ==
  \A t \in Call :
    /\ st[t] \in {"posted", "duplicate"} =>
         event[t] \in posted /\ note[event[t]] = note[t]
    /\ st[t] \in {"failed", "refused"} => t \notin posted \ unsure

\* Messages appear in the order in which their calls were accepted, also when
\* callers leave and calls fail in between.
PostedInOrder ==
  [][\A t \in posted' \ posted : \A u \in posted : u < t]_vars
=============================================================================
