------------------------------- MODULE Outbox -------------------------------
(***************************************************************************)
(* The outbox: deliveryWorker of internal/service/workers.go over the      *)
(* outbox table of internal/store/store.go.                                *)
(*                                                                         *)
(* Time is not counted: a pending row is in `due` once its next_attempt    *)
(* has passed, and backing off until then.  Which of the due rows are the  *)
(* oldest, and so the ones a tick reads and their order, is left open.     *)
(***************************************************************************)
EXTENDS Naturals, FiniteSets

CONSTANTS
  Action,        \* the actions that are ever enqueued (bound)
  MaxAttempts,   \* actions.max_attempts
  Limit,         \* how many rows the worker reads at once
  MaxMishaps     \* crashes, lost answers, failed statements, retries (bound)

ASSUME OutboxAssumption ==
  /\ MaxAttempts \in Nat \ {0}
  /\ Limit \in Nat \ {0}
  /\ MaxMishaps \in Nat

VARIABLES
  status,     \* outbox.status; "none" before the row, "gone" after it
  attempts,   \* outbox.attempts
  due,        \* the pending rows whose next_attempt has passed
  stage,      \* the worker's rows: read, then called with this outcome
  read,       \* attempts as the worker read it
  calls,      \* calls made for an action, counted up to MaxAttempts
  received,   \* how often the receiver has taken an action
  excuse,     \* how often something happened that may have it sent again
  owed,       \* settled actions that were retried and not called since
  mishaps

table == <<status, attempts, due>>
worker == <<stage, read>>
ghosts == <<calls, received, excuse, owed, mishaps>>
vars == <<status, attempts, due, stage, read, calls, received, excuse, owed,
          mishaps>>

Pending(a) == status[a] = "pending"
Settled(a) == status[a] \in {"delivered", "failed"}
Called(a) == stage[a] \in {"taken", "error"}

Init ==
  /\ status = [a \in Action |-> "none"]
  /\ attempts = [a \in Action |-> 0]
  /\ due = {}
  /\ stage = [a \in Action |-> "idle"]
  /\ read = [a \in Action |-> 0]
  /\ calls = [a \in Action |-> 0]
  /\ received = [a \in Action |-> 0]
  /\ excuse = [a \in Action |-> 0]
  /\ owed = {}
  /\ mishaps = 0

\* A new row is due at once.
EnqueueDelivery(a) ==
  /\ status[a] = "none"
  /\ status' = [status EXCEPT ![a] = "pending"]
  /\ due' = due \cup {a}
  /\ UNCHANGED <<attempts, worker, ghosts>>

\* The backoff of a row is over.
FallDue(a) ==
  /\ Pending(a) /\ a \notin due
  /\ due' = due \cup {a}
  /\ UNCHANGED <<status, attempts, worker, ghosts>>

\* A tick, when the worker has dealt with what it read at the last one.
DueDeliveries ==
  /\ \A a \in Action : stage[a] = "idle"
  /\ due # {}
  /\ \E rows \in SUBSET due :
       /\ Cardinality(rows) = IF Cardinality(due) < Limit
                              THEN Cardinality(due) ELSE Limit
       /\ stage' = [a \in Action |-> IF a \in rows THEN "read" ELSE "idle"]
       /\ read' = [a \in Action |-> IF a \in rows THEN attempts[a] ELSE 0]
  /\ UNCHANGED <<table, ghosts>>

Mishap == mishaps < MaxMishaps /\ mishaps' = mishaps + 1
Excuse(a) == excuse' = [excuse EXCEPT ![a] = @ + 1]

\* The call.  The receiver takes the action and says so, or it does not take
\* it, or it takes it and its answer is lost: the worker sees an error.
Post(a) ==
  /\ stage[a] = "read" /\ ~\E b \in Action : Called(b)
  /\ calls' = [calls EXCEPT ![a] = IF @ < MaxAttempts THEN @ + 1 ELSE @]
  /\ owed' = owed \ {a}
  /\ \/ /\ stage' = [stage EXCEPT ![a] = "taken"]
        /\ received' = [received EXCEPT ![a] = @ + 1]
        /\ UNCHANGED <<excuse, mishaps>>
     \/ /\ stage' = [stage EXCEPT ![a] = "error"]
        /\ UNCHANGED <<received, excuse, mishaps>>
     \/ /\ stage' = [stage EXCEPT ![a] = "error"]
        /\ received' = [received EXCEPT ![a] = @ + 1]
        /\ Mishap /\ Excuse(a)
  /\ UNCHANGED <<table, read>>

\* The update of the row, which leaves it alone when it is no longer there; a
\* row that has just been called is not due, whatever becomes of it.
Recorded(a, s) ==
  /\ stage' = [stage EXCEPT ![a] = "idle"]
  /\ status' = [status EXCEPT ![a] = IF @ = "gone" THEN @ ELSE s]
  /\ due' = due \ {a}

\* Mutant: the outcome of the call is not looked at.
DeliveredWhatever(a) ==
  /\ Called(a)
  /\ Recorded(a, "delivered")
  /\ UNCHANGED <<attempts, read, ghosts>>

\* Mutant: the row is left as it was.
DeliveredUnmarked(a) ==
  /\ stage[a] = "taken"
  /\ stage' = [stage EXCEPT ![a] = "idle"]
  /\ UNCHANGED <<table, read, ghosts>>

MarkDelivered(a) ==
  /\ stage[a] = "taken"
  /\ Recorded(a, "delivered")
  /\ UNCHANGED <<attempts, read, ghosts>>

\* Mutant: the attempt that has just failed is not counted.
FailedUncounted(a) ==
  /\ stage[a] = "error"
  /\ Recorded(a, "pending")
  /\ UNCHANGED <<attempts, read, ghosts>>

\* The attempts are counted from what the worker read, and the update does not
\* look at what became of the row since: it overrules a retry meanwhile.
MarkDeliveryFailed(a) ==
  /\ stage[a] = "error"
  /\ attempts' = [attempts EXCEPT ![a] = read[a] + 1]
  /\ Recorded(a, IF read[a] + 1 >= MaxAttempts THEN "failed" ELSE "pending")
  /\ UNCHANGED <<read, ghosts>>

\* The statement that would record the outcome fails; the worker goes on.
MarkFails(a) ==
  /\ Called(a)
  /\ Mishap
  /\ IF stage[a] = "taken" THEN Excuse(a) ELSE UNCHANGED excuse
  /\ stage' = [stage EXCEPT ![a] = "idle"]
  /\ UNCHANGED <<table, read, calls, received, owed>>

\* POST /v1/deliveries/{id}/retry, of a row in whatever state, at any time.
RetryDelivery(a) ==
  /\ Pending(a) \/ Settled(a)
  /\ status' = [status EXCEPT ![a] = "pending"]
  /\ due' = due \cup {a}
  /\ owed' = IF Settled(a) THEN owed \cup {a} ELSE owed
  /\ Mishap /\ Excuse(a)
  /\ UNCHANGED <<attempts, worker, calls, received>>

\* A settled row is dropped once it is old enough.
Cleanup(a) ==
  /\ Settled(a)
  /\ status' = [status EXCEPT ![a] = "gone"]
  /\ UNCHANGED <<attempts, due, worker, ghosts>>

\* The process stops: killed, or shut down, which cancels the context both the
\* call and the statement that records it run under.
Crash ==
  /\ Mishap
  /\ excuse' = [a \in Action |-> IF stage[a] = "taken" THEN excuse[a] + 1
                                 ELSE excuse[a]]
  /\ stage' = [a \in Action |-> "idle"]
  /\ UNCHANGED <<table, read, calls, received, owed>>

Mark(a) == MarkDelivered(a) \/ MarkDeliveryFailed(a) \/ MarkFails(a)

Next ==
  \/ \E a \in Action : \/ EnqueueDelivery(a) \/ FallDue(a)
                       \/ Post(a) \/ Mark(a)
                       \/ RetryDelivery(a) \/ Cleanup(a)
  \/ DueDeliveries
  \/ Crash

\* Time passes, the ticker ticks, a call comes back within the timeout of the
\* client, and the worker does not stop in the middle of what it read.
Fairness ==
  /\ \A a \in Action : WF_vars(FallDue(a))
  /\ WF_vars(DueDeliveries)
  /\ WF_vars(\E a \in Action : Post(a) \/ Mark(a))

Spec == Init /\ [][Next]_vars /\ Fairness
-----------------------------------------------------------------------------
(* What must hold.                                                         *)

\* Every variable stays in its set, and a row is never tried more often than
\* max_attempts and the retries, lost answers and crashes account for.
TypeOK ==
  /\ status \in [Action -> {"none", "pending", "delivered", "failed", "gone"}]
  /\ attempts \in [Action -> 0 .. MaxAttempts + MaxMishaps]
  /\ due \in SUBSET Action
  /\ stage \in [Action -> {"idle", "read", "taken", "error"}]
  /\ read \in [Action -> 0 .. MaxAttempts + MaxMishaps]
  /\ calls \in [Action -> 0 .. MaxAttempts]
  /\ received \in [Action -> Nat]
  /\ excuse \in [Action -> 0 .. MaxMishaps]
  /\ owed \in SUBSET Action
  /\ mishaps \in 0 .. MaxMishaps

\* Whatever the worker is about to call or to record is still pending, however
\* retries and sweeps fall between the read and the update.
BatchIsPending == \A a \in Action : stage[a] # "idle" => Pending(a)

\* The receiver has an action at most once, plus once for every time the
\* owner asked again, an answer was lost, or a crash or a failed statement
\* kept a delivery from being recorded: nothing else sends it twice.
OnceUnlessExcused == \A a \in Action : received[a] <= 1 + excuse[a]

\* A settled delivery that the owner retries is called again, whatever the
\* worker and the sweep do meanwhile: until then it stays queued.
RetryIsOwed == \A a \in owed : Pending(a)

\* What an action has come to.
Standing(a) ==
  CASE status[a] = "pending" -> "owed"
    [] status[a] = "delivered" -> "done"
    [] status[a] = "failed" -> "given up"
    [] OTHER -> status[a]

Promise == INSTANCE AtLeastOnce WITH
  state <- [a \in Action |-> Standing(a)],
  reached <- {a \in Action : received[a] > 0}

\* The outbox keeps its promise: an action is owed until the receiver has had
\* it or MaxAttempts calls have been made, through crashes, lost answers,
\* retries by hand and sweeps.
KeepsPromise == Promise!Spec

\* Nothing stays queued for ever: each action is delivered or given up.
PendingSettles == \A a \in Action : Pending(a) ~> ~Pending(a)
=============================================================================
