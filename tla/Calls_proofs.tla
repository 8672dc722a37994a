----------------------------- MODULE Calls_proofs -----------------------------
(***************************************************************************)
(* What holds, for every value of the constants, of the two components     *)
(* that call a server whose answer can get lost: Outbox, which delivers    *)
(* actions until the receiver has taken them, and Owui, which follows a    *)
(* task of Open WebUI over HTTP, a socket and polls.                       *)
(*                                                                         *)
(* Outbox: no row is tried, and no action taken, more often than the       *)
(* attempts and the excuses on record allow (Tried, Taken); AtLeastOnce is *)
(* what is left of it without the worker and its stages.                   *)
(*                                                                         *)
(* Owui: once the task has stopped at something that this call did not     *)
(* resolve, it stays as it is (Halted).  Each of the ways in which a call  *)
(* learns of the end - the answer to a foreground request, an event of     *)
(* the socket, a stored message - says where the task stopped and is not   *)
(* behind it, so that it makes no difference which of them comes first.    *)
(***************************************************************************)
EXTENDS Outbox, Owui, SequenceTheorems, TLAPS

-----------------------------------------------------------------------------
(* The outbox.                                                             *)


\* The sets the variables stay in, without the bound on the attempts.
Types ==
  /\ status \in [Action -> {"none", "pending", "delivered", "failed", "gone"}]
  /\ attempts \in [Action -> Nat]
  /\ due \in SUBSET Action
  /\ stage \in [Action -> {"idle", "read", "taken", "error"}]
  /\ read \in [Action -> Nat]
  /\ calls \in [Action -> 0 .. MaxAttempts]
  /\ received \in [Action -> Nat]
  /\ excuse \in [Action -> Nat]
  /\ owed \in SUBSET Action
  /\ mishaps \in 0 .. MaxMishaps

\* Only pending rows are due, in the worker's hands, or owed; one that has
\* just been called is not owed.
Queued(a) ==
  /\ a \in due \/ a \in owed \/ stage[a] # "idle" => status[a] = "pending"
  /\ stage[a] # "idle" => read[a] = attempts[a]
  /\ stage[a] \in {"taken", "error"} => a \notin owed

\* A row is settled when it has had its attempts, and not tried after that
\* unless something excuses it.
Tried(a) ==
  /\ attempts[a] <= MaxAttempts + excuse[a]
  /\ status[a] = "pending" => attempts[a] < MaxAttempts + excuse[a]
  /\ read[a] <= attempts[a]
  /\ excuse[a] <= mishaps
  /\ status[a] = "none" => attempts[a] = 0

\* How often the receiver has taken an action, by where its row stands.
Taken(a) ==
  /\ received[a] <= 1 + excuse[a]
  /\ status[a] = "pending" /\ stage[a] # "taken" => received[a] <= excuse[a]
  /\ stage[a] = "taken" => received[a] > 0
  /\ status[a] = "none" => received[a] = 0

\* Every attempt on record was a call.
Counted(a) ==
  /\ calls[a] = MaxAttempts \/ attempts[a] <= calls[a]
  /\ stage[a] = "error" => calls[a] = MaxAttempts \/ attempts[a] < calls[a]

IInv == /\ Types
        /\ \A a \in Action : Queued(a) /\ Tried(a) /\ Taken(a) /\ Counted(a)

\* A state in which nothing has been enqueued.
LEMMA InvInit == Init => IInv
BY OutboxAssumption DEF Init, IInv, Types, Queued, Tried, Taken, Counted

\* The actions that are about one row: the others keep what holds of them.
LEMMA InvEnqueue ==
  ASSUME IInv, NEW a \in Action, EnqueueDelivery(a) PROVE IInv'
<1>1. Types'
  BY DEF IInv, Types, EnqueueDelivery, worker, ghosts
<1>2. ASSUME NEW b \in Action
      PROVE  Queued(b)' /\ Tried(b)' /\ Taken(b)' /\ Counted(b)'
  BY OutboxAssumption
  DEF IInv, Types, EnqueueDelivery, Queued, Tried, Taken, Counted, worker,
      ghosts
<1>3. QED BY <1>1, <1>2 DEF IInv

LEMMA InvFallDue ==
  ASSUME IInv, NEW a \in Action, FallDue(a) PROVE IInv'
<1>1. Types'
  BY DEF IInv, Types, FallDue, worker, ghosts
<1>2. ASSUME NEW b \in Action
      PROVE  Queued(b)' /\ Tried(b)' /\ Taken(b)' /\ Counted(b)'
  BY DEF IInv, Types, FallDue, Pending, Queued, Tried, Taken, Counted, worker,
         ghosts
<1>3. QED BY <1>1, <1>2 DEF IInv

LEMMA InvTick ==
  ASSUME IInv, DueDeliveries PROVE IInv'
<1> PICK rows \in SUBSET due :
      /\ stage' = [a \in Action |-> IF a \in rows THEN "read" ELSE "idle"]
      /\ read' = [a \in Action |-> IF a \in rows THEN attempts[a] ELSE 0]
  BY DEF DueDeliveries
<1>1. Types'
  BY DEF IInv, Types, DueDeliveries, table, ghosts
<1>2. ASSUME NEW b \in Action
      PROVE  Queued(b)' /\ Tried(b)' /\ Taken(b)' /\ Counted(b)'
  BY DEF IInv, Types, DueDeliveries, Queued, Tried, Taken, Counted, table,
         ghosts
<1>3. QED BY <1>1, <1>2 DEF IInv

LEMMA InvPost ==
  ASSUME IInv, NEW a \in Action, Post(a) PROVE IInv'
<1>1. Types'
  BY OutboxAssumption DEF IInv, Types, Post, Mishap, Excuse, table
<1>2. ASSUME NEW b \in Action
      PROVE  Queued(b)' /\ Tried(b)' /\ Taken(b)' /\ Counted(b)'
  BY OutboxAssumption
  DEF IInv, Types, Post, Mishap, Excuse, Queued, Tried, Taken, Counted, table
<1>3. QED BY <1>1, <1>2 DEF IInv

LEMMA InvDelivered ==
  ASSUME IInv, NEW a \in Action, MarkDelivered(a) PROVE IInv'
<1>1. Types'
  BY OutboxAssumption DEF IInv, Types, MarkDelivered, Recorded, ghosts
<1>2. ASSUME NEW b \in Action
      PROVE  Queued(b)' /\ Tried(b)' /\ Taken(b)' /\ Counted(b)'
  <2>0. Queued(b) /\ Tried(b) /\ Taken(b) /\ Counted(b)
    BY DEF IInv
  <2>1. CASE b = a
    BY <2>0, <2>1, OutboxAssumption
    DEF IInv, Types, MarkDelivered, Recorded, Queued, Tried, Taken,
        Counted, ghosts
  <2>2. CASE b # a
    BY <2>0, <2>2, OutboxAssumption
    DEF IInv, Types, MarkDelivered, Recorded, Queued, Tried, Taken,
        Counted, ghosts
  <2>3. QED BY <2>1, <2>2
<1>3. QED BY <1>1, <1>2 DEF IInv

LEMMA InvFailed ==
  ASSUME IInv, NEW a \in Action, MarkDeliveryFailed(a) PROVE IInv'
<1>1. Types'
  BY OutboxAssumption DEF IInv, Types, MarkDeliveryFailed, Recorded, ghosts
<1>2. ASSUME NEW b \in Action
      PROVE  Queued(b)' /\ Tried(b)' /\ Taken(b)' /\ Counted(b)'
  <2>0. Queued(b) /\ Tried(b) /\ Taken(b) /\ Counted(b)
    BY DEF IInv
  <2>1. CASE b = a
    BY <2>0, <2>1, OutboxAssumption
    DEF IInv, Types, MarkDeliveryFailed, Recorded, Queued, Tried, Taken,
        Counted, ghosts
  <2>2. CASE b # a
    BY <2>0, <2>2, OutboxAssumption
    DEF IInv, Types, MarkDeliveryFailed, Recorded, Queued, Tried, Taken,
        Counted, ghosts
  <2>3. QED BY <2>1, <2>2
<1>3. QED BY <1>1, <1>2 DEF IInv

LEMMA InvMarkFails ==
  ASSUME IInv, NEW a \in Action, MarkFails(a) PROVE IInv'
<1>1. Types'
  BY OutboxAssumption DEF IInv, Types, MarkFails, Called, Mishap, Excuse, table
<1>2. ASSUME NEW b \in Action
      PROVE  Queued(b)' /\ Tried(b)' /\ Taken(b)' /\ Counted(b)'
  <2>0. Queued(b) /\ Tried(b) /\ Taken(b) /\ Counted(b)
    BY DEF IInv
  <2>1. CASE b = a
    BY <2>0, <2>1, OutboxAssumption
    DEF IInv, Types, MarkFails, Called, Mishap, Excuse, Queued, Tried, Taken,
        Counted, table
  <2>2. CASE b # a
    BY <2>0, <2>2, OutboxAssumption
    DEF IInv, Types, MarkFails, Called, Mishap, Excuse, Queued, Tried, Taken,
        Counted, table
  <2>3. QED BY <2>1, <2>2
<1>3. QED BY <1>1, <1>2 DEF IInv

LEMMA InvRetry ==
  ASSUME IInv, NEW a \in Action, RetryDelivery(a) PROVE IInv'
<1>1. Types'
  BY OutboxAssumption DEF IInv, Types, RetryDelivery, Pending, Settled, Mishap, Excuse, worker
<1>2. ASSUME NEW b \in Action
      PROVE  Queued(b)' /\ Tried(b)' /\ Taken(b)' /\ Counted(b)'
  <2>0. Queued(b) /\ Tried(b) /\ Taken(b) /\ Counted(b)
    BY DEF IInv
  <2>1. CASE b = a
    BY <2>0, <2>1, OutboxAssumption
    DEF IInv, Types, RetryDelivery, Pending, Settled, Mishap, Excuse, Queued, Tried, Taken,
        Counted, worker
  <2>2. CASE b # a
    BY <2>0, <2>2, OutboxAssumption
    DEF IInv, Types, RetryDelivery, Pending, Settled, Mishap, Excuse, Queued, Tried, Taken,
        Counted, worker
  <2>3. QED BY <2>1, <2>2
<1>3. QED BY <1>1, <1>2 DEF IInv

LEMMA InvCleanup ==
  ASSUME IInv, NEW a \in Action, Cleanup(a) PROVE IInv'
<1>1. Types'
  BY DEF IInv, Types, Cleanup, worker, ghosts
<1>2. ASSUME NEW b \in Action
      PROVE  Queued(b)' /\ Tried(b)' /\ Taken(b)' /\ Counted(b)'
  BY DEF IInv, Types, Cleanup, Settled, Queued, Tried, Taken, Counted, worker,
         ghosts
<1>3. QED BY <1>1, <1>2 DEF IInv

LEMMA InvCrash ==
  ASSUME IInv, Crash PROVE IInv'
<1>1. Types'
  BY OutboxAssumption DEF IInv, Types, Crash, Mishap, table
<1>2. ASSUME NEW b \in Action
      PROVE  Queued(b)' /\ Tried(b)' /\ Taken(b)' /\ Counted(b)'
  BY OutboxAssumption
  DEF IInv, Types, Crash, Mishap, Queued, Tried, Taken, Counted, table
<1>3. QED BY <1>1, <1>2 DEF IInv

LEMMA InvStep == IInv /\ [Next]_vars => IInv'
<1> SUFFICES ASSUME IInv, [Next]_vars PROVE IInv'
  OBVIOUS
<1>1. CASE UNCHANGED vars
  BY <1>1 DEF IInv, Types, Queued, Tried, Taken, Counted, vars
<1>2. QED
  BY <1>1, InvEnqueue, InvFallDue, InvTick, InvPost, InvDelivered, InvFailed,
     InvMarkFails, InvRetry, InvCleanup, InvCrash
  DEF Next, Mark

\* The invariant is what the properties need.
LEMMA InvEnough ==
  IInv => TypeOK /\ BatchIsPending /\ OnceUnlessExcused /\ RetryIsOwed
<1> SUFFICES ASSUME IInv
             PROVE  TypeOK /\ BatchIsPending /\ OnceUnlessExcused /\ RetryIsOwed
  OBVIOUS
<1>1. \A a \in Action : /\ attempts[a] \in 0 .. MaxAttempts + MaxMishaps
                        /\ read[a] \in 0 .. MaxAttempts + MaxMishaps
                        /\ excuse[a] \in 0 .. MaxMishaps
  BY OutboxAssumption DEF IInv, Types, Tried
<1>2. TypeOK
  BY <1>1 DEF IInv, Types, TypeOK
<1>3. BatchIsPending /\ RetryIsOwed
  BY DEF IInv, Types, Queued, BatchIsPending, RetryIsOwed, Pending
<1>4. OnceUnlessExcused
  BY DEF IInv, Taken, OnceUnlessExcused
<1>5. QED BY <1>2, <1>3, <1>4

-----------------------------------------------------------------------------
(* What the runs check, for every value of the constants.                  *)

\* Every variable stays in its set: no row is tried beyond what its retries,
\* lost answers and crashes account for.
THEOREM TypeCorrect == Spec => []TypeOK
BY InvInit, InvStep, InvEnough, PTL DEF Spec

\* Nothing that the worker holds is settled or swept from under it.
THEOREM BatchAlwaysPending == Spec => []BatchIsPending
BY InvInit, InvStep, InvEnough, PTL DEF Spec

\* The receiver has an action once, and once more for each excuse.
THEOREM OnceAlways == Spec => []OnceUnlessExcused
BY InvInit, InvStep, InvEnough, PTL DEF Spec

\* A retried delivery stays queued until it is called.
THEOREM RetryAlwaysOwed == Spec => []RetryIsOwed
BY InvInit, InvStep, InvEnough, PTL DEF Spec

-----------------------------------------------------------------------------
(* The outbox implements AtLeastOnce.                                      *)

\* The state the promise sees.
StateOf == [a \in Action |-> Standing(a)]
Reached == {a \in Action : received[a] > 0}

LEMMA PromiseInit == Init => Promise!Init
BY DEF Init, Promise!Init, Standing

\* A step that changes the standing of one action to s and nothing else.
LEMMA StandingChanges ==
  ASSUME IInv, NEW a \in Action, NEW s,
         status' = [status EXCEPT ![a] = s]
  PROVE  /\ s = "pending" => StateOf' = [StateOf EXCEPT ![a] = "owed"]
         /\ s = "delivered" => StateOf' = [StateOf EXCEPT ![a] = "done"]
         /\ s = "failed" => StateOf' = [StateOf EXCEPT ![a] = "given up"]
         /\ s = "gone" => StateOf' = [StateOf EXCEPT ![a] = "gone"]
<1>1. \A b \in Action : status'[b] = IF b = a THEN s ELSE status[b]
  BY DEF IInv, Types
<1>2. QED BY <1>1 DEF StateOf, Standing

\* A recorded outcome settles a row that the worker holds.
LEMMA RecordedSettles ==
  ASSUME IInv, NEW a \in Action, NEW s, Recorded(a, s), stage[a] # "idle"
  PROVE  status' = [status EXCEPT ![a] = s] /\ StateOf[a] = "owed"
<1>1. status[a] = "pending"
  BY DEF IInv, Queued
<1>2. QED BY <1>1 DEF Recorded, StateOf, Standing

LEMMA PromiseStep == IInv /\ [Next]_vars => [Promise!Next]_(Promise!vars)
<1> SUFFICES ASSUME IInv, [Next]_vars
             PROVE  [Promise!Next]_(Promise!vars)
  OBVIOUS
<1>0. ASSUME StateOf' = StateOf, Reached' = Reached, calls' = calls
      PROVE  UNCHANGED Promise!vars
  BY <1>0 DEF Promise!vars, StateOf, Reached
<1>1. ASSUME status' = status PROVE StateOf' = StateOf
  BY <1>1 DEF StateOf, Standing
<1>2. ASSUME received' = received PROVE Reached' = Reached
  BY <1>2 DEF Reached
<1>3. ASSUME NEW a \in Action, EnqueueDelivery(a) PROVE Promise!Accept(a)
  <2>1. StateOf[a] = "none" /\ StateOf' = [StateOf EXCEPT ![a] = "owed"]
    BY <1>3, StandingChanges DEF EnqueueDelivery, StateOf, Standing
  <2>2. Reached' = Reached /\ calls' = calls
    BY <1>2, <1>3 DEF EnqueueDelivery, ghosts
  <2>3. QED BY <2>1, <2>2 DEF Promise!Accept, StateOf, Reached
<1>4. ASSUME NEW a \in Action, FallDue(a) \/ MarkFails(a)
      PROVE  UNCHANGED Promise!vars
  BY <1>0, <1>1, <1>2, <1>4 DEF FallDue, MarkFails, table, ghosts
<1>5. ASSUME DueDeliveries \/ Crash PROVE UNCHANGED Promise!vars
  BY <1>0, <1>1, <1>2, <1>5 DEF DueDeliveries, Crash, table, ghosts
<1>6. ASSUME NEW a \in Action, Post(a) PROVE Promise!Call(a)
  <2>1. StateOf[a] = "owed"
    BY <1>6 DEF Post, IInv, Queued, StateOf, Standing
  <2>2. StateOf' = StateOf
    BY <1>1, <1>6 DEF Post, table
  <2>3. Reached' \in {Reached, Reached \cup {a}}
    BY <1>6 DEF Post, IInv, Types, Reached
  <2>4. calls' = [calls EXCEPT ![a] = IF @ < MaxAttempts THEN @ + 1 ELSE @]
    BY <1>6 DEF Post
  <2>5. QED BY <2>1, <2>2, <2>3, <2>4 DEF Promise!Call, StateOf, Reached
<1>7. ASSUME NEW a \in Action, MarkDelivered(a) PROVE Promise!Settle(a)
  <2>1. StateOf[a] = "owed" /\ StateOf' = [StateOf EXCEPT ![a] = "done"]
    BY <1>7, RecordedSettles, StandingChanges DEF MarkDelivered
  <2>2. a \in Reached
    BY <1>7 DEF MarkDelivered, IInv, Taken, Reached
  <2>3. Reached' = Reached /\ calls' = calls
    BY <1>2, <1>7 DEF MarkDelivered, ghosts
  <2>4. QED BY <2>1, <2>2, <2>3 DEF Promise!Settle, StateOf, Reached
<1>8. ASSUME NEW a \in Action, MarkDeliveryFailed(a)
      PROVE  Promise!GiveUp(a) \/ UNCHANGED Promise!vars
  <2>1. Reached' = Reached /\ calls' = calls
    BY <1>2, <1>8 DEF MarkDeliveryFailed, ghosts
  <2>2. CASE read[a] + 1 >= MaxAttempts
    <3>1. /\ StateOf[a] = "owed"
          /\ StateOf' = [StateOf EXCEPT ![a] = "given up"]
      BY <1>8, <2>2, RecordedSettles, StandingChanges DEF MarkDeliveryFailed
    <3>2. calls[a] = MaxAttempts
      BY <1>8, <2>2, OutboxAssumption
      DEF MarkDeliveryFailed, IInv, Types, Queued, Counted
    <3>3. QED BY <2>1, <3>1, <3>2 DEF Promise!GiveUp, StateOf, Reached
  <2>3. CASE ~(read[a] + 1 >= MaxAttempts)
    <3>1. status' = [status EXCEPT ![a] = "pending"] /\ StateOf[a] = "owed"
      BY <1>8, <2>3, RecordedSettles DEF MarkDeliveryFailed
    <3>2. StateOf' = StateOf
      BY <3>1, StandingChanges DEF StateOf
    <3>3. QED BY <1>0, <2>1, <3>2
  <2>4. QED BY <2>2, <2>3
<1>9. ASSUME NEW a \in Action, RetryDelivery(a)
      PROVE  Promise!AskAgain(a) \/ UNCHANGED Promise!vars
  <2>1. Reached' = Reached /\ calls' = calls
    BY <1>2, <1>9 DEF RetryDelivery
  <2>2. StateOf' = [StateOf EXCEPT ![a] = "owed"]
    BY <1>9, StandingChanges DEF RetryDelivery
  <2>3. CASE Pending(a)
    <3>1. StateOf' = StateOf
      BY <2>2, <2>3 DEF Pending, StateOf, Standing
    <3>2. QED BY <1>0, <2>1, <3>1
  <2>4. CASE Settled(a)
    <3>1. StateOf[a] \in {"done", "given up"}
      BY <2>4 DEF Settled, StateOf, Standing
    <3>2. QED BY <2>1, <2>2, <3>1 DEF Promise!AskAgain, StateOf, Reached
  <2>5. QED BY <1>9, <2>3, <2>4 DEF RetryDelivery
<1>10. ASSUME NEW a \in Action, Cleanup(a) PROVE Promise!Forget(a)
  <2>1. StateOf[a] \in {"done", "given up"}
    BY <1>10 DEF Cleanup, Settled, StateOf, Standing
  <2>2. StateOf' = [StateOf EXCEPT ![a] = "gone"]
    BY <1>10, StandingChanges DEF Cleanup
  <2>3. Reached' = Reached /\ calls' = calls
    BY <1>2, <1>10 DEF Cleanup, ghosts
  <2>4. QED BY <2>1, <2>2, <2>3 DEF Promise!Forget, StateOf, Reached
<1>11. CASE UNCHANGED vars
  BY <1>0, <1>1, <1>2, <1>11 DEF vars
<1>12. QED
  BY <1>3, <1>4, <1>5, <1>6, <1>7, <1>8, <1>9, <1>10, <1>11
  DEF Next, Mark, Promise!Next

\* However calls, retries, sweeps and crashes fall, an accepted action is owed
\* until the receiver has had it or its attempts are spent.
THEOREM OutboxKeepsPromise == Spec => KeepsPromise
BY InvInit, InvStep, PromiseInit, PromiseStep, PTL
DEF Spec, KeepsPromise, Promise!Spec

-----------------------------------------------------------------------------
(* Open WebUI, and what a call may count on.                               *)

EventRec == [kind : {"delta", "content", "error"}, text : 0 .. C,
             ask : Ask \cup {NoAsk}, done : BOOLEAN]

CallRec == [at : Steps, nr : 0 .. MaxCalls, ask : Ask \cup {NoAsk}]
ReplyRec == [how : {"none", "reply", "error"}, text : 0 .. C, ask : Ask \cup {NoAsk}]
Excuses == {"cut off", "stale", "unread", "early"}

\* OwuiTypes of everything but the sequences' lengths.
OwuiTypes ==
  /\ setup \in Setups
  /\ call \in CallRec
  /\ request \in {"none", "new", "working", "replied", "refused"}
  /\ accepted \in BOOLEAN
  /\ grace \in 0 .. Grace + 1
  /\ reader \in {"off", "on", "ended", "broken"}
  /\ events \in Seq(EventRec) /\ missed \in BOOLEAN
  /\ seen \in Seq(Chunk) /\ pushed \in Seq(Chunk)
  /\ asked \in Ask \cup {NoAsk} /\ text \in 0 .. C
  /\ reply \in ReplyRec
  /\ task \in TaskRec /\ stored \in TaskRec
  /\ orphans \subseteq Ask
  /\ excused \subseteq Excuses
  /\ faults \in 0 .. MaxFaults

Stops == {"done", "failed", "asked"}

\* The question this call answers is not the one the task waits at.
Past == task.at = "asked" => task.asks > call.ask

\* The task stays as it is for as long as this call lasts.
Halted == task.at \in Stops /\ Past

\* The stored message lags, but does not if it says that the task stopped.
StoredBehind ==
  /\ stored.text <= task.text
  /\ stored.at \in Stops => stored = task

\* What has been asked, and what has been asked to be resolved.
AsksInOrder ==
  /\ call.ask <= task.asks
  /\ \A ask \in orphans : ask <= call.ask
  /\ call.ask = NoAsk /\ request \in {"none", "new"} => task = NoTask /\ stored = NoTask
  /\ call.nr = 0 <=> call.ask = NoAsk
  /\ "stream" \notin setup => task.asks = 0
  /\ asked # NoAsk => call.ask <= asked /\ asked <= task.asks
  /\ reply.ask # NoAsk => call.ask <= reply.ask /\ reply.ask <= task.asks

\* What the answer to the request, and having read it, mean.
RequestSays ==
  /\ call.at = "start" <=> request = "none"
  /\ request \in {"working", "replied"} => task.at # "none" /\ Past
  /\ request = "replied" /\ ~Background => Halted
  /\ accepted => request = "replied"
  /\ grace <= Grace => request = "replied" /\ ~Background

\* Every event after which the reader stops says where the task stopped.
ReaderSays ==
  /\ \A i \in DOMAIN events :
       Ends(events[i]) => /\ i = Len(events)
                          /\ Halted /\ events[i].ask = Message(task).ask
  /\ reader = "ended" => Halted /\ asked = Message(task).ask
  /\ reader \in {"on", "broken"} => asked = NoAsk
  /\ reader = "off" => events = <<>>

\* Where the call is.
StepSays ==
  /\ call.at = "start" => Fresh
  /\ call.at = "socket" => {"token", "stream"} \subseteq setup /\ (accepted => Background)
  /\ call.at = "one shot" => "stream" \notin setup
  /\ call.at \in {"start", "poll", "one shot"} => reader = "off" /\ asked = NoAsk
  /\ call.at \in {"socket", "tail", "wait", "read"} => reader # "off"
  /\ call.at = "tail" => request = "replied" /\ ~Background
  /\ call.at \in {"read", "finish"} /\ "early" \notin excused => Past
  /\ call.at = "read" /\ excused = {} => Halted
  /\ call.at = "finish" /\ "early" \notin excused /\ asked # NoAsk
       => asked = Message(task).ask
  /\ call.at = "finish" /\ excused = {}
       => Halted /\ stored = task /\ task.at # "failed" /\ text = task.text
  /\ call.at # "returned" => reply = NoReply
  /\ reply.ask # NoAsk => reply.how = "reply"
  /\ reply.how = "reply" /\ excused = {} => Halted

\* The socket brings the chunks in their order, each once; how far the text
\* has gone is never behind what was pushed.
TextsInOrder ==
  /\ Len(pushed) <= Len(seen)
  /\ Len(pushed) <= task.text
  /\ \A i \in DOMAIN events :
       /\ events[i].text <= task.text
       /\ Len(pushed) <= events[i].text
       /\ events[i].kind = "delta" => Len(pushed) < events[i].text
  /\ \A i, j \in DOMAIN events :
       i < j => /\ events[i].text <= events[j].text
                /\ events[j].kind = "delta" => events[i].text < events[j].text
  /\ call.at = "poll" => seen = UpTo(Len(seen)) /\ Len(seen) <= stored.text

\* What is shown counts upwards, and no further than the text has gone; the
\* accumulator has seen all of it, or it is all that it has seen.
ShownInOrder ==
  /\ \A i, j \in DOMAIN pushed : i < j => pushed[i] < pushed[j]
  /\ \A i \in DOMAIN pushed :
       /\ pushed[i] <= task.text
       /\ pushed[i] <= Len(seen) \/ pushed = seen
       /\ \A k \in DOMAIN events :
            /\ pushed[i] <= events[k].text
            /\ events[k].kind = "delta" => pushed[i] < events[k].text

\* The text at which event i finds the turn, in the first call.
Before(i) == IF i = 1 THEN Len(pushed) ELSE events[i - 1].text

\* In the first call nothing was said before the reader began; all of this
\* holds until an event is missed.
FromTheBeginning ==
  call.nr = 0 /\ ~missed =>
    /\ seen = UpTo(Len(seen)) /\ pushed = seen
    /\ \A i \in DOMAIN events :
         events[i].kind = "delta" => events[i].text = Before(i) + 1
    /\ reader = "on" /\ call.at # "returned" => Before(Len(events) + 1) = task.text

OwuiInv ==
  /\ OwuiTypes /\ StoredBehind /\ AsksInOrder /\ RequestSays /\ ReaderSays
  /\ StepSays /\ TextsInOrder /\ ShownInOrder /\ FromTheBeginning
  /\ ReplyTellsTheEnd /\ AskedOnce


LEMMA InvTypes == OwuiInv => OwuiTypeOK
BY DEF OwuiInv, OwuiTypes, OwuiTypeOK, EventRec, CallRec, ReplyRec, Excuses

\* The numbers up to n, as a sequence.
LEMMA UpToSeq ==
  ASSUME NEW n \in Nat
  PROVE  /\ Len(UpTo(n)) = n
         /\ \A i \in 1 .. n : UpTo(n)[i] = i
         /\ DOMAIN UpTo(n) = 1 .. n
         /\ \A m \in Nat : n <= m => UpTo(n) \in Seq(1 .. m)
BY DEF UpTo

\* A sequence that counts from one is one of these.
LEMMA CountsUp ==
  ASSUME NEW s \in Seq(Nat), \A i \in 1 .. Len(s) : s[i] = i
  PROVE  s = UpTo(Len(s))
<1>1. DOMAIN s = 1 .. Len(s) /\ Len(s) \in Nat
  OBVIOUS
<1>2. s = [i \in DOMAIN s |-> s[i]]
  OBVIOUS
<1>3. QED BY <1>1, <1>2 DEF UpTo

LEMMA NoneYet == <<>> = UpTo(0)
<1>1. <<>> \in Seq(Nat) /\ Len(<<>>) = 0
  OBVIOUS
<1>2. \A i \in 1 .. Len(<<>>) : <<>>[i] = i
  BY <1>1
<1>3. <<>> = UpTo(Len(<<>>))
  BY <1>1, <1>2, CountsUp
<1>4. QED BY <1>1, <1>3

LEMMA PrefixOfUpTo ==
  ASSUME NEW k \in Nat, NEW n \in Nat
  PROVE  IsPrefix(UpTo(k), UpTo(n)) <=> k <= n
<1>1. Len(UpTo(k)) = k /\ Len(UpTo(n)) = n
  BY UpToSeq
<1>2. ASSUME k <= n PROVE SubSeq(UpTo(k), 1, k) = SubSeq(UpTo(n), 1, k)
  <2>1. UpTo(k) \in Seq(Nat) /\ UpTo(n) \in Seq(Nat)
    BY UpToSeq
  <2>2. \A i \in 1 .. k : UpTo(k)[i] = UpTo(n)[i]
    BY <1>2, UpToSeq
  <2>3. QED BY <1>1, <1>2, <2>1, <2>2
<1>3. QED BY <1>1, <1>2 DEF IsPrefix

\* What accumulator.delta makes of a text of n chunks.
LEMMA Accumulated ==
  ASSUME seen \in Seq(Chunk), pushed \in Seq(Chunk), C \in Nat,
         NEW n \in 0 .. C, Accumulate(UpTo(n)), Len(pushed) <= Len(seen)
  PROVE  /\ seen' = UpTo(n) /\ seen' \in Seq(Chunk) /\ Len(seen') = n
         /\ pushed' \in Seq(Chunk)
         /\ Len(pushed') <= n \/ Len(pushed') = Len(pushed)
         /\ pushed = seen /\ seen = UpTo(Len(seen)) /\ Len(seen) <= n
              => pushed' = UpTo(n)
         /\ \/ pushed' = pushed
            \/ /\ seen = UpTo(Len(seen)) /\ Len(seen) <= n
               /\ Len(pushed') = Len(pushed) + n - Len(seen)
               /\ \A i \in DOMAIN pushed' :
                    \/ i \in DOMAIN pushed /\ pushed'[i] = pushed[i]
                    \/ i > Len(pushed) /\ pushed'[i] = Len(seen) + (i - Len(pushed))
<1>1. seen' = UpTo(n) /\ UpTo(n) \in Seq(Chunk) /\ Len(UpTo(n)) = n
  BY UpToSeq DEF Accumulate, Chunk
<1>2. CASE ~IsPrefix(seen, UpTo(n))
  <2>1. pushed' = pushed
    BY <1>2 DEF Accumulate
  <2>2. ~(seen = UpTo(Len(seen)) /\ Len(seen) <= n)
    BY <1>2, PrefixOfUpTo
  <2>3. QED BY <1>1, <2>1, <2>2
<1>3. CASE IsPrefix(seen, UpTo(n))
  <2> DEFINE rest1 == SubSeq(UpTo(n), Len(seen) + 1, Len(UpTo(n)))
  <2>1. pushed' = pushed \o rest1
    BY <1>3 DEF Accumulate
  <2>2. Len(seen) <= n /\ Len(seen) \in Nat /\ Len(pushed) \in Nat
    BY <1>1, <1>3 DEF IsPrefix
  <2>3. /\ rest1 \in Seq(Chunk)
        /\ Len(rest1) = n - Len(seen)
        /\ \A i \in 1 .. n - Len(seen) : rest1[i] = Len(seen) + i
    <3>1. rest1 = SubSeq(UpTo(n), Len(seen) + 1, n)
      BY <1>1
    <3>2. \A i \in 1 .. n : UpTo(n)[i] = i /\ UpTo(n)[i] \in Chunk
      BY UpToSeq DEF Chunk
    <3> DEFINE m == Len(seen) + 1
    <3>3. m \in Int /\ n \in Int /\ \A i \in m .. n : UpTo(n)[i] \in Chunk
      BY <2>2, <3>2
    <3>4. /\ SubSeq(UpTo(n), m, n) \in Seq(Chunk)
          /\ Len(SubSeq(UpTo(n), m, n)) = IF m <= n THEN n - m + 1 ELSE 0
          /\ \A i \in 1 .. n - m + 1 : SubSeq(UpTo(n), m, n)[i] = UpTo(n)[m + i - 1]
      BY <3>3, SubSeqProperties
    <3>5. \A i \in 1 .. n - Len(seen) : m + i - 1 \in 1 .. n /\ m + i - 1 = Len(seen) + i
      BY <2>2
    <3> HIDE DEF rest1
    <3>6. QED BY <2>2, <3>1, <3>2, <3>4, <3>5
  <2> HIDE DEF rest1
  <2>4. /\ pushed' \in Seq(Chunk)
        /\ Len(pushed') = Len(pushed) + n - Len(seen)
        /\ \A i \in 1 .. Len(pushed') :
             pushed'[i] = IF i <= Len(pushed) THEN pushed[i]
                          ELSE rest1[i - Len(pushed)]
    <3>1. /\ pushed \o rest1 \in Seq(Chunk)
          /\ Len(pushed \o rest1) = Len(pushed) + Len(rest1)
          /\ \A i \in 1 .. Len(pushed) + Len(rest1) :
               (pushed \o rest1)[i] = IF i <= Len(pushed) THEN pushed[i]
                                      ELSE rest1[i - Len(pushed)]
      BY <2>3, ConcatProperties
    <3>2. Len(pushed) + Len(rest1) = Len(pushed) + n - Len(seen)
      BY <2>2, <2>3
    <3>3. Len(pushed') = Len(pushed) + Len(rest1)
      BY <2>1, <3>1
    <3>4. Len(pushed') = Len(pushed) + n - Len(seen)
      BY <3>2, <3>3
    <3>5. \A i \in 1 .. Len(pushed') :
             pushed'[i] = IF i <= Len(pushed) THEN pushed[i]
                          ELSE rest1[i - Len(pushed)]
      BY <2>1, <3>1, <3>3, Zenon
    <3>6. QED BY <2>1, <3>1, <3>4, <3>5
  <2>5. ASSUME pushed = seen, seen = UpTo(Len(seen))
        PROVE  pushed' = UpTo(n)
    <3>1. Len(pushed') = n
      BY <2>2, <2>4, <2>5
    <3>2. \A i \in 1 .. Len(seen) : pushed[i] = i
      BY <2>2, <2>5, UpToSeq
    <3>3. ASSUME NEW i \in 1 .. n PROVE pushed'[i] = i
      <4>1. CASE i <= Len(pushed)
        BY <2>2, <2>4, <2>5, <3>1, <3>2, <4>1
      <4>2. CASE i > Len(pushed)
        <5>1. i - Len(pushed) \in 1 .. n - Len(seen)
          BY <2>2, <2>5, <4>2
        <5>2. rest1[i - Len(pushed)] = Len(seen) + (i - Len(pushed))
          BY <2>3, <5>1
        <5>3. Len(seen) + (i - Len(pushed)) = i /\ ~(i <= Len(pushed))
          BY <2>2, <2>5, <4>2
        <5>4. pushed'[i] = rest1[i - Len(pushed)]
          BY <2>4, <3>1, <5>3
        <5>5. QED BY <5>2, <5>3, <5>4
      <4>3. QED BY <2>2, <4>1, <4>2
    <3>4. pushed' \in Seq(Nat)
      BY <2>4 DEF Chunk
    <3>5. QED BY <3>1, <3>3, <3>4, CountsUp
  <2>6. seen = UpTo(Len(seen))
    <3>1. SubSeq(seen, 1, Len(seen)) = SubSeq(UpTo(n), 1, Len(seen))
      BY <1>3 DEF IsPrefix
    <3>2. \A i \in 1 .. Len(seen) : SubSeq(seen, 1, Len(seen))[i] = seen[i]
      BY <2>2
    <3>3. \A i \in 1 .. Len(seen) : SubSeq(UpTo(n), 1, Len(seen))[i] = i
      <4>1. UpTo(n) \in Seq(Nat) /\ Len(UpTo(n)) = n /\ \A i \in 1 .. n : UpTo(n)[i] = i
        BY UpToSeq
      <4>2. \A i \in 1 .. Len(seen) : i \in 1 .. n /\ SubSeq(UpTo(n), 1, Len(seen))[i] = UpTo(n)[i]
        BY <2>2, <4>1
      <4>3. QED BY <4>1, <4>2
    <3>4. seen \in Seq(Nat)
      BY DEF Chunk
    <3>5. QED BY <3>1, <3>2, <3>3, <3>4, CountsUp
  <2>7. \A i \in DOMAIN pushed' :
           \/ i \in DOMAIN pushed /\ pushed'[i] = pushed[i]
           \/ i > Len(pushed) /\ pushed'[i] = Len(seen) + (i - Len(pushed))
    <3>1. DOMAIN pushed' = 1 .. Len(pushed') /\ DOMAIN pushed = 1 .. Len(pushed)
      BY <2>4
    <3>2. ASSUME NEW i \in 1 .. Len(pushed'), i > Len(pushed)
          PROVE  pushed'[i] = Len(seen) + (i - Len(pushed))
      <4>1. i - Len(pushed) \in 1 .. n - Len(seen)
        BY <2>2, <2>4, <3>2
      <4>2. pushed'[i] = rest1[i - Len(pushed)]
        BY <2>2, <2>4, <3>2
      <4>3. QED BY <2>3, <4>1, <4>2
    <3>3. QED BY <2>2, <2>4, <3>1, <3>2
  <2>8. QED BY <1>1, <2>2, <2>4, <2>5, <2>6, <2>7
<1>4. QED BY <1>2, <1>3


\* What it shows of it goes on upwards, when it did so before.
LEMMA AccumulatedInOrder ==
  ASSUME seen \in Seq(Chunk), pushed \in Seq(Chunk), C \in Nat,
         NEW n \in 0 .. C, Accumulate(UpTo(n)), Len(pushed) <= Len(seen),
         \A i, j \in DOMAIN pushed : i < j => pushed[i] < pushed[j],
         \A i \in DOMAIN pushed : pushed[i] <= n,
         \A i \in DOMAIN pushed : pushed[i] <= Len(seen) \/ pushed = seen
  PROVE  /\ pushed' \in Seq(Nat)
         /\ \A i, j \in DOMAIN pushed' : i < j => pushed'[i] < pushed'[j]
         /\ \A i \in DOMAIN pushed' : pushed'[i] <= n /\ pushed'[i] <= Len(seen')
<1>1. /\ pushed' \in Seq(Chunk) /\ Len(seen') = n
      /\ Len(pushed') <= n \/ Len(pushed') = Len(pushed)
      /\ \/ pushed' = pushed
         \/ /\ seen = UpTo(Len(seen)) /\ Len(seen) <= n
            /\ Len(pushed') = Len(pushed) + n - Len(seen)
            /\ \A i \in DOMAIN pushed' :
                 \/ i \in DOMAIN pushed /\ pushed'[i] = pushed[i]
                 \/ i > Len(pushed) /\ pushed'[i] = Len(seen) + (i - Len(pushed))
  BY Accumulated
<1>2. /\ pushed' \in Seq(Nat) /\ pushed \in Seq(Nat) /\ n \in Nat
      /\ Len(seen) \in Nat /\ Len(pushed) \in Nat /\ Len(pushed') \in Nat
      /\ DOMAIN pushed' = 1 .. Len(pushed') /\ DOMAIN pushed = 1 .. Len(pushed)
      /\ \A i \in DOMAIN pushed : pushed[i] \in Nat
  BY <1>1, SMTT(30) DEF Chunk
<1>3. CASE pushed' = pushed
  BY <1>1, <1>2, <1>3
<1>4. CASE /\ seen = UpTo(Len(seen)) /\ Len(seen) <= n
           /\ Len(pushed') = Len(pushed) + n - Len(seen)
           /\ \A i \in DOMAIN pushed' :
                \/ i \in DOMAIN pushed /\ pushed'[i] = pushed[i]
                \/ i > Len(pushed) /\ pushed'[i] = Len(seen) + (i - Len(pushed))
  <2>1. \A i \in 1 .. Len(seen) : seen[i] = i
    BY <1>2, <1>4, UpToSeq
  <2>2. \A i \in DOMAIN pushed : pushed[i] <= Len(seen)
    BY <1>2, <2>1
  <2>3. ASSUME NEW i \in DOMAIN pushed', NEW j \in DOMAIN pushed', i < j
        PROVE  pushed'[i] < pushed'[j]
    <3>1. CASE j \in DOMAIN pushed /\ pushed'[j] = pushed[j]
      <4>1. i \in DOMAIN pushed /\ pushed'[i] = pushed[i]
        BY <1>2, <1>4, <2>3, <3>1, SMTT(30)
      <4>2. QED BY <2>3, <3>1, <4>1
    <3>2. CASE j > Len(pushed) /\ pushed'[j] = Len(seen) + (j - Len(pushed))
      <4>1. CASE i \in DOMAIN pushed /\ pushed'[i] = pushed[i]
        <5>1. pushed[i] <= Len(seen) /\ pushed[i] \in Nat /\ j \in Nat
          BY <1>2, <2>2, <4>1
        <5>2. QED BY <1>2, <3>2, <4>1, <5>1
      <4>2. CASE i > Len(pushed) /\ pushed'[i] = Len(seen) + (i - Len(pushed))
        BY <1>2, <2>3, <3>2, <4>2
      <4>3. QED BY <1>4, <4>1, <4>2
    <3>3. QED BY <1>4, <3>1, <3>2
  <2>4. ASSUME NEW i \in DOMAIN pushed' PROVE pushed'[i] <= n
    <3>1. CASE i \in DOMAIN pushed /\ pushed'[i] = pushed[i]
      BY <3>1
    <3>2. CASE i > Len(pushed) /\ pushed'[i] = Len(seen) + (i - Len(pushed))
      <4>1. Len(pushed') = Len(pushed) + n - Len(seen)
        BY <1>1, <1>2, <1>4, <3>2
      <4>2. QED BY <1>2, <3>2, <4>1
    <3>3. QED BY <1>4, <3>1, <3>2
  <2>5. QED BY <1>1, <1>2, <2>3, <2>4
<1>5. QED BY <1>1, <1>3, <1>4

\* What the steps of a call need to know of the numbers in it.
LEMMA Bounds ==
  ASSUME OwuiInv
  PROVE  /\ C \in Nat /\ MaxAsks \in Nat /\ Grace \in Nat \ {0}
         /\ Len(pushed) \in 0 .. C /\ Len(seen) \in Nat /\ Len(events) \in Nat
         /\ DOMAIN events = 1 .. Len(events)
         /\ call.ask \in 0 .. MaxAsks /\ asked \in 0 .. MaxAsks /\ reply.ask \in 0 .. MaxAsks
         /\ task.text \in 0 .. C /\ stored.text \in 0 .. C
         /\ task.asks \in 0 .. MaxAsks /\ stored.asks \in 0 .. MaxAsks
         /\ task.at \in {"none", "running", "asked", "done", "failed"}
         /\ stored.at \in {"none", "running", "asked", "done", "failed"}
         /\ Message(stored).ask \in 0 .. MaxAsks /\ Message(task).ask \in 0 .. MaxAsks
<1>1. /\ C \in Nat /\ MaxAsks \in Nat /\ Grace \in Nat \ {0}
  BY OwuiAssumption
<1>0. /\ pushed \in Seq(Chunk) /\ seen \in Seq(Chunk) /\ events \in Seq(EventRec)
      /\ Len(pushed) <= task.text
  BY DEF OwuiInv, OwuiTypes, TextsInOrder
<1>2. Len(pushed) \in Nat
  BY <1>0
<1>3. /\ task.text \in 0 .. C /\ stored.text \in 0 .. C
      /\ task.asks \in 0 .. MaxAsks /\ stored.asks \in 0 .. MaxAsks
      /\ task.at \in {"none", "running", "asked", "done", "failed"}
      /\ stored.at \in {"none", "running", "asked", "done", "failed"}
  BY DEF OwuiInv, OwuiTypes, TaskRec
<1>4. /\ Message(stored).ask \in 0 .. MaxAsks /\ Message(task).ask \in 0 .. MaxAsks
  BY <1>1, <1>3 DEF Message, NoAsk
<1>5. /\ Len(seen) \in Nat /\ Len(events) \in Nat /\ DOMAIN events = 1 .. Len(events)
  BY <1>0
<1>6. /\ call.ask \in 0 .. MaxAsks /\ asked \in 0 .. MaxAsks /\ reply.ask \in 0 .. MaxAsks
  <2>1. /\ call \in [at : Steps, nr : 0 .. MaxCalls, ask : Ask \cup {NoAsk}]
        /\ asked \in Ask \cup {NoAsk}
        /\ reply \in [how : {"none", "reply", "error"}, text : 0 .. C, ask : Ask \cup {NoAsk}]
    BY DEF OwuiInv, OwuiTypes, CallRec, ReplyRec
  <2>2. Ask \cup {NoAsk} = 0 .. MaxAsks
    BY <1>1 DEF Ask, NoAsk
  <2>3. QED BY <2>1, <2>2
<1>7. QED BY <1>0, <1>1, <1>2, <1>3, <1>4, <1>5, <1>6

LEMMA Faulted ==
  ASSUME OwuiTypes, Fault
  PROVE  faults' \in 0 .. MaxFaults
<1>1. faults \in 0 .. MaxFaults /\ MaxFaults \in Nat
  BY OwuiAssumption DEF OwuiTypes
<1>2. QED BY <1>1 DEF Fault

\* What an event of the task does to the queue of a reader.
LEMMA Emitted ==
  ASSUME OwuiTypes, NEW e \in EventRec, Emit(e)
  PROVE  /\ events' \in Seq(EventRec)
         /\ missed' \in BOOLEAN /\ faults' \in 0 .. MaxFaults
         /\ ~missed' => ~missed
         /\ reader # "on" => missed' = missed
         /\ \/ /\ reader = "on" /\ call.at # "returned"
               /\ Len(events') = Len(events) + 1
               /\ \A i \in 1 .. Len(events) : events'[i] = events[i]
               /\ events'[Len(events) + 1] = e
            \/ /\ missed' \/ ~(reader = "on" /\ call.at # "returned")
               /\ events' = events
<1>1. CASE Listening /\ Fault /\ missed' = TRUE /\ UNCHANGED events
  <2>1. events \in Seq(EventRec)
    BY DEF OwuiTypes
  <2>2. QED BY <1>1, <2>1, Faulted DEF Listening
<1>2. CASE /\ events' = IF Listening THEN Append(events, e) ELSE events
           /\ UNCHANGED <<missed, faults>>
  <2>1. events \in Seq(EventRec) /\ missed' \in BOOLEAN /\ faults' \in 0 .. MaxFaults
    BY <1>2 DEF OwuiTypes
  <2>2. CASE Listening
    <3>1. events' = Append(events, e)
      BY <1>2, <2>2
    <3>2. QED BY <1>2, <2>1, <2>2, <3>1, AppendProperties DEF Listening
  <2>3. CASE ~Listening
    BY <1>2, <2>1, <2>3 DEF Listening
  <2>4. QED BY <2>2, <2>3
<1>3. QED BY <1>1, <1>2 DEF Emit

-----------------------------------------------------------------------------
(* Types.                                                                  *)

\* Leaves of Next.
Moves ==
  \/ DialSocket \/ SubmitOnly \/ RequestRefused \/ RequestReplied \/ TailEnds
  \/ ReaderDone \/ RequestAwaited \/ ReadStored \/ Poll \/ OneShot \/ Finish
  \/ GiveUp \/ Answer \/ ReadEvent \/ SocketDrops
  \/ Accept \/ AcceptOrphan \/ Respond \/ RequestFails
  \/ Write \/ StageQuestion \/ EndTask \/ FailTask \/ Store

LEMMA NextMoves == OwuiNext => Moves
BY DEF OwuiNext, Await, Serve, Moves

\* A call that moves on, and one that returns.
LEMMA Moved ==
  ASSUME OwuiTypes, NEW step \in Steps, Goto(step)
  PROVE  call' \in CallRec
BY DEF OwuiTypes, Goto, CallRec

LEMMA Returned ==
  ASSUME OwuiTypes, NEW how \in {"none", "reply", "error"}, NEW said \in 0 .. C,
         NEW ask \in Ask \cup {NoAsk}, Return(how, said, ask)
  PROVE  call' \in CallRec /\ reply' \in ReplyRec
<1>1. "returned" \in Steps /\ Goto("returned")
  BY DEF Steps, Return
<1>2. reply' = [how |-> how, text |-> said, ask |-> ask]
  BY DEF Return
<1>3. reply' \in ReplyRec
  BY <1>2 DEF ReplyRec
<1>4. QED BY <1>1, <1>3, Moved

\* A call that returns an error.
LEMMA ReturnedError ==
  ASSUME OwuiTypes, Return("error", 0, NoAsk)
  PROVE  call' \in CallRec /\ reply' \in ReplyRec
<1>1. 0 \in 0 .. C /\ NoAsk \in Ask \cup {NoAsk}
  BY OwuiAssumption
<1>2. QED BY <1>1, Returned

LEMMA Excusing ==
  ASSUME OwuiTypes
  PROVE  /\ Lag \subseteq Excuses /\ excused \subseteq Excuses
         /\ excused \cup Lag \subseteq Excuses
         /\ \A why \in Excuses : Pardon(why) => excused' \subseteq Excuses
BY DEF OwuiTypes, Lag, Excuses, Pardon

LEMMA TaskTypes ==
  ASSUME OwuiTypes, NEW at \in {"running", "asked", "done", "failed"}
  PROVE  /\ [task EXCEPT !.at = at] \in TaskRec
         /\ [stored EXCEPT !.at = at] \in TaskRec
         /\ task.text < C => [task EXCEPT !.text = @ + 1] \in TaskRec
         /\ task.asks < MaxAsks => [task EXCEPT !.at = at, !.asks = @ + 1] \in TaskRec
<1>1. task \in TaskRec /\ stored \in TaskRec /\ C \in Nat /\ MaxAsks \in Nat
  BY OwuiAssumption DEF OwuiTypes
<1>2. task.text \in 0 .. C /\ task.asks \in 0 .. MaxAsks
  BY <1>1 DEF TaskRec
<1>3. [task EXCEPT !.at = at] \in TaskRec /\ [stored EXCEPT !.at = at] \in TaskRec
  BY <1>1 DEF TaskRec
<1>4. ASSUME task.text < C PROVE [task EXCEPT !.text = @ + 1] \in TaskRec
  BY <1>1, <1>2, <1>4 DEF TaskRec
<1>5. ASSUME task.asks < MaxAsks PROVE [task EXCEPT !.at = at, !.asks = @ + 1] \in TaskRec
  <2>1. task.asks + 1 \in 0 .. MaxAsks
    BY <1>1, <1>2, <1>5
  <2>2. QED BY <1>1, <2>1 DEF TaskRec
<1>6. QED BY <1>3, <1>4, <1>5

\* The events of a task, each with what it says.
LEMMA SaidTypes ==
  ASSUME OwuiTypes, task' \in TaskRec, NEW kind \in {"delta", "content", "error"}
  PROVE  /\ Said(kind) \in EventRec
         /\ task'.asks # 0 => [Said(kind) EXCEPT !.ask = task'.asks] \in EventRec
         /\ [Said(kind) EXCEPT !.done = TRUE] \in EventRec
<1>1. task'.text \in 0 .. C /\ task'.asks \in 0 .. MaxAsks
  BY DEF TaskRec
<1>2. task'.asks # 0 => task'.asks \in Ask
  BY <1>1, OwuiAssumption DEF Ask
<1>3. QED BY <1>1, <1>2 DEF Said, EventRec

LEMMA TypesStep ==
  ASSUME OwuiInv, OwuiNext
  PROVE  OwuiTypes'
<1> USE OwuiAssumption
<1>0. OwuiTypes
  BY DEF OwuiInv
<1>1. CASE DialSocket
  <2>1. call' \in CallRec
    BY <1>0, <1>1, Moved DEF DialSocket, Submit, Steps
  <2>2. faults' \in 0 .. MaxFaults
    BY <1>0, <1>1, Faulted DEF DialSocket, OwuiTypes
  <2>3. QED BY <1>0, <1>1, <2>1, <2>2 DEF DialSocket, OwuiTypes, Submit, server
<1>2. CASE SubmitOnly
  <2>1. call' \in CallRec
    BY <1>0, <1>2, Moved DEF SubmitOnly, Submit, Steps
  <2>2. QED BY <1>0, <1>2, <2>1 DEF SubmitOnly, OwuiTypes, Submit, local, server
<1>3. CASE RequestRefused
  <2>1. call' \in CallRec /\ reply' \in ReplyRec
    BY <1>0, <1>3, ReturnedError DEF RequestRefused
  <2>2. QED BY <1>0, <1>3, <2>1 DEF RequestRefused, OwuiTypes, waiting, local, server
<1>4. CASE RequestReplied
  <2>1. call' \in CallRec
    BY <1>0, <1>4, Moved DEF RequestReplied, AfterRequest, Steps
  <2>2. QED BY <1>0, <1>4, <2>1 DEF RequestReplied, OwuiTypes, waiting, local, server
<1>5. CASE TailEnds
  <2>1. call' \in CallRec
    BY <1>0, <1>5, Moved DEF TailEnds, Steps
  <2>2. QED BY <1>0, <1>5, <2>1 DEF TailEnds, OwuiTypes, waiting, local, server
<1>6. CASE ReaderDone
  <2>1. call' \in CallRec
    <3>1. {"read", "wait"} \subseteq Steps /\ AfterBreak \in {"read", "wait"}
      BY DEF Steps, AfterBreak
    <3>2. Goto("read") \/ Goto(AfterBreak)
      BY <1>6 DEF ReaderDone
    <3>3. QED BY <1>0, <3>1, <3>2, Moved
  <2>2. excused' \subseteq Excuses
    <3>1. "cut off" \in Excuses
      BY DEF Excuses
    <3>2. Pardon("cut off") \/ UNCHANGED excused
      BY <1>6 DEF ReaderDone
    <3>3. QED BY <1>0, <3>1, <3>2, Excusing
  <2>3. QED BY <1>0, <1>6, <2>1, <2>2 DEF ReaderDone, OwuiTypes, waiting, local, server
<1>7. CASE RequestAwaited
  <2>1. call' \in CallRec
    BY <1>0, <1>7, Moved DEF RequestAwaited, Steps
  <2>2. excused' \subseteq Excuses
    <3>1. "cut off" \in Excuses
      BY DEF Excuses
    <3>2. Pardon("cut off") \/ UNCHANGED excused
      BY <1>7 DEF RequestAwaited
    <3>3. QED BY <1>0, <3>1, <3>2, Excusing
  <2>3. QED BY <1>0, <1>7, <2>1, <2>2 DEF RequestAwaited, OwuiTypes, waiting, local, server
<1>8. CASE ReadStored
  <2>1. \/ Return("error", 0, NoAsk) /\ UNCHANGED <<text, excused, faults>>
        \/ /\ Goto("finish") /\ text' \in {stored.text, Len(pushed)}
           /\ excused' = excused \cup Lag /\ UNCHANGED <<reply, faults>>
        \/ /\ Fault /\ Pardon("unread") /\ Goto("finish") /\ text' = Len(pushed)
           /\ UNCHANGED reply
    BY <1>8 DEF ReadStored
  <2>2. stored.text \in 0 .. C /\ Len(pushed) \in 0 .. C
    BY Bounds
  <2>3. "finish" \in Steps /\ "unread" \in Excuses
    BY DEF Steps, Excuses
  <2>4. text \in 0 .. C /\ reply \in ReplyRec /\ faults \in 0 .. MaxFaults
        /\ excused \subseteq Excuses
    BY <1>0 DEF OwuiTypes
  <2>5. call' \in CallRec /\ reply' \in ReplyRec
    BY <1>0, <2>1, <2>3, <2>4, Moved, ReturnedError
  <2>6. text' \in 0 .. C
    BY <2>1, <2>2, <2>4
  <2>7. excused' \subseteq Excuses
    BY <1>0, <2>1, <2>3, <2>4, Excusing
  <2>8. faults' \in 0 .. MaxFaults
    BY <1>0, <2>1, <2>4, Faulted
  <2>9. QED BY <1>0, <1>8, <2>5, <2>6, <2>7, <2>8 DEF ReadStored, OwuiTypes, server
<1>9. CASE Poll
  <2>1. PICK g \in {grace, Grace} : Look(g)
    BY <1>9 DEF Poll
  <2>2. g \in 0 .. Grace + 1 /\ Less(g) \in 0 .. Grace + 1
    <3>1. grace \in 0 .. Grace + 1 /\ Grace \in Nat
      BY <1>0 DEF OwuiTypes
    <3>2. QED BY <2>1, <3>1 DEF Less
  <2>3. /\ stored.text \in 0 .. C /\ Message(stored).ask \in Ask \cup {NoAsk}
        /\ Len(pushed) <= Len(seen)
    BY Bounds DEF Ask, NoAsk, OwuiInv, TextsInOrder
  <2>4. grace' \in 0 .. Grace + 1
    BY <1>0, <2>1, <2>2 DEF Look, OwuiTypes
  <2>5. seen' \in Seq(Chunk) /\ pushed' \in Seq(Chunk)
    <3>1. CASE UNCHANGED <<seen, pushed>>
      BY <1>0, <3>1 DEF OwuiTypes
    <3>2. CASE Accumulate(UpTo(stored.text))
      BY <1>0, <2>3, <3>2, Accumulated DEF OwuiTypes
    <3>3. QED BY <2>1, <3>1, <3>2 DEF Look
  <2>6. text' \in 0 .. C /\ asked' \in Ask \cup {NoAsk}
    BY <1>0, <2>1, <2>3 DEF Look, OwuiTypes
  <2>7. call' \in CallRec /\ reply' \in ReplyRec
    <3>1. \/ Return("error", 0, NoAsk)
          \/ Goto("finish") /\ UNCHANGED reply
          \/ UNCHANGED <<call, reply>>
      BY <2>1 DEF Look
    <3>2. "finish" \in Steps /\ call \in CallRec /\ reply \in ReplyRec
      BY <1>0 DEF Steps, OwuiTypes
    <3>3. QED BY <1>0, <3>1, <3>2, Moved, ReturnedError
  <2>9. excused' \subseteq Excuses
    <3>1. UNCHANGED excused \/ excused' \subseteq (excused \cup Lag) \cup {"early"}
      BY <2>1 DEF Look
    <3>2. "early" \in Excuses /\ excused \subseteq Excuses
      BY <1>0 DEF Excuses, OwuiTypes
    <3>3. QED BY <1>0, <3>1, <3>2, Excusing
  <2>10. faults' \in 0 .. MaxFaults /\ accepted' \in BOOLEAN
    <3>1. Fault \/ UNCHANGED faults
      BY <2>1 DEF Look
    <3>2. accepted' = accepted \/ accepted' = TRUE
      BY <1>9 DEF Poll
    <3>3. QED BY <1>0, <3>1, <3>2, Faulted DEF OwuiTypes
  <2>11. UNCHANGED <<setup, request, reader, events, missed, server>>
    BY <1>9 DEF Poll
  <2>12. QED BY <1>0, <2>4, <2>5, <2>6, <2>7, <2>9, <2>10, <2>11 DEF OwuiTypes, server
<1>10. CASE OneShot
  <2>1. Return("error", 0, NoAsk) \/ Return("reply", task.text, NoAsk)
    BY <1>10 DEF OneShot
  <2>2. task.text \in 0 .. C /\ NoAsk \in Ask \cup {NoAsk}
    BY Bounds
  <2>3. call' \in CallRec /\ reply' \in ReplyRec
    BY <1>0, <2>1, <2>2, Returned, ReturnedError
  <2>4. QED BY <1>0, <1>10, <2>3 DEF OneShot, OwuiTypes, waiting, local, server
<1>11. CASE Finish
  <2>1. \/ Return("reply", text, asked) /\ UNCHANGED <<excused, faults>>
        \/ /\ Return("reply", text, StoredAsk)
           /\ excused' = excused \cup Lag /\ UNCHANGED faults
        \/ Fault /\ Pardon("unread") /\ Return("reply", text, NoAsk)
    BY <1>11 DEF Finish
  <2>2. StoredAsk \in Ask \cup {NoAsk} /\ NoAsk \in Ask \cup {NoAsk} /\ "unread" \in Excuses
    BY Bounds DEF Ask, NoAsk, StoredAsk, Excuses
  <2>3. text \in 0 .. C /\ asked \in Ask \cup {NoAsk} /\ faults \in 0 .. MaxFaults
        /\ excused \subseteq Excuses
    BY <1>0 DEF OwuiTypes
  <2>4. call' \in CallRec /\ reply' \in ReplyRec
    BY <1>0, <2>1, <2>2, <2>3, Returned
  <2>5. excused' \subseteq Excuses /\ faults' \in 0 .. MaxFaults
    BY <1>0, <2>1, <2>2, <2>3, Excusing, Faulted
  <2>6. QED BY <1>0, <1>11, <2>4, <2>5 DEF Finish, OwuiTypes, local, server
<1>12. CASE GiveUp
  <2>1. call' \in CallRec /\ reply' \in ReplyRec
    BY <1>0, <1>12, ReturnedError DEF GiveUp
  <2>2. QED BY <1>0, <1>12, <2>1 DEF GiveUp, OwuiTypes, local, server
<1>13. CASE Answer
  <2>1. /\ call.nr \in Nat /\ call.nr + 1 < MaxCalls /\ MaxCalls \in Nat
        /\ reply.ask \in Ask \cup {NoAsk}
    <3>1. call \in CallRec /\ reply \in ReplyRec /\ MaxCalls \in Nat
      BY <1>0 DEF OwuiTypes, MaxCalls
    <3>2. QED BY <1>13, <3>1 DEF Answer, CallRec, ReplyRec
  <2>2. call' \in CallRec
    BY <1>13, <2>1 DEF Answer, Steps, CallRec
  <2>3. /\ events' = <<>> /\ seen' = <<>> /\ pushed' = <<>>
        /\ \A S : <<>> \in Seq(S)
    BY <1>13 DEF Answer
  <2>4. orphans' \subseteq Ask
    <3>1. request = "new" => call.ask \in Ask
      <4>1. call.ask = NoAsk /\ request = "new" => stored = NoTask
        BY DEF OwuiInv, AsksInOrder
      <4>2. reply.ask <= task.asks /\ (call.ask = NoAsk /\ request = "new" => task.asks = 0)
        BY <1>13 DEF OwuiInv, AsksInOrder, Answer, NoTask
      <4>3. call.ask \in 0 .. MaxAsks /\ reply.ask # 0 /\ reply.ask \in 0 .. MaxAsks
        BY <1>13, Bounds DEF Answer, NoAsk
      <4>4. QED BY <4>2, <4>3 DEF Ask, NoAsk
    <3>2. QED BY <1>0, <1>13, <3>1 DEF Answer, OwuiTypes
  <2>5. /\ request' = "none" /\ accepted' = FALSE /\ missed' = FALSE
        /\ reader' = "off" /\ asked' = NoAsk
        /\ grace' \in 0 .. Grace + 1 /\ text' \in 0 .. C /\ excused' = {}
        /\ reply' = NoReply
    BY <1>13 DEF Answer
  <2>6. reply' \in ReplyRec
    BY <2>5 DEF NoReply, ReplyRec
  <2>7. UNCHANGED <<setup, task, stored, faults>>
    BY <1>13 DEF Answer
  <2>8. QED BY <1>0, <2>2, <2>3, <2>4, <2>5, <2>6, <2>7 DEF OwuiTypes
<1>14. CASE ReadEvent
  <2> DEFINE e == Head(events)
  <2>1. events \in Seq(EventRec) /\ events # <<>> /\ e = events[1] /\ 1 \in DOMAIN events
    <3>1. events \in Seq(EventRec) /\ events # <<>>
      BY <1>0, <1>14 DEF ReadEvent, OwuiTypes
    <3>2. QED BY <3>1
  <2>2. e \in EventRec /\ Tail(events) \in Seq(EventRec)
    BY <2>1, HeadTailProperties
  <2> HIDE DEF e
  <2>3. /\ events' = Tail(events)
        /\ reader' = IF Ends(e) THEN "ended" ELSE reader
        /\ asked' = IF Ends(e) THEN e.ask ELSE asked
    BY <1>14 DEF ReadEvent, e
  <2>4. \/ e.kind = "delta" /\ Hear(e.text)
        \/ e.kind = "content" /\ Accumulate(UpTo(e.text))
        \/ UNCHANGED <<seen, pushed>>
    BY <1>14 DEF ReadEvent, e
  <2>5. e.text \in 0 .. C /\ e.ask \in Ask \cup {NoAsk}
        /\ (e.kind = "delta" => e.text \in Chunk)
    <3>1. e.text \in 0 .. C /\ e.ask \in Ask \cup {NoAsk}
      BY <2>2 DEF EventRec
    <3>2. e.kind = "delta" => Len(pushed) < e.text
      BY <2>1 DEF OwuiInv, TextsInOrder
    <3>3. QED BY <3>1, <3>2, Bounds DEF Chunk
  <2>6. seen' \in Seq(Chunk) /\ pushed' \in Seq(Chunk)
    <3>1. CASE e.kind = "delta" /\ Hear(e.text)
      BY <1>0, <2>5, <3>1, AppendProperties DEF Hear, OwuiTypes
    <3>2. CASE Accumulate(UpTo(e.text))
      <4>1. Len(pushed) <= Len(seen)
        BY DEF OwuiInv, TextsInOrder
      <4>2. QED BY <1>0, <2>5, <3>2, <4>1, Accumulated DEF OwuiTypes
    <3>3. CASE UNCHANGED <<seen, pushed>>
      BY <1>0, <3>3 DEF OwuiTypes
    <3>4. QED BY <2>4, <3>1, <3>2, <3>3
  <2>7. QED BY <1>0, <1>14, <2>2, <2>3, <2>5, <2>6 DEF ReadEvent, OwuiTypes, server
<1>15. CASE SocketDrops
  <2>1. faults' \in 0 .. MaxFaults
    BY <1>0, <1>15, Faulted DEF SocketDrops
  <2>2. events' = <<>> /\ \A S : <<>> \in Seq(S)
    BY <1>15 DEF SocketDrops
  <2>3. QED BY <1>0, <1>15, <2>1, <2>2 DEF SocketDrops, OwuiTypes, server
<1>16. CASE Accept
  <2>1. task' \in {task, [task EXCEPT !.at = "running"]}
        /\ stored' \in {stored, [stored EXCEPT !.at = "running"]}
    BY <1>16 DEF Accept, Resolve
  <2>2. task' \in TaskRec /\ stored' \in TaskRec
    BY <1>0, <2>1, TaskTypes DEF OwuiTypes
  <2>3. request' \in {"working", "refused"}
    BY <1>16 DEF Accept
  <2>4. QED BY <1>0, <1>16, <2>2, <2>3 DEF Accept, OwuiTypes, local
<1>17. CASE AcceptOrphan
  <2>1. task' \in {task, [task EXCEPT !.at = "running"]}
        /\ stored' \in {stored, [stored EXCEPT !.at = "running"]}
    BY <1>17 DEF AcceptOrphan, Resolve
  <2>2. task' \in TaskRec /\ stored' \in TaskRec
    BY <1>0, <2>1, TaskTypes DEF OwuiTypes
  <2>3. orphans' \subseteq orphans
    BY <1>17 DEF AcceptOrphan
  <2>4. QED BY <1>0, <1>17, <2>2, <2>3 DEF AcceptOrphan, OwuiTypes, local
<1>18. CASE Respond
  BY <1>0, <1>18 DEF Respond, OwuiTypes, local, server
<1>19. CASE RequestFails
  <2>1. faults' \in 0 .. MaxFaults
    BY <1>0, <1>19, Faulted DEF RequestFails
  <2>2. QED BY <1>0, <1>19, <2>1 DEF RequestFails, OwuiTypes, local, server
<1>20. CASE Write
  <2>1. task' \in TaskRec
    BY <1>0, <1>20, TaskTypes DEF Write
  <2>2. PICK kind \in {"delta", "content"} : Emit(Said(kind))
    BY <1>20 DEF Write
  <2>3. events' \in Seq(EventRec) /\ missed' \in BOOLEAN /\ faults' \in 0 .. MaxFaults
    BY <1>0, <2>1, <2>2, SaidTypes, Emitted
  <2>4. QED BY <1>0, <1>20, <2>1, <2>3 DEF Write, rest, OwuiTypes
<1>21. CASE StageQuestion
  <2>1. task' \in TaskRec /\ task'.asks # 0
    <3>1. task.asks < MaxAsks /\ task' = [task EXCEPT !.at = "asked", !.asks = @ + 1]
      BY <1>21 DEF StageQuestion
    <3>2. task.asks \in Nat /\ task \in TaskRec
      BY <1>0, Bounds DEF OwuiTypes
    <3>3. task'.asks = task.asks + 1
      BY <3>1, <3>2 DEF TaskRec
    <3>4. QED BY <1>0, <3>1, <3>2, <3>3, TaskTypes
  <2>2. Emit([Said("content") EXCEPT !.ask = task'.asks])
    BY <1>21 DEF StageQuestion
  <2>3. events' \in Seq(EventRec) /\ missed' \in BOOLEAN /\ faults' \in 0 .. MaxFaults
    BY <1>0, <2>1, <2>2, SaidTypes, Emitted
  <2>4. QED BY <1>0, <1>21, <2>1, <2>3 DEF StageQuestion, rest, OwuiTypes
<1>22. CASE EndTask
  <2>1. task' \in TaskRec
    BY <1>0, <1>22, TaskTypes DEF EndTask
  <2>2. Emit([Said("content") EXCEPT !.done = TRUE])
    BY <1>22 DEF EndTask
  <2>3. events' \in Seq(EventRec) /\ missed' \in BOOLEAN /\ faults' \in 0 .. MaxFaults
    BY <1>0, <2>1, <2>2, SaidTypes, Emitted
  <2>4. QED BY <1>0, <1>22, <2>1, <2>3 DEF EndTask, rest, OwuiTypes
<1>23. CASE FailTask
  <2>1. task' \in TaskRec
    BY <1>0, <1>23, TaskTypes DEF FailTask
  <2>2. Emit(Said("error"))
    BY <1>23 DEF FailTask
  <2>3. events' \in Seq(EventRec) /\ missed' \in BOOLEAN /\ faults' \in 0 .. MaxFaults
    BY <1>0, <2>1, <2>2, SaidTypes, Emitted
  <2>4. QED BY <1>0, <1>23, <2>1, <2>3 DEF FailTask, rest, OwuiTypes
<1>24. CASE Store
  BY <1>0, <1>24 DEF Store, OwuiTypes, local
<1> QED
  BY <1>1, <1>2, <1>3, <1>4, <1>5, <1>6, <1>7, <1>8, <1>9, <1>10, <1>11, <1>12, <1>13, <1>14,
     <1>15, <1>16, <1>17, <1>18, <1>19, <1>20, <1>21, <1>22, <1>23, <1>24, NextMoves DEF Moves

-----------------------------------------------------------------------------
(* The task.                                                               *)

TaskStep == Accept \/ AcceptOrphan \/ Write \/ StageQuestion \/ EndTask \/ FailTask

\* What a task may do while a call lasts: it goes on from a question only when
\* this call, or an earlier one, has it resolved.
LEMMA TaskSteps ==
  ASSUME OwuiInv, TaskStep
  PROVE  /\ UNCHANGED <<setup, call, accepted, grace, reader, seen, pushed, asked, text,
                        reply, excused>>
         /\ Halted => task' = task
         /\ Past => Past'
         /\ task.text <= task'.text /\ task.asks <= task'.asks
         /\ task.at # "none" => task'.at # "none"
         /\ "stream" \notin setup => task'.asks = task.asks
         /\ stored'.text = stored.text /\ stored' \in {stored, [stored EXCEPT !.at = "running"]}
         /\ stored.at \in Stops => stored' = task'  \/ stored'.at = "running"
         /\ orphans' \subseteq orphans
         /\ call.ask = NoAsk /\ request' \in {"none", "new"} => UNCHANGED <<task, stored, request>>
         /\ \/ UNCHANGED request
            \/ request = "new" /\ request' = "refused"
            \/ request = "new" /\ request' = "working" /\ task'.at # "none" /\ Past'
<1> USE Bounds DEF NoAsk
<1>0. /\ task \in TaskRec /\ stored \in TaskRec
      /\ stored.at \in Stops => stored = task
      /\ call.ask <= task.asks
      /\ \A ask \in orphans : ask <= call.ask /\ ask \in Ask /\ ask \in Nat /\ ask # 0
      /\ call.ask = NoAsk /\ request \in {"none", "new"} => task = NoTask /\ stored = NoTask
  <2>1. \A ask \in orphans : ask <= call.ask /\ ask \in Ask
    BY DEF OwuiInv, AsksInOrder, OwuiTypes
  <2>2. \A ask \in Ask : ask \in Nat /\ ask # 0
    BY DEF Ask
  <2>3. QED BY <2>1, <2>2 DEF OwuiInv, OwuiTypes, AsksInOrder, StoredBehind
<1>1. ASSUME NEW t, t = [task EXCEPT !.at = "running"]
      PROVE  t.at = "running" /\ t.text = task.text /\ t.asks = task.asks
  BY <1>0, <1>1 DEF TaskRec
<1>2. LET s == [stored EXCEPT !.at = "running"] IN s.at = "running" /\ s.text = stored.text
  BY <1>0 DEF TaskRec
<1>3. CASE Accept
  <2>0. /\ UNCHANGED <<setup, call, accepted, local, reply, orphans, excused>>
        /\ request = "new"
    BY <1>3 DEF Accept
  <2>1. CASE call.ask = NoAsk
    <3>1. task' = [task EXCEPT !.at = "running"] /\ request' = "working" /\ UNCHANGED stored
      BY <1>3, <2>1 DEF Accept
    <3>2. task = NoTask /\ stored = NoTask /\ ~Halted
      BY <1>0, <2>0, <2>1 DEF Halted, Stops, NoTask
    <3>3. task'.at = "running" /\ task'.text = task.text /\ task'.asks = task.asks
      BY <1>1, <3>1
    <3>4. stored.at \notin Stops
      BY <3>2 DEF Stops, NoTask
    <3>5. Past'
      BY <3>3 DEF Past
    <3>6. QED BY <2>0, <3>1, <3>2, <3>3, <3>4, <3>5 DEF local
  <2>2. CASE call.ask # NoAsk /\ Staged(call.ask)
    <3>1. task' = [task EXCEPT !.at = "running"] /\ request' = "working"
          /\ stored' = [stored EXCEPT !.at = "running"]
      BY <1>3, <2>2 DEF Accept, Resolve
    <3>2. ~Halted /\ ~Past /\ task.at = "asked"
      BY <2>2 DEF Halted, Past, Staged
    <3>3. task'.at = "running" /\ task'.text = task.text /\ task'.asks = task.asks
      BY <1>1, <3>1
    <3>4. stored'.at = "running" /\ stored'.text = stored.text
      BY <1>2, <3>1
    <3>5. Past'
      BY <3>3 DEF Past
    <3>6. QED BY <2>0, <2>2, <3>1, <3>2, <3>3, <3>4, <3>5, SMTT(30) DEF local
  <2>3. CASE call.ask # NoAsk /\ ~Staged(call.ask)
    <3>1. request' = "refused" /\ UNCHANGED <<task, stored>>
      BY <1>3, <2>3 DEF Accept
    <3>2. Past => Past'
      BY <2>0, <3>1 DEF Past
    <3>3. QED BY <1>0, <2>0, <2>3, <3>1, <3>2, SMTT(30) DEF local
  <2>4. QED BY <2>1, <2>2, <2>3
<1>4. CASE AcceptOrphan
  <2>0. UNCHANGED <<setup, call, request, accepted, local, reply, excused>>
    BY <1>4 DEF AcceptOrphan
  <2>1. PICK ask \in orphans :
          /\ orphans' = orphans \ {ask}
          /\ IF Staged(ask) THEN Resolve ELSE UNCHANGED <<task, stored>>
    BY <1>4 DEF AcceptOrphan
  <2>2. ask <= call.ask /\ ask \in Nat /\ ask # 0
    BY <1>0
  <2>3. CASE Staged(ask)
    <3>1. task' = [task EXCEPT !.at = "running"] /\ stored' = [stored EXCEPT !.at = "running"]
      BY <2>1, <2>3 DEF Resolve
    <3>2. task.at = "asked" /\ task.asks <= call.ask /\ ~(task.asks > call.ask)
      BY <2>2, <2>3 DEF Staged
    <3>3. ~Halted /\ ~Past
      BY <3>2 DEF Halted, Past
    <3>4. task'.at = "running" /\ task'.text = task.text /\ task'.asks = task.asks
      BY <1>1, <3>1
    <3>5. stored'.at = "running" /\ stored'.text = stored.text
      BY <1>2, <3>1
    <3>6. QED BY <2>0, <2>1, <2>2, <3>1, <3>2, <3>3, <3>4, <3>5, SMTT(30) DEF local
  <2>4. CASE ~Staged(ask)
    <3>1. UNCHANGED <<task, stored>>
      BY <2>1, <2>4
    <3>2. Past => Past'
      BY <2>0, <3>1 DEF Past
    <3>3. QED BY <1>0, <2>0, <2>1, <3>1, <3>2 DEF local
  <2>5. QED BY <2>3, <2>4
<1>5. ASSUME UNCHANGED <<rest>>, task.at = "running",
             task.text <= task'.text, task.asks <= task'.asks, task'.at # "none",
             task'.at = "asked" => task'.asks = task.asks + 1 /\ "stream" \in setup,
             task'.asks # task.asks => "stream" \in setup
      PROVE  /\ UNCHANGED <<setup, call, accepted, grace, reader, seen, pushed, asked, text,
                            reply, excused, stored, request, orphans>>
             /\ ~Halted /\ Past' /\ stored.at \notin Stops
             /\ ~(call.ask = NoAsk /\ request' \in {"none", "new"})
  <2>1. UNCHANGED <<setup, call, accepted, grace, reader, seen, pushed, asked, text,
                    reply, excused, stored, request, orphans>>
    BY <1>5 DEF rest
  <2>2. ~Halted /\ stored.at \notin Stops
    BY <1>0, <1>5 DEF Halted, Stops
  <2>3. Past'
    BY <1>0, <1>5, <2>1, SMTT(30) DEF Past
  <2>4. ~(call.ask = NoAsk /\ request' \in {"none", "new"})
    BY <1>0, <1>5, <2>1 DEF NoTask
  <2>5. QED BY <2>1, <2>2, <2>3, <2>4
<1>6. CASE Write
  <2>1. UNCHANGED rest /\ task.at = "running" /\ task' = [task EXCEPT !.text = @ + 1]
    BY <1>6 DEF Write
  <2>2. task'.text = task.text + 1 /\ task'.asks = task.asks /\ task'.at = "running"
    BY <1>0, <2>1 DEF TaskRec
  <2>3. /\ UNCHANGED <<rest>> /\ task.at = "running"
        /\ task.text <= task'.text /\ task.asks <= task'.asks /\ task'.at # "none"
        /\ task'.at = "asked" => task'.asks = task.asks + 1 /\ "stream" \in setup
        /\ task'.asks # task.asks => "stream" \in setup
    BY <1>0, <2>1, <2>2 DEF TaskRec
  <2>4. /\ UNCHANGED <<setup, call, accepted, grace, reader, seen, pushed, asked, text,
                       reply, excused, stored, request, orphans>>
        /\ ~Halted /\ Past' /\ stored.at \notin Stops
        /\ ~(call.ask = NoAsk /\ request' \in {"none", "new"})
    BY <1>5, <2>3
  <2>5. QED BY <2>3, <2>4
<1>7. CASE StageQuestion
  <2>1. UNCHANGED rest /\ task.at = "running" /\ "stream" \in setup
        /\ task' = [task EXCEPT !.at = "asked", !.asks = @ + 1]
    BY <1>7 DEF StageQuestion
  <2>2. task'.text = task.text /\ task'.asks = task.asks + 1 /\ task'.at = "asked"
    BY <1>0, <2>1 DEF TaskRec
  <2>3. /\ UNCHANGED <<rest>> /\ task.at = "running"
        /\ task.text <= task'.text /\ task.asks <= task'.asks /\ task'.at # "none"
        /\ task'.at = "asked" => task'.asks = task.asks + 1 /\ "stream" \in setup
        /\ task'.asks # task.asks => "stream" \in setup
    BY <1>0, <2>1, <2>2 DEF TaskRec
  <2>4. /\ UNCHANGED <<setup, call, accepted, grace, reader, seen, pushed, asked, text,
                       reply, excused, stored, request, orphans>>
        /\ ~Halted /\ Past' /\ stored.at \notin Stops
        /\ ~(call.ask = NoAsk /\ request' \in {"none", "new"})
    BY <1>5, <2>3
  <2>5. QED BY <2>3, <2>4
<1>8. CASE EndTask \/ FailTask
  <2>1. PICK at \in {"done", "failed"} :
          UNCHANGED rest /\ task.at = "running" /\ task' = [task EXCEPT !.at = at]
    BY <1>8 DEF EndTask, FailTask
  <2>2. task'.text = task.text /\ task'.asks = task.asks /\ task'.at = at
    BY <1>0, <2>1 DEF TaskRec
  <2>3. /\ UNCHANGED <<rest>> /\ task.at = "running"
        /\ task.text <= task'.text /\ task.asks <= task'.asks /\ task'.at # "none"
        /\ task'.at = "asked" => task'.asks = task.asks + 1 /\ "stream" \in setup
        /\ task'.asks # task.asks => "stream" \in setup
    BY <1>0, <2>1, <2>2 DEF TaskRec
  <2>4. /\ UNCHANGED <<setup, call, accepted, grace, reader, seen, pushed, asked, text,
                       reply, excused, stored, request, orphans>>
        /\ ~Halted /\ Past' /\ stored.at \notin Stops
        /\ ~(call.ask = NoAsk /\ request' \in {"none", "new"})
    BY <1>5, <2>3
  <2>5. QED BY <2>3, <2>4
<1>9. QED BY <1>3, <1>4, <1>6, <1>7, <1>8 DEF TaskStep

\* Every other step leaves the task alone.
LEMMA OtherSteps ==
  ASSUME OwuiNext, ~TaskStep
  PROVE  /\ task' = task
         /\ Store \/ stored' = stored
         /\ Answer \/ orphans' = orphans
<1>1. Moves /\ ~Accept /\ ~AcceptOrphan /\ ~Write /\ ~StageQuestion /\ ~EndTask /\ ~FailTask
  BY NextMoves DEF TaskStep
<1>2. CASE Store \/ Answer
  BY <1>2 DEF Store, Answer, server
<1>3. CASE DialSocket \/ SubmitOnly \/ GiveUp \/ ReadEvent \/ SocketDrops \/ Respond \/ RequestFails
  BY <1>3 DEF DialSocket, SubmitOnly, GiveUp, ReadEvent, SocketDrops, Respond, RequestFails, server
<1>4. CASE RequestRefused \/ RequestReplied \/ TailEnds \/ ReaderDone \/ RequestAwaited \/ OneShot
  BY <1>4 DEF RequestRefused, RequestReplied, TailEnds, ReaderDone, RequestAwaited, OneShot,
              waiting, server
<1>5. CASE ReadStored \/ Poll \/ Finish
  BY <1>5 DEF ReadStored, Poll, Finish, server
<1>6. QED BY <1>1, <1>2, <1>3, <1>4, <1>5 DEF Moves

\* A step to another place in the same call.
LEMMA At ==
  ASSUME OwuiTypes, NEW step, Goto(step)
  PROVE  call'.at = step /\ call'.ask = call.ask /\ call'.nr = call.nr
BY DEF OwuiTypes, Goto, CallRec

\* Only Answer begins another call.
LEMMA SameCall ==
  ASSUME OwuiInv, OwuiNext, ~Answer
  PROVE  call'.ask = call.ask /\ call'.nr = call.nr /\ setup' = setup
<1>0. OwuiTypes /\ Moves
  BY NextMoves DEF OwuiInv
<1>1. ASSUME call' = call \/ \E step \in Steps : Goto(step)
      PROVE  call'.ask = call.ask /\ call'.nr = call.nr
  BY <1>0, <1>1, At
<1>2. CASE TaskStep
  BY <1>2, TaskSteps
<1>3. CASE Store \/ ReadEvent \/ SocketDrops \/ Respond \/ RequestFails
  BY <1>3 DEF Store, ReadEvent, SocketDrops, Respond, RequestFails
<1>4. CASE DialSocket \/ SubmitOnly
  <2>1. setup' = setup /\ \E step \in Steps : Goto(step)
    BY <1>4 DEF DialSocket, SubmitOnly, Submit, Steps
  <2>2. QED BY <1>1, <2>1
<1>5. CASE RequestRefused \/ RequestReplied \/ TailEnds \/ RequestAwaited \/ OneShot \/ GiveUp
  <2>1. setup' = setup /\ \E step \in Steps : Goto(step)
    BY <1>5 DEF RequestRefused, RequestReplied, TailEnds, RequestAwaited, OneShot, GiveUp,
                Return, AfterRequest, Steps, waiting
  <2>2. QED BY <1>1, <2>1
<1>6. CASE ReaderDone
  <2>1. Goto("read") \/ Goto(AfterBreak)
    BY <1>6 DEF ReaderDone
  <2>2. "read" \in Steps /\ AfterBreak \in Steps
    BY DEF AfterBreak, Steps
  <2>3. QED BY <1>1, <1>6, <2>1, <2>2 DEF ReaderDone, waiting
<1>7. CASE ReadStored \/ Finish
  <2>1. setup' = setup /\ \E step \in Steps : Goto(step)
    BY <1>7 DEF ReadStored, Finish, Return, Steps
  <2>2. QED BY <1>1, <2>1
<1>8. CASE Poll
  <2>1. PICK g : Look(g)
    BY <1>8 DEF Poll
  <2>2. call' = call \/ \E step \in Steps : Goto(step)
    BY <2>1 DEF Look, Return, Steps
  <2>3. QED BY <1>1, <1>8, <2>2 DEF Poll
<1>9. QED BY <1>0, <1>2, <1>3, <1>4, <1>5, <1>6, <1>7, <1>8 DEF Moves, TaskStep

\* For as long as a call lasts: the task that has stopped stays as it is.
LEMMA Steady ==
  ASSUME OwuiInv, OwuiNext, ~Answer
  PROVE  /\ Halted => Halted' /\ task' = task /\ Message(task)' = Message(task)
         /\ Past => Past'
         /\ task.text <= task'.text /\ task.asks <= task'.asks
         /\ task.at # "none" => task'.at # "none"
         /\ stored.text <= stored'.text
         /\ stored = task /\ Halted => stored' = stored
<1>1. call'.ask = call.ask
  BY SameCall
<1>2. CASE TaskStep
  <2>1. /\ Halted => task' = task
        /\ Past => Past'
        /\ task.text <= task'.text /\ task.asks <= task'.asks
        /\ task.at # "none" => task'.at # "none"
        /\ stored'.text = stored.text
        /\ stored.at \in Stops => stored' = task'  \/ stored'.at = "running"
    BY <1>2, TaskSteps
  <2>2. Halted => Halted' /\ Message(task)' = Message(task)
    BY <1>1, <2>1 DEF Halted, Past, Message
  <2>3. stored = task /\ Halted => stored' = stored
    <3>1. SUFFICES ASSUME stored = task, Halted PROVE stored' = stored
      OBVIOUS
    <3>2. CASE Accept
      <4>1. ~Staged(call.ask)
        BY <3>1, Bounds DEF Halted, Past, Staged
      <4>2. stored' = stored
        BY <3>2, <4>1 DEF Accept
      <4>3. QED BY <4>2
    <3>3. CASE AcceptOrphan
      <4>1. \A ask \in orphans : ask <= call.ask /\ ask \in Ask /\ ask \in Nat
        BY DEF OwuiInv, AsksInOrder, OwuiTypes, Ask
      <4>2. \A ask \in orphans : ~Staged(ask)
        BY <3>1, <4>1, Bounds DEF Halted, Past, Staged
      <4>3. QED BY <3>3, <4>2 DEF AcceptOrphan
    <3>4. CASE Write \/ StageQuestion \/ EndTask \/ FailTask
      BY <3>4 DEF Write, StageQuestion, EndTask, FailTask, rest
    <3>5. QED BY <1>2, <3>2, <3>3, <3>4 DEF TaskStep
  <2>4. stored.text <= stored'.text
    BY <2>1, Bounds
  <2>5. QED BY <2>1, <2>2, <2>3, <2>4
<1>3. CASE ~TaskStep
  <2>1. task' = task /\ (stored' = stored \/ stored' = task)
    BY <1>3, OtherSteps DEF Store
  <2>2. stored.text <= task.text
    BY DEF OwuiInv, StoredBehind
  <2>3. (Halted <=> Halted') /\ (Past <=> Past') /\ Message(task)' = Message(task)
    BY <1>1, <2>1 DEF Halted, Past, Message
  <2>4. QED BY <2>1, <2>2, <2>3, Bounds, SMTT(30)
<1>4. QED BY <1>2, <1>3

LEMMA StoredBehindStep ==
  ASSUME OwuiInv, OwuiNext
  PROVE  StoredBehind'
<1>1. stored.text <= task.text /\ (stored.at \in Stops => stored = task)
  BY DEF OwuiInv, StoredBehind
<1>2. CASE TaskStep
  <2>1. /\ task.text <= task'.text /\ stored'.text = stored.text
        /\ stored' \in {stored, [stored EXCEPT !.at = "running"]}
        /\ stored.at \in Stops => stored' = task'  \/ stored'.at = "running"
    BY <1>2, TaskSteps
  <2>2. task'.text \in Nat /\ stored'.text \in Nat
    <3>1. task' \in TaskRec /\ stored' \in TaskRec
      BY TypesStep DEF OwuiTypes
    <3>2. QED BY <3>1, OwuiAssumption DEF TaskRec
  <2>3. stored'.at \in Stops => stored' = task'
    <3>1. [stored EXCEPT !.at = "running"].at = "running"
      BY DEF OwuiInv, OwuiTypes, TaskRec
    <3>2. QED BY <2>1, <3>1 DEF Stops
  <2>4. QED BY <1>1, <2>1, <2>2, <2>3, Bounds, SMTT(30) DEF StoredBehind
<1>3. CASE ~TaskStep
  <2>1. task' = task /\ (stored' = stored \/ stored' = task)
    BY <1>3, OtherSteps DEF Store
  <2>2. QED BY <1>1, <2>1, Bounds DEF StoredBehind
<1>4. QED BY <1>2, <1>3

-----------------------------------------------------------------------------
(* Questions.                                                              *)

\* A stored message that says that the model stopped to ask is not behind.
LEMMA StoredQuestion ==
  ASSUME OwuiInv
  PROVE  /\ Message(stored).ask # NoAsk \/ stored.at \in Stops => stored = task
         /\ Message(task).ask # NoAsk => task.at = "asked" /\ Message(task).ask = task.asks
         /\ Message(task).ask # NoAsk => call.ask <= Message(task).ask
         /\ Message(task).ask # NoAsk /\ Past => call.ask < Message(task).ask
<1>1. Message(stored).ask # NoAsk => stored.at \in Stops
  BY DEF Message, Stops
<1>2. stored.at \in Stops => stored = task
  BY DEF OwuiInv, StoredBehind
<1>3. Message(task).ask # NoAsk => task.at = "asked" /\ Message(task).ask = task.asks
  BY DEF Message
<1>4. call.ask <= task.asks
  BY DEF OwuiInv, AsksInOrder
<1>5. QED BY <1>1, <1>2, <1>3, <1>4, Bounds DEF Past

LEMMA Finishes ==
  ASSUME OwuiInv, Finish
  PROVE  /\ call.at = "finish" /\ call'.at = "returned" /\ call'.ask = call.ask
         /\ reply'.how = "reply" /\ reply'.text = text /\ excused \subseteq excused'
         /\ UNCHANGED <<setup, request, accepted, local, server>>
         /\ reply'.ask # NoAsk => call.ask <= reply'.ask /\ reply'.ask <= task.asks
         /\ reply'.ask # NoAsk /\ "early" \notin excused' => call.ask < reply'.ask
         /\ excused' = {} => /\ Halted /\ task.at \in {"done", "asked"}
                             /\ text = task.text /\ reply'.ask = Message(task).ask
<1>0. /\ call.at = "finish" /\ UNCHANGED <<setup, request, accepted, local, server>>
      /\ excused \subseteq excused'
      /\ \E ask : Return("reply", text, ask)
  BY DEF Finish, Pardon
<1>1. PICK ask : Return("reply", text, ask)
  BY <1>0
<1>2. /\ call'.at = "returned" /\ call'.ask = call.ask
      /\ reply'.how = "reply" /\ reply'.text = text /\ reply'.ask = ask
  BY <1>1, At DEF Return, OwuiInv
<1>3. /\ "early" \notin excused => Past
      /\ "early" \notin excused /\ asked # NoAsk => asked = Message(task).ask
      /\ excused = {} => Halted /\ stored = task /\ task.at # "failed" /\ text = task.text
  BY <1>0 DEF OwuiInv, StepSays
<1>4. asked # NoAsk => call.ask <= asked /\ asked <= task.asks
  BY DEF OwuiInv, AsksInOrder
<1>5. CASE asked # NoAsk
  <2>1. Return("reply", text, asked)
    BY <1>5 DEF Finish
  <2>2. reply'.ask = asked
    BY <2>1 DEF Return
  <2>3. "early" \notin excused' => call.ask < asked
    BY <1>0, <1>3, <1>5, StoredQuestion
  <2>4. excused' = {} => reply'.ask = Message(task).ask
    BY <1>0, <1>3, <1>5, <2>2
  <2>5. QED BY <1>0, <1>2, <1>3, <1>4, <1>5, <2>2, <2>3, <2>4 DEF Halted, Stops
<1>6. CASE asked = NoAsk /\ reply'.ask = StoredAsk
  <2>1. reply'.ask # NoAsk => stored = task /\ reply'.ask = Message(task).ask
    BY <1>6, StoredQuestion DEF StoredAsk
  <2>2. reply'.ask # NoAsk => call.ask <= reply'.ask /\ reply'.ask <= task.asks
    BY <2>1, StoredQuestion, Bounds
  <2>3. reply'.ask # NoAsk /\ "early" \notin excused' => call.ask < reply'.ask
    BY <1>0, <1>3, <2>1, StoredQuestion
  <2>4. excused' = {} => reply'.ask = Message(task).ask
    BY <1>0, <1>3, <1>6 DEF StoredAsk
  <2>5. QED BY <1>0, <1>2, <1>3, <2>2, <2>3, <2>4 DEF Halted, Stops
<1>7. CASE reply'.ask = NoAsk /\ excused' # {}
  BY <1>0, <1>2, <1>7
<1>8. asked = NoAsk => reply'.ask = StoredAsk \/ (reply'.ask = NoAsk /\ excused' # {})
  BY DEF Finish, Return, Pardon
<1>9. QED BY <1>5, <1>6, <1>7, <1>8

\* How a call may come to a reply.
LEMMA ReplySteps ==
  ASSUME OwuiInv, OwuiNext, ~Answer
  PROVE  \/ Finish
         \/ reply' = reply /\ (call'.at = "returned" => call' = call)
         \/ reply' = [how |-> "error", text |-> 0, ask |-> NoAsk] /\ call'.at = "returned"
         \/ OneShot /\ task.at # "failed" /\ Return("reply", task.text, NoAsk)
<1>0. OwuiTypes /\ Moves
  BY NextMoves DEF OwuiInv
<1>1. ASSUME Return("error", 0, NoAsk)
      PROVE  reply' = [how |-> "error", text |-> 0, ask |-> NoAsk] /\ call'.at = "returned"
  BY <1>0, <1>1, At DEF Return
<1>2. CASE TaskStep
  BY <1>2, TaskSteps
<1>3. CASE Store \/ ReadEvent \/ SocketDrops \/ Respond \/ RequestFails
  BY <1>3 DEF Store, ReadEvent, SocketDrops, Respond, RequestFails
<1>4. CASE DialSocket \/ SubmitOnly
  <2>1. reply' = reply
        /\ \E step \in {"socket", "poll", "one shot"} : Goto(step)
    BY <1>4 DEF DialSocket, SubmitOnly, Submit
  <2>2. call'.at \in {"socket", "poll", "one shot"}
    BY <1>0, <2>1, At
  <2>3. QED BY <2>1, <2>2
<1>5. CASE RequestReplied \/ TailEnds \/ RequestAwaited
  <2>1. reply' = reply
        /\ (Goto("socket") \/ Goto("tail") \/ Goto("read"))
    BY <1>5 DEF RequestReplied, TailEnds, RequestAwaited, AfterRequest
  <2>2. QED BY <1>0, <2>1, At
<1>6. CASE ReaderDone
  <2>1. reply' = reply /\ (Goto("read") \/ Goto("wait"))
    BY <1>6 DEF ReaderDone, AfterBreak
  <2>2. QED BY <1>0, <2>1, At
<1>7. CASE RequestRefused \/ GiveUp
  BY <1>1, <1>7 DEF RequestRefused, GiveUp
<1>8. CASE ReadStored
  <2>1. Return("error", 0, NoAsk) \/ (reply' = reply /\ Goto("finish"))
    BY <1>8 DEF ReadStored
  <2>2. QED BY <1>0, <1>1, <2>1, At
<1>9. CASE Poll
  <2>1. PICK g : Look(g)
    BY <1>9 DEF Poll
  <2>2. \/ Return("error", 0, NoAsk)
        \/ reply' = reply /\ Goto("finish")
        \/ reply' = reply /\ call' = call
    BY <2>1 DEF Look
  <2>3. QED BY <1>0, <1>1, <2>2, At
<1>10. CASE OneShot
  BY <1>1, <1>10 DEF OneShot
<1>11. QED BY <1>0, <1>2, <1>3, <1>4, <1>5, <1>6, <1>7, <1>8, <1>9, <1>10 DEF Moves, TaskStep

\* How a question comes to be known.
LEMMA AskedSteps ==
  ASSUME OwuiInv, OwuiNext, ~Answer, asked' # asked, asked' # NoAsk
  PROVE  /\ asked' = Message(task).ask /\ task' = task /\ stored' = stored
         /\ ReadEvent \/ Poll
<1>0. Moves
  BY NextMoves
<1>1. CASE ReadEvent
  <2>1. Ends(Head(events)) /\ asked' = Head(events).ask /\ events # <<>>
    BY <1>1 DEF ReadEvent
  <2>2. Head(events) = events[1] /\ 1 \in DOMAIN events
    <3>1. events \in Seq(EventRec)
      BY DEF OwuiInv, OwuiTypes
    <3>2. QED BY <2>1, <3>1
  <2>3. asked' = Message(task).ask
    BY <2>1, <2>2 DEF OwuiInv, ReaderSays
  <2>4. QED BY <1>1, <2>3 DEF ReadEvent, server
<1>2. CASE Poll
  <2>1. PICK g : Look(g)
    BY <1>2 DEF Poll
  <2>2. asked' = Message(stored).ask
    BY <2>1 DEF Look
  <2>3. QED BY <1>2, <2>2, StoredQuestion DEF Poll, server
<1>3. CASE TaskStep
  BY <1>3, TaskSteps
<1>4. CASE DialSocket \/ SubmitOnly \/ GiveUp \/ SocketDrops \/ Respond \/ RequestFails \/ Store
  BY <1>4 DEF DialSocket, SubmitOnly, GiveUp, SocketDrops, Respond, RequestFails, Store, local
<1>5. CASE RequestRefused \/ RequestReplied \/ TailEnds \/ ReaderDone \/ RequestAwaited \/ OneShot
  BY <1>5 DEF RequestRefused, RequestReplied, TailEnds, ReaderDone, RequestAwaited, OneShot,
              waiting, local
<1>6. CASE ReadStored \/ Finish
  BY <1>6 DEF ReadStored, Finish, local
<1>7. QED BY <1>0, <1>1, <1>2, <1>3, <1>4, <1>5, <1>6 DEF Moves, TaskStep

\* The request goes only forward, and it is DialSocket and SubmitOnly that make it.
LEMMA RequestSteps ==
  ASSUME OwuiInv, OwuiNext, ~Answer
  PROVE  \/ /\ DialSocket \/ SubmitOnly
            /\ request' = "new" /\ call.at = "start" /\ call'.at # "start"
         \/ /\ call.at = "start" <=> call'.at = "start"
            /\ \/ request' = request
               \/ request \in {"new", "working"} /\ request' = "refused"
               \/ Accept /\ request = "new" /\ request' = "working"
               \/ Respond /\ request = "working" /\ request' = "replied"
<1>0. Moves /\ OwuiTypes
  BY NextMoves DEF OwuiInv
<1>1. CASE TaskStep
  <2>1. call' = call
    BY <1>1, TaskSteps
  <2>2. CASE Accept
    BY <2>1, <2>2 DEF Accept
  <2>3. CASE AcceptOrphan \/ Write \/ StageQuestion \/ EndTask \/ FailTask
    BY <2>1, <2>3 DEF AcceptOrphan, Write, StageQuestion, EndTask, FailTask, rest
  <2>4. QED BY <1>1, <2>2, <2>3 DEF TaskStep
<1>2. CASE Store \/ ReadEvent \/ SocketDrops
  BY <1>2 DEF Store, ReadEvent, SocketDrops
<1>3. CASE Respond \/ RequestFails
  BY <1>3 DEF Respond, RequestFails
<1>4. CASE DialSocket \/ SubmitOnly
  <2>1. call.at = "start" /\ request' = "new"
        /\ \E step \in {"socket", "poll", "one shot"} : Goto(step)
    BY <1>4 DEF DialSocket, SubmitOnly, Submit
  <2>2. call'.at \in {"socket", "poll", "one shot"}
    BY <1>0, <2>1, At
  <2>3. QED BY <1>4, <2>1, <2>2
<1>5. CASE RequestRefused \/ RequestReplied \/ TailEnds \/ ReaderDone \/ RequestAwaited \/ OneShot
  <2>1. request' = request /\ call.at # "start"
    BY <1>5 DEF RequestRefused, RequestReplied, TailEnds, ReaderDone, RequestAwaited, OneShot, waiting
  <2>2. \/ Goto("returned") \/ Goto("socket") \/ Goto("tail") \/ Goto("read") \/ Goto("wait")
    BY <1>5 DEF RequestRefused, RequestReplied, TailEnds, ReaderDone, RequestAwaited, OneShot,
                Return, AfterRequest, AfterBreak
  <2>3. QED BY <1>0, <2>1, <2>2, At
<1>6. CASE ReadStored \/ Finish
  <2>1. request' = request /\ call.at # "start" /\ (Goto("returned") \/ Goto("finish"))
    BY <1>6 DEF ReadStored, Finish, Return
  <2>2. QED BY <1>0, <2>1, At
<1>7. CASE Poll
  <2>1. PICK g : Look(g)
    BY <1>7 DEF Poll
  <2>2. request' = request /\ call.at # "start"
        /\ (Goto("returned") \/ Goto("finish") \/ call' = call)
    BY <1>7, <2>1 DEF Poll, Look, Return
  <2>3. QED BY <1>0, <2>2, At
<1>8. CASE GiveUp
  <2>1. call.at # "start" /\ Goto("returned")
        /\ \/ request' = request
           \/ request = "new" /\ request' = "refused"
    BY <1>8 DEF GiveUp, Return
  <2>2. QED BY <1>0, <1>8, <2>1, At
<1>9. QED BY <1>0, <1>1, <1>2, <1>3, <1>4, <1>5, <1>6, <1>7, <1>8 DEF Moves, TaskStep

\* What Answer sets.
LEMMA AnswerSets ==
  ASSUME Answer
  PROVE  /\ call'.at = "start" /\ call'.nr = call.nr + 1 /\ call'.ask = reply.ask
         /\ reply.ask # NoAsk /\ call.at = "returned"
         /\ orphans' \subseteq orphans \cup {call.ask}
         /\ UNCHANGED <<setup, task, stored>>
         /\ Fresh'
BY DEF Answer, Fresh

LEMMA AsksInOrderStep ==
  ASSUME OwuiInv, OwuiNext
  PROVE  AsksInOrder'
<1>0. /\ call.ask <= task.asks
      /\ \A ask \in orphans : ask <= call.ask
      /\ call.ask = NoAsk /\ request \in {"none", "new"} => task = NoTask /\ stored = NoTask
      /\ call.nr = 0 <=> call.ask = NoAsk
      /\ "stream" \notin setup => task.asks = 0
      /\ asked # NoAsk => call.ask <= asked /\ asked <= task.asks
      /\ reply.ask # NoAsk => call.ask <= reply.ask /\ reply.ask <= task.asks
  BY DEF OwuiInv, AsksInOrder
<1>1. CASE Answer
  <2>1. /\ call'.ask = reply.ask /\ reply.ask # NoAsk /\ call'.nr = call.nr + 1
        /\ UNCHANGED <<setup, task, stored>> /\ asked' = NoAsk /\ reply' = NoReply
        /\ orphans' \subseteq orphans \cup {call.ask}
    BY <1>1, AnswerSets DEF Fresh
  <2>2. call'.ask <= task'.asks /\ reply'.ask = NoAsk
    BY <1>0, <2>1 DEF NoReply
  <2>3. \A ask \in orphans' : ask <= call'.ask
    <3>1. \A ask \in orphans : ask \in Nat
      BY DEF OwuiInv, OwuiTypes, Ask
    <3>2. QED BY <1>0, <2>1, <3>1, Bounds, SMTT(30)
  <2>4. call'.nr # 0
    <3>1. call.nr \in Nat
      BY DEF OwuiInv, OwuiTypes, CallRec
    <3>2. QED BY <2>1, <3>1
  <2>5. "stream" \notin setup' => task'.asks = 0
    BY <1>0, <2>1
  <2>6. QED BY <2>1, <2>2, <2>3, <2>4, <2>5 DEF AsksInOrder
<1>2. CASE ~Answer
  <2>1. /\ call'.ask = call.ask /\ call'.nr = call.nr /\ setup' = setup
        /\ task.asks <= task'.asks
    BY <1>2, SameCall, Steady
  <2>2. task'.asks \in Nat
    BY TypesStep, OwuiAssumption DEF OwuiTypes, TaskRec
  <2>3. call'.ask <= task'.asks
    BY <1>0, <2>1, <2>2, Bounds, SMTT(30)
  <2>4. \A ask \in orphans' : ask <= call'.ask
    <3>1. orphans' \subseteq orphans
      BY <1>2, TaskSteps, OtherSteps
    <3>2. QED BY <1>0, <2>1, <3>1
  <2>5. call'.ask = NoAsk /\ request' \in {"none", "new"} => task' = NoTask /\ stored' = NoTask
    <3>1. SUFFICES ASSUME call.ask = NoAsk, request' \in {"none", "new"}
                   PROVE  task' = NoTask /\ stored' = NoTask
      BY <2>1
    <3>2. request \in {"none", "new"}
      <4>1. call.at = "start" <=> request = "none"
        BY DEF OwuiInv, RequestSays
      <4>2. QED BY <1>2, <3>1, <4>1, RequestSteps
    <3>3. task = NoTask /\ stored = NoTask
      BY <1>0, <3>1, <3>2
    <3>4. CASE TaskStep
      BY <3>1, <3>3, <3>4, TaskSteps
    <3>5. CASE ~TaskStep
      BY <1>2, <3>3, <3>5, OtherSteps DEF Store
    <3>6. QED BY <3>4, <3>5
  <2>6. "stream" \notin setup' => task'.asks = 0
    BY <1>0, <2>1, TaskSteps, OtherSteps
  <2>7. asked' # NoAsk => call'.ask <= asked' /\ asked' <= task'.asks
    <3>1. CASE asked' = asked
      BY <1>0, <2>1, <2>2, <3>1, Bounds
    <3>2. CASE asked' # asked /\ asked' # NoAsk
      <4>1. asked' = Message(task).ask /\ task' = task
        BY <1>2, <3>2, AskedSteps
      <4>2. QED BY <2>1, <3>2, <4>1, StoredQuestion, Bounds
    <3>3. QED BY <3>1, <3>2
  <2>8. reply'.ask # NoAsk => call'.ask <= reply'.ask /\ reply'.ask <= task'.asks
    <3>1. CASE Finish
      <4>1. reply'.ask # NoAsk => call.ask <= reply'.ask /\ reply'.ask <= task.asks
        BY <3>1, Finishes
      <4>2. task' = task
        BY <3>1, Finishes DEF server
      <4>3. QED BY <2>1, <4>1, <4>2
    <3>2. CASE reply' = reply
      BY <1>0, <2>1, <2>2, <3>2, Bounds, SMTT(30)
    <3>3. CASE reply'.ask = NoAsk
      BY <3>3
    <3>4. Return("reply", task.text, NoAsk) => reply'.ask = NoAsk
      BY DEF Return
    <3>5. reply' = [how |-> "error", text |-> 0, ask |-> NoAsk] => reply'.ask = NoAsk
      OBVIOUS
    <3>6. QED BY <1>2, <3>1, <3>2, <3>3, <3>4, <3>5, ReplySteps
  <2>9. QED BY <1>0, <2>1, <2>3, <2>4, <2>5, <2>6, <2>7, <2>8 DEF AsksInOrder
<1>3. QED BY <1>1, <1>2

\* Reading the answer to the request, and the polls that then are left.
LEMMA AcceptedSteps ==
  ASSUME OwuiInv, OwuiNext, ~Answer
  PROVE  /\ accepted' = accepted \/ (request = "replied" /\ request' = request)
         /\ grace' <= Grace /\ grace' # grace
              => request' = request /\ (grace <= Grace \/ (request = "replied" /\ ~Background))
<1>0. Moves
  BY NextMoves
<1>1. CASE TaskStep
  BY <1>1, TaskSteps
<1>2. CASE DialSocket \/ SubmitOnly \/ GiveUp \/ ReadEvent \/ SocketDrops \/ Respond \/ RequestFails \/ Store
  BY <1>2 DEF DialSocket, SubmitOnly, GiveUp, ReadEvent, SocketDrops, Respond, RequestFails, Store, local
<1>3. CASE RequestRefused \/ TailEnds \/ ReaderDone \/ RequestAwaited \/ OneShot \/ RequestReplied
  BY <1>3 DEF RequestRefused, RequestReplied, TailEnds, ReaderDone, RequestAwaited, OneShot,
              waiting, local
<1>4. CASE ReadStored \/ Finish
  BY <1>4 DEF ReadStored, Finish, local
<1>5. CASE Poll
  <2>1. request' = request /\ (accepted' = accepted \/ request = "replied")
    BY <1>5 DEF Poll
  <2>2. PICK g : Look(g) /\ (g = grace \/ (request = "replied" /\ (Background \/ g = Grace)
                                           /\ (Background => g = grace)))
    BY <1>5 DEF Poll
  <2>3. grace' \in {grace, g, Less(g)}
    BY <2>2 DEF Look
  <2>4. grace \in 0 .. Grace + 1 /\ Grace \in Nat
    BY Bounds DEF OwuiInv, OwuiTypes
  <2>5. g \in 0 .. Grace + 1
    BY <2>2, <2>4
  <2>6. grace' <= Grace /\ grace' # grace => g <= Grace
    BY <2>3, <2>4, <2>5 DEF Less
  <2>7. QED BY <2>1, <2>2, <2>6
<1>6. QED BY <1>0, <1>1, <1>2, <1>3, <1>4, <1>5 DEF Moves, TaskStep

LEMMA RequestSaysStep ==
  ASSUME OwuiInv, OwuiNext
  PROVE  RequestSays'
<1>0. /\ call.at = "start" <=> request = "none"
      /\ request \in {"working", "replied"} => task.at # "none" /\ Past
      /\ request = "replied" /\ ~Background => Halted
      /\ accepted => request = "replied"
      /\ grace <= Grace => request = "replied" /\ ~Background
  BY DEF OwuiInv, RequestSays
<1>1. CASE Answer
  <2>1. call'.at = "start" /\ Fresh'
    BY <1>1, AnswerSets
  <2>2. request' = "none" /\ accepted' = FALSE /\ grace' = Grace + 1
    BY <2>1 DEF Fresh
  <2>3. ~(Grace + 1 <= Grace)
    BY OwuiAssumption
  <2>4. QED BY <2>1, <2>2, <2>3 DEF RequestSays
<1>2. CASE ~Answer
  <2>0. /\ \/ /\ request' = "new" /\ call.at = "start" /\ call'.at # "start"
           \/ /\ call.at = "start" <=> call'.at = "start"
              /\ \/ request' = request
                 \/ request \in {"new", "working"} /\ request' = "refused"
                 \/ Accept /\ request = "new" /\ request' = "working"
                 \/ Respond /\ request = "working" /\ request' = "replied"
    BY <1>2, RequestSteps
  <2>1. call'.at = "start" <=> request' = "none"
    BY <1>0, <2>0
  <2>2. /\ Background' = Background
        /\ Halted => Halted'
        /\ Past => Past'
        /\ task.at # "none" => task'.at # "none"
    BY <1>2, SameCall, Steady DEF Background
  <2>3. request' \in {"working", "replied"} => task'.at # "none" /\ Past'
    <3>1. Accept /\ request' = "working" => task'.at # "none" /\ Past'
      BY TaskSteps DEF TaskStep, Accept
    <3>2. QED BY <1>0, <2>0, <2>2, <3>1
  <2>4. request' = "replied" /\ ~Background' => Halted'
    <3>1. Respond /\ ~Background => Halted
      BY <1>0, Bounds DEF Respond, Halted, Stops
    <3>2. QED BY <1>0, <2>0, <2>2, <3>1
  <2>5. accepted' => request' = "replied"
    BY <1>0, <1>2, <2>0, AcceptedSteps
  <2>6. grace' <= Grace => request' = "replied" /\ ~Background'
    BY <1>0, <1>2, <2>0, <2>2, AcceptedSteps
  <2>7. QED BY <2>1, <2>3, <2>4, <2>5, <2>6 DEF RequestSays
<1>3. QED BY <1>1, <1>2

-----------------------------------------------------------------------------
(* The socket.                                                             *)

EmitStep == Write \/ StageQuestion \/ EndTask \/ FailTask

\* What the task says over the socket: how far the text is, and where it stops.
LEMMA Emissions ==
  ASSUME OwuiInv, OwuiNext, EmitStep
  PROVE  /\ ~Halted
         /\ \E e \in EventRec :
              /\ Emit(e) /\ e.text = task'.text
              /\ e.kind = "delta" => task'.text = task.text + 1
              /\ Ends(e) => Halted' /\ e.ask = Message(task)'.ask
<1>0. task \in TaskRec /\ task' \in TaskRec /\ OwuiTypes
  BY TypesStep DEF OwuiInv, OwuiTypes
<1>1. TaskStep /\ task.at = "running" /\ call' = call
  <2>1. TaskStep
    BY DEF EmitStep, TaskStep
  <2>2. QED BY <2>1, TaskSteps DEF EmitStep, Write, StageQuestion, EndTask, FailTask
<1>2. ~Halted
  BY <1>1 DEF Halted, Stops
<1>3. CASE Write
  <2>1. PICK kind \in {"delta", "content"} : Emit(Said(kind))
    BY <1>3 DEF Write
  <2>2. task'.text = task.text + 1
    BY <1>0, <1>3 DEF Write, TaskRec
  <2>3. Said(kind) \in EventRec
    BY <1>0, SaidTypes
  <2>4. Said(kind).text = task'.text /\ ~Ends(Said(kind))
    BY DEF Said, Ends
  <2>5. QED BY <1>2, <2>1, <2>2, <2>3, <2>4
<1>4. CASE StageQuestion
  <2> DEFINE e == [Said("content") EXCEPT !.ask = task'.asks]
  <2>1. Emit(e) /\ task' = [task EXCEPT !.at = "asked", !.asks = @ + 1]
    BY <1>4 DEF StageQuestion
  <2>2. task'.at = "asked" /\ task'.asks = task.asks + 1
    BY <1>0, <2>1 DEF TaskRec
  <2>3. task'.asks # 0 /\ call.ask < task'.asks
    BY <2>2, Bounds, SMTT(30) DEF OwuiInv, AsksInOrder
  <2>4. e \in EventRec
    BY <1>0, <2>3, SaidTypes
  <2>5. e.text = task'.text /\ e.ask = task'.asks /\ e.kind = "content"
    BY DEF Said
  <2>6. Halted' /\ Message(task)'.ask = task'.asks
    BY <1>1, <2>2, <2>3, Bounds DEF Halted, Stops, Past, Message
  <2> HIDE DEF e
  <2>7. QED BY <1>2, <2>1, <2>4, <2>5, <2>6
<1>5. CASE EndTask
  <2> DEFINE e == [Said("content") EXCEPT !.done = TRUE]
  <2>1. Emit(e) /\ task' = [task EXCEPT !.at = "done"]
    BY <1>5 DEF EndTask
  <2>2. task'.at = "done"
    BY <1>0, <2>1 DEF TaskRec
  <2>3. e \in EventRec
    BY <1>0, SaidTypes
  <2>4. e.text = task'.text /\ e.ask = NoAsk /\ e.kind = "content"
    BY DEF Said
  <2>5. Halted' /\ Message(task)'.ask = NoAsk
    BY <2>2 DEF Halted, Stops, Past, Message
  <2> HIDE DEF e
  <2>6. QED BY <1>2, <2>1, <2>3, <2>4, <2>5
<1>6. CASE FailTask
  <2>1. Emit(Said("error")) /\ task' = [task EXCEPT !.at = "failed"]
    BY <1>6 DEF FailTask
  <2>2. task'.at = "failed"
    BY <1>0, <2>1 DEF TaskRec
  <2>3. Said("error") \in EventRec
    BY <1>0, SaidTypes
  <2>4. Said("error").text = task'.text /\ Said("error").ask = NoAsk
        /\ Said("error").kind = "error"
    BY DEF Said
  <2>5. Halted' /\ Message(task)'.ask = NoAsk
    BY <2>2 DEF Halted, Stops, Past, Message
  <2>6. QED BY <1>2, <2>1, <2>3, <2>4, <2>5
<1>7. QED BY <1>3, <1>4, <1>5, <1>6 DEF EmitStep

\* What happens to the events that wait for the reader, and to the reader.
LEMMA EventSteps ==
  ASSUME OwuiInv, OwuiNext, ~Answer
  PROVE  \/ EmitStep /\ reader' = reader
         \/ ReadEvent
         \/ SocketDrops
         \/ /\ events' = events
            /\ \/ reader' = reader
               \/ DialSocket /\ reader' = "on"
<1>0. Moves
  BY NextMoves
<1>1. CASE EmitStep
  <2>1. TaskStep
    BY <1>1 DEF EmitStep, TaskStep
  <2>2. QED BY <1>1, <2>1, TaskSteps
<1>2. CASE Accept \/ AcceptOrphan \/ SubmitOnly \/ GiveUp \/ Respond \/ RequestFails \/ Store
  BY <1>2 DEF Accept, AcceptOrphan, SubmitOnly, GiveUp, Respond, RequestFails, Store, local
<1>3. CASE DialSocket
  BY <1>3 DEF DialSocket
<1>4. CASE RequestRefused \/ TailEnds \/ ReaderDone \/ RequestAwaited \/ OneShot \/ RequestReplied
  BY <1>4 DEF RequestRefused, RequestReplied, TailEnds, ReaderDone, RequestAwaited, OneShot,
              waiting, local
<1>5. CASE ReadStored \/ Finish \/ Poll
  BY <1>5 DEF ReadStored, Finish, Poll, local
<1>6. QED BY <1>0, <1>1, <1>2, <1>3, <1>4, <1>5 DEF Moves, EmitStep

\* The event that is read.
LEMMA Reads ==
  ASSUME OwuiInv, ReadEvent
  PROVE  /\ Head(events) = events[1] /\ Head(events) \in EventRec /\ 1 \in DOMAIN events
         /\ reader = "on" /\ call.at # "returned"
         /\ Len(events') = Len(events) - 1
         /\ DOMAIN events' = 1 .. Len(events) - 1
         /\ \A i \in DOMAIN events' : events'[i] = events[i + 1] /\ i + 1 \in DOMAIN events
         /\ IF Ends(Head(events))
            THEN /\ reader' = "ended" /\ asked' = Message(task).ask /\ Halted
                 /\ events' = <<>>
            ELSE reader' = reader /\ asked' = asked
         /\ UNCHANGED <<setup, call, request, accepted, grace, missed, text, reply, task, stored,
                        orphans, excused>>
<1>1. events \in Seq(EventRec) /\ events # <<>> /\ events' = Tail(events)
  BY DEF OwuiInv, OwuiTypes, ReadEvent
<1>2. Head(events) = events[1] /\ 1 \in DOMAIN events
  BY <1>1
<1>3. /\ Head(events) \in EventRec /\ Tail(events) \in Seq(EventRec)
      /\ Len(Tail(events)) = Len(events) - 1
      /\ \A i \in 1 .. Len(Tail(events)) : Tail(events)[i] = events[i + 1]
  BY <1>1, HeadTailProperties
<1>4. Len(events) \in Nat /\ DOMAIN events = 1 .. Len(events)
  BY <1>1
<1>5. DOMAIN events' = 1 .. Len(events) - 1
  BY <1>1, <1>3
<1>6. \A i \in DOMAIN events' : events'[i] = events[i + 1] /\ i + 1 \in DOMAIN events
  BY <1>1, <1>3, <1>4, <1>5
<1>7. /\ reader' = IF Ends(Head(events)) THEN "ended" ELSE reader
      /\ asked' = IF Ends(Head(events)) THEN Head(events).ask ELSE asked
      /\ UNCHANGED <<setup, call, request, accepted, grace, missed, text, reply, server, excused>>
      /\ reader = "on" /\ call.at # "returned"
  BY DEF ReadEvent
<1>8. Ends(Head(events)) => 1 = Len(events) /\ Halted /\ Head(events).ask = Message(task).ask
  BY <1>2 DEF OwuiInv, ReaderSays
<1>9. Len(events) = 1 => events' = <<>>
  BY <1>1, <1>3, EmptySeq
<1>10. QED BY <1>1, <1>2, <1>3, <1>4, <1>5, <1>6, <1>7, <1>8, <1>9 DEF server

LEMMA ReaderSaysStep ==
  ASSUME OwuiInv, OwuiNext
  PROVE  ReaderSays'
<1>0. /\ \A i \in DOMAIN events :
           Ends(events[i]) => /\ i = Len(events)
                              /\ Halted /\ events[i].ask = Message(task).ask
      /\ reader = "ended" => Halted /\ asked = Message(task).ask
      /\ reader \in {"on", "broken"} => asked = NoAsk
      /\ reader = "off" => events = <<>>
  BY DEF OwuiInv, ReaderSays
<1>1. CASE Answer
  <2>1. Fresh'
    BY <1>1, AnswerSets
  <2>2. reader' = "off" /\ events' = <<>> /\ asked' = NoAsk
    BY <2>1 DEF Fresh
  <2>3. DOMAIN events' = {}
    BY <2>2
  <2>4. QED BY <2>2, <2>3 DEF ReaderSays
<1>2. CASE ~Answer /\ ReadEvent
  <2>1. (Halted <=> Halted') /\ Message(task)' = Message(task)
    BY <1>2, Reads DEF Halted, Past, Message
  <2>2. CASE Ends(Head(events))
    <3>1. reader' = "ended" /\ asked' = Message(task).ask /\ Halted /\ events' = <<>>
      BY <1>2, <2>2, Reads
    <3>2. DOMAIN events' = {}
      BY <3>1
    <3>3. QED BY <2>1, <3>1, <3>2 DEF ReaderSays
  <2>3. CASE ~Ends(Head(events))
    <3>1. reader' = reader /\ asked' = asked /\ reader = "on"
      BY <1>2, <2>3, Reads
    <3>2. ASSUME NEW i \in DOMAIN events', Ends(events'[i])
          PROVE  i = Len(events') /\ Halted' /\ events'[i].ask = Message(task)'.ask
      <4>1. events'[i] = events[i + 1] /\ i + 1 \in DOMAIN events /\ i \in Int
            /\ Len(events') = Len(events) - 1
        BY <1>2, Reads, Bounds
      <4>2. i + 1 = Len(events) /\ Halted /\ events[i + 1].ask = Message(task).ask
        BY <1>0, <3>2, <4>1
      <4>3. QED BY <2>1, <4>1, <4>2, Bounds
    <3>3. \A i \in DOMAIN events' : Ends(events[i])' <=> Ends(events'[i])
      BY DEF Ends
    <3>4. QED BY <1>0, <3>1, <3>2, <3>3 DEF ReaderSays
  <2>4. QED BY <2>2, <2>3
<1>3. CASE ~Answer /\ ~ReadEvent /\ EmitStep
  <2>1. ~Halted /\ reader' = reader /\ asked' = asked
    <3>1. TaskStep
      BY <1>3 DEF EmitStep, TaskStep
    <3>2. QED BY <1>3, <3>1, Emissions, TaskSteps
  <2>2. PICK e \in EventRec : Emit(e) /\ (Ends(e) => Halted' /\ e.ask = Message(task)'.ask)
    BY <1>3, Emissions
  <2>3. \/ /\ reader = "on" /\ Len(events') = Len(events) + 1
           /\ events' \in Seq(EventRec)
           /\ \A i \in 1 .. Len(events) : events'[i] = events[i]
           /\ events'[Len(events) + 1] = e
        \/ events' = events
    BY <2>2, Emitted DEF OwuiInv
  <2>4. ASSUME NEW i \in DOMAIN events', Ends(events'[i])
        PROVE  i = Len(events') /\ Halted' /\ events'[i].ask = Message(task)'.ask
    <3>1. CASE events' = events
      BY <1>0, <2>1, <2>4, <3>1
    <3>2. CASE /\ Len(events') = Len(events) + 1 /\ events' \in Seq(EventRec)
               /\ \A j \in 1 .. Len(events) : events'[j] = events[j]
               /\ events'[Len(events) + 1] = e
      <4>1. i \in 1 .. Len(events) + 1
        BY <3>2
      <4>2. CASE i \in 1 .. Len(events)
        BY <1>0, <2>1, <2>4, <3>2, <4>2, Bounds
      <4>3. CASE i = Len(events) + 1
        <5>1. events'[i] = e /\ i = Len(events')
          BY <3>2, <4>3
        <5>2. Ends(e)
          BY <2>4, <5>1
        <5>3. QED BY <2>2, <5>1, <5>2
      <4>4. QED BY <4>1, <4>2, <4>3, Bounds, SMTT(30)
    <3>3. QED BY <2>3, <3>1, <3>2
  <2>5. reader' # "ended"
    BY <1>0, <2>1
  <2>6. reader' = "off" => events' = <<>>
    BY <1>0, <2>1, <2>3
  <2>7. \A i \in DOMAIN events' : Ends(events[i])' <=> Ends(events'[i])
    BY DEF Ends
  <2>8. QED BY <1>0, <2>1, <2>4, <2>5, <2>6, <2>7 DEF ReaderSays
<1>4. CASE ~Answer /\ ~ReadEvent /\ SocketDrops
  <2>1. events' = <<>> /\ reader' = "broken" /\ asked' = asked /\ reader = "on"
    BY <1>4 DEF SocketDrops
  <2>2. DOMAIN events' = {}
    BY <2>1
  <2>3. QED BY <1>0, <2>1, <2>2 DEF ReaderSays
<1>5. CASE ~Answer /\ ~ReadEvent /\ events' = events /\ reader' \in {reader, "on"}
           /\ (reader' # reader => DialSocket)
  <2>1. Halted => Halted' /\ Message(task)' = Message(task)
    BY <1>5, Steady
  <2>2. \A i \in DOMAIN events' : Ends(events[i])' <=> Ends(events[i])
    BY <1>5 DEF Ends
  <2>3. asked' = asked \/ Poll
    <3>1. asked' = NoAsk /\ asked' # asked => Poll
      <4>1. CASE TaskStep
        BY <4>1, TaskSteps
      <4>2. CASE ~TaskStep
        BY <1>5, <4>2, NextMoves DEF Moves, TaskStep, DialSocket, SubmitOnly, GiveUp, SocketDrops,
           Respond, RequestFails, Store, RequestRefused, RequestReplied, TailEnds, ReaderDone,
           RequestAwaited, OneShot, ReadStored, Finish, waiting, local
      <4>3. QED BY <4>1, <4>2
    <3>2. QED BY <1>5, <3>1, AskedSteps
  <2>4. Poll => reader = "off" /\ reader' = "off"
    BY DEF Poll, OwuiInv, StepSays
  <2>5. DialSocket => reader = "off" /\ asked = NoAsk
    BY DEF DialSocket, OwuiInv, StepSays
  <2>6. reader' = "ended" => Halted' /\ asked' = Message(task)'.ask
    BY <1>0, <1>5, <2>1, <2>3, <2>4
  <2>7. reader' \in {"on", "broken"} => asked' = NoAsk
    <3>1. CASE DialSocket
      <4>1. asked' = asked
        BY <3>1 DEF DialSocket
      <4>2. QED BY <2>5, <3>1, <4>1
    <3>2. CASE ~DialSocket
      BY <1>0, <1>5, <2>3, <2>4, <3>2
    <3>3. QED BY <3>1, <3>2
  <2>8. \A i \in DOMAIN events' :
          Ends(events[i])' => /\ i = Len(events')
                              /\ Halted' /\ events'[i].ask = Message(task)'.ask
    BY <1>0, <1>5, <2>1, <2>2
  <2>9. reader' = "off" => events' = <<>>
    BY <1>0, <1>5
  <2>10. QED BY <2>6, <2>7, <2>8, <2>9 DEF ReaderSays
<1>6. QED BY <1>1, <1>2, <1>3, <1>4, <1>5, EventSteps

-----------------------------------------------------------------------------
(* The steps of a call.                                                    *)

LEMMA SaysNow ==
  ASSUME OwuiInv
  PROVE  /\ call.at = "start" => Fresh
         /\ call.at = "socket" => {"token", "stream"} \subseteq setup /\ (accepted => Background)
         /\ call.at = "one shot" => "stream" \notin setup
         /\ call.at \in {"start", "poll", "one shot"} => reader = "off" /\ asked = NoAsk
         /\ call.at \in {"socket", "tail", "wait", "read"} => reader # "off"
         /\ call.at = "tail" => request = "replied" /\ ~Background
         /\ call.at \in {"read", "finish"} /\ "early" \notin excused => Past
         /\ call.at = "read" /\ excused = {} => Halted
         /\ call.at = "finish" /\ "early" \notin excused /\ asked # NoAsk
              => asked = Message(task).ask
         /\ call.at = "finish" /\ excused = {}
              => Halted /\ stored = task /\ task.at # "failed" /\ text = task.text
         /\ call.at # "returned" => reply = NoReply
         /\ reply.ask # NoAsk => reply.how = "reply"
         /\ reply.how = "reply" /\ excused = {} => Halted
BY DEF OwuiInv, StepSays

\* Steps of others, while the call is where it is.
LEMMA AsideStep ==
  ASSUME OwuiInv, OwuiNext,
         TaskStep \/ Store \/ Respond \/ RequestFails \/ ReadEvent \/ SocketDrops
  PROVE  StepSays'
<1>0. ~Answer /\ call' = call
  <2>1. call' = call
    BY TaskSteps DEF Store, Respond, RequestFails, ReadEvent, SocketDrops
  <2>2. ~Answer
    BY <2>1, AnswerSets
  <2>3. QED BY <2>1, <2>2
<1>1. UNCHANGED <<setup, accepted, text, reply, excused, grace>>
  BY TaskSteps DEF Store, Respond, RequestFails, ReadEvent, SocketDrops, local
<1>2. /\ Halted => Halted' /\ task' = task /\ Message(task)' = Message(task)
      /\ Past => Past'
      /\ stored = task /\ Halted => stored' = stored
  BY <1>0, Steady
<1>3. \/ reader = "on" /\ reader' # "off" /\ (ReadEvent \/ SocketDrops)
      \/ ~ReadEvent /\ UNCHANGED <<reader, asked, seen, pushed>>
      \/ SocketDrops /\ reader = "on" /\ reader' # "off"
  <2>1. CASE ReadEvent
    BY <2>1, Reads
  <2>2. CASE SocketDrops
    BY <2>2 DEF SocketDrops
  <2>3. CASE ~ReadEvent /\ ~SocketDrops
    BY <2>3, TaskSteps DEF Store, Respond, RequestFails, local
  <2>4. QED BY <2>1, <2>2, <2>3
<1>4. call'.at = "start" => Fresh'
  <2>1. ReaderSays' /\ RequestSays'
    BY ReaderSaysStep, RequestSaysStep
  <2>2. SUFFICES ASSUME call.at = "start" PROVE Fresh'
    BY <1>0
  <2>3. Fresh /\ reader = "off"
    BY <2>2, SaysNow
  <2>4. UNCHANGED <<reader, asked, seen, pushed>>
    BY <1>3, <2>3
  <2>5. events' = <<>> /\ request' = "none"
    BY <1>0, <2>1, <2>2, <2>3, <2>4 DEF ReaderSays, RequestSays
  <2>6. missed' = missed
    <3>1. CASE EmitStep
      <4>1. \E e \in EventRec : Emit(e)
        BY <3>1, Emissions
      <4>2. QED BY <2>3, <4>1, Emitted DEF OwuiInv
    <3>2. CASE Store \/ Respond \/ RequestFails \/ ReadEvent \/ SocketDrops \/ Accept \/ AcceptOrphan
      BY <3>2 DEF Store, Respond, RequestFails, ReadEvent, SocketDrops, Accept, AcceptOrphan, local
    <3>3. QED BY <3>1, <3>2 DEF TaskStep, EmitStep
  <2>7. QED BY <1>1, <2>3, <2>4, <2>5, <2>6 DEF Fresh
<1>5. /\ call'.at = "socket" => {"token", "stream"} \subseteq setup' /\ (accepted' => Background')
      /\ call'.at = "one shot" => "stream" \notin setup'
  BY <1>0, <1>1, SaysNow DEF Background
<1>6. call'.at \in {"start", "poll", "one shot"} => reader' = "off" /\ asked' = NoAsk
  BY <1>0, <1>3, SaysNow
<1>7. call'.at \in {"socket", "tail", "wait", "read"} => reader' # "off"
  BY <1>0, <1>3, SaysNow
<1>8. call'.at = "tail" => request' = "replied" /\ ~Background'
  <2>1. request = "replied" => request' = "replied"
    BY <1>0, RequestSteps DEF OwuiInv, RequestSays
  <2>2. QED BY <1>0, <1>1, <2>1, SaysNow DEF Background
<1>9. /\ call'.at \in {"read", "finish"} /\ "early" \notin excused' => Past'
      /\ call'.at = "read" /\ excused' = {} => Halted'
  BY <1>0, <1>1, <1>2, SaysNow
<1>10. call'.at = "finish" /\ "early" \notin excused' /\ asked' # NoAsk
         => asked' = Message(task)'.ask
  <2>1. SUFFICES ASSUME call.at = "finish", "early" \notin excused, asked' # NoAsk
                 PROVE  asked' = Message(task)'.ask
    BY <1>0, <1>1
  <2>2. CASE asked' = asked
    <3>1. asked = Message(task).ask /\ Past
      BY <2>1, <2>2, SaysNow
    <3>2. task.at = "asked"
      BY <2>1, <2>2, <3>1, StoredQuestion
    <3>3. Halted
      BY <3>1, <3>2 DEF Halted, Stops
    <3>4. QED BY <1>2, <2>2, <3>1, <3>3
  <2>3. CASE asked' # asked
    <3>1. asked' = Message(task).ask /\ task' = task
      BY <1>0, <2>1, <2>3, AskedSteps
    <3>2. QED BY <3>1 DEF Message
  <2>4. QED BY <2>2, <2>3
<1>11. call'.at = "finish" /\ excused' = {}
         => Halted' /\ stored' = task' /\ task'.at # "failed" /\ text' = task'.text
  BY <1>0, <1>1, <1>2, SaysNow
<1>12. /\ call'.at # "returned" => reply' = NoReply
       /\ reply'.ask # NoAsk => reply'.how = "reply"
       /\ reply'.how = "reply" /\ excused' = {} => Halted'
  BY <1>0, <1>1, <1>2, SaysNow
<1>13. QED BY <1>4, <1>5, <1>6, <1>7, <1>8, <1>9, <1>10, <1>11, <1>12 DEF StepSays

\* Steps of the call leave the task as it is.
LEMMA OwnSteps ==
  ASSUME UNCHANGED <<task, stored, setup>>, call'.ask = call.ask
  PROVE  /\ (Halted' <=> Halted) /\ (Past' <=> Past) /\ (Background' <=> Background)
         /\ Message(task)' = Message(task)
BY DEF Halted, Past, Background, Message

\* A call that returns.
LEMMA ReturningSays ==
  ASSUME call'.at = "returned",
         reply'.ask # NoAsk => reply'.how = "reply",
         reply'.how = "reply" /\ excused' = {} => Halted'
  PROVE  StepSays'
BY DEF StepSays

LEMMA ErrorSays ==
  ASSUME OwuiInv, Return("error", 0, NoAsk)
  PROVE  StepSays'
<1>1. call'.at = "returned"
  BY At DEF OwuiInv, Return
<1>2. reply'.ask = NoAsk /\ reply'.how = "error"
  BY DEF Return
<1>3. QED BY <1>1, <1>2, ReturningSays

\* Making the request.
LEMMA SubmitSays ==
  ASSUME OwuiInv, OwuiNext, DialSocket \/ SubmitOnly
  PROVE  StepSays'
<1>1. call.at = "start" /\ Fresh
  BY SaysNow DEF DialSocket, SubmitOnly
<1>2. /\ UNCHANGED <<setup, accepted, asked, reply>>
      /\ \/ Goto("socket") /\ reader' = "on" /\ {"token", "stream"} \subseteq setup
         \/ Goto("poll") /\ reader' = reader
         \/ Goto("one shot") /\ reader' = reader /\ "stream" \notin setup
  BY DEF DialSocket, SubmitOnly, Submit, local
<1>3. accepted = FALSE /\ asked = NoAsk /\ reader = "off" /\ reply = NoReply
  BY <1>1 DEF Fresh
<1>4. \/ call'.at = "socket" /\ reader' = "on" /\ {"token", "stream"} \subseteq setup
      \/ call'.at = "poll" /\ reader' = reader
      \/ call'.at = "one shot" /\ reader' = reader /\ "stream" \notin setup
  BY <1>2, At DEF OwuiInv
<1>5. reply'.ask = NoAsk /\ reply'.how = "none"
  BY <1>2, <1>3 DEF NoReply
<1>6. QED BY <1>2, <1>3, <1>4, <1>5 DEF StepSays


\* Waiting: steps that leave what is known of the text alone.
LEMMA WaitSays ==
  ASSUME OwuiInv,
         RequestReplied \/ TailEnds \/ ReaderDone \/ RequestAwaited
  PROVE  StepSays'
<1>1. /\ UNCHANGED <<setup, request, reader, asked, text, reply, task, stored>>
      /\ call.at \in {"socket", "tail", "wait"}
  BY DEF RequestReplied, TailEnds, ReaderDone, RequestAwaited, waiting, local, server
<1>2. \/ RequestReplied /\ Goto(AfterRequest)
      \/ TailEnds /\ Goto("read")
      \/ ReaderDone /\ reader = "ended" /\ Goto("read")
      \/ ReaderDone /\ reader = "broken" /\ Goto(AfterBreak)
      \/ RequestAwaited /\ Goto("read")
  BY DEF RequestReplied, TailEnds, ReaderDone, RequestAwaited
<1>3. /\ call'.ask = call.ask
      /\ \/ RequestReplied /\ call'.at = AfterRequest
         \/ TailEnds /\ call'.at = "read"
         \/ ReaderDone /\ reader = "ended" /\ call'.at = "read"
         \/ ReaderDone /\ reader = "broken" /\ call'.at = AfterBreak
         \/ RequestAwaited /\ call'.at = "read"
  BY <1>2, At DEF OwuiInv
<1>4. (Halted' <=> Halted) /\ (Past' <=> Past) /\ (Background' <=> Background)
  BY <1>1, <1>3, OwnSteps
<1>5. reader # "off" /\ reply = NoReply
  BY <1>1, SaysNow
<1>6. /\ request = "replied" => Past
      /\ request = "replied" /\ ~Background => Halted
      /\ accepted => request = "replied"
      /\ reader = "ended" => Halted
      /\ Halted => Past
  BY DEF OwuiInv, RequestSays, ReaderSays, Halted
<1>7. CASE RequestReplied
  <2>1. call.at = "socket" /\ request = "replied" /\ excused' = excused
        /\ {"token", "stream"} \subseteq setup
    BY <1>7, SaysNow DEF RequestReplied
  <2>2. \/ call'.at = "socket" /\ Background
        \/ call'.at = "tail" /\ ~Background
    BY <1>7, <1>2, At DEF RequestReplied, AfterRequest, OwuiInv
  <2>3. QED BY <1>1, <1>4, <1>5, <2>1, <2>2 DEF StepSays, NoReply
<1>8. CASE call'.at = "read"
  <2>1. excused \subseteq excused' /\ (TailEnds \/ ReaderDone \/ RequestAwaited)
    BY <1>3, <1>8 DEF TailEnds, ReaderDone, RequestAwaited, Pardon, RequestReplied, AfterRequest
  <2>2. Past /\ (excused' = {} => Halted)
    <3>1. CASE TailEnds
      <4>1. request = "replied" /\ ~Background
        BY <3>1, SaysNow DEF TailEnds
      <4>2. QED BY <1>6, <4>1
    <3>2. CASE ReaderDone /\ reader = "ended"
      BY <1>6, <3>2
    <3>3. CASE ReaderDone /\ reader = "broken"
      <4>1. Goto(AfterBreak)
        BY <3>3 DEF ReaderDone
      <4>2. call'.at = AfterBreak
        BY <4>1, At DEF OwuiInv
      <4>3. accepted
        BY <1>8, <4>2 DEF AfterBreak
      <4>4. excused' # {}
        BY <3>3, <4>3 DEF ReaderDone, Pardon
      <4>5. QED BY <1>6, <4>3, <4>4
    <3>4. CASE RequestAwaited
      BY <1>6, <3>4 DEF RequestAwaited, Pardon
    <3>5. ReaderDone => reader \in {"ended", "broken"}
      BY DEF ReaderDone
    <3>6. QED BY <2>1, <3>1, <3>2, <3>3, <3>4, <3>5
  <2>3. QED BY <1>1, <1>4, <1>5, <1>8, <2>2 DEF StepSays, NoReply
<1>9. CASE call'.at = "wait"
  BY <1>1, <1>5, <1>9 DEF StepSays, NoReply
<1>10. QED BY <1>3, <1>7, <1>8, <1>9 DEF AfterBreak

LEMMA ReadStoredSays ==
  ASSUME OwuiInv, ReadStored
  PROVE  StepSays'
<1>1. /\ UNCHANGED <<setup, request, reader, asked, pushed, task, stored>>
      /\ call.at = "read"
  BY DEF ReadStored, server
<1>2. CASE Return("error", 0, NoAsk)
  BY <1>2, ErrorSays
<1>3. CASE ~Return("error", 0, NoAsk)
  <2>1. /\ Goto("finish") /\ reply' = reply
        /\ \/ /\ text' = IF stored.text > 0 THEN stored.text ELSE Len(pushed)
              /\ ~Message(stored).failed
              /\ excused' = excused \cup Lag
           \/ Pardon("unread")
    BY <1>3 DEF ReadStored
  <2>2. call'.at = "finish" /\ call'.ask = call.ask
    BY <2>1, At DEF OwuiInv
  <2>3. /\ (Halted' <=> Halted) /\ (Past' <=> Past)
        /\ Message(task)' = Message(task)
    BY <1>1, <2>2, OwnSteps
  <2>4. reply = NoReply /\ reader # "off" /\ excused \subseteq excused'
    BY <1>1, <2>1, SaysNow DEF Pardon
  <2>5. /\ "early" \notin excused' => Past
        /\ excused' = {} => Halted
    BY <1>1, <2>4, SaysNow
  <2>6. asked # NoAsk => asked = Message(task).ask
    BY <2>4 DEF OwuiInv, ReaderSays, OwuiTypes
  <2>7. ASSUME excused' = {}
        PROVE  stored = task /\ task.at # "failed" /\ text' = task.text
    <3>1. /\ text' = IF stored.text > 0 THEN stored.text ELSE Len(pushed)
          /\ ~Message(stored).failed /\ Lag = {}
      BY <2>1, <2>7 DEF Pardon
    <3>2. stored = task
      BY <2>5, <2>7, <3>1 DEF Lag, Halted, Stops
    <3>3. task.at # "failed"
      BY <3>1, <3>2 DEF Message
    <3>4. Len(pushed) <= task.text
      BY DEF OwuiInv, TextsInOrder
    <3>5. QED BY <3>1, <3>2, <3>3, <3>4, Bounds
  <2>8. reply'.ask = NoAsk /\ reply'.how = "none"
    BY <2>1, <2>4 DEF NoReply
  <2>9. QED BY <1>1, <2>1, <2>2, <2>3, <2>4, <2>5, <2>6, <2>7, <2>8 DEF StepSays
<1>4. QED BY <1>2, <1>3

LEMMA PollSays ==
  ASSUME OwuiInv, Poll
  PROVE  StepSays'
<1>1. /\ UNCHANGED <<setup, request, reader, task, stored>>
      /\ call.at = "poll"
  BY DEF Poll, server
<1>2. PICK g : Look(g) /\ (g = grace \/ (request = "replied" /\ ~Background))
  BY DEF Poll
<1>3. reply = NoReply /\ reader = "off" /\ asked = NoAsk
  BY <1>1, SaysNow
<1>4. reply.ask = NoAsk /\ reply.how = "none"
  BY <1>3 DEF NoReply
<1>5. CASE Return("error", 0, NoAsk)
  BY <1>5, ErrorSays
<1>6. CASE UNCHANGED <<call, reply, asked>>
  BY <1>1, <1>3, <1>4, <1>6 DEF StepSays
<1> DEFINE over == Message(stored).done \/ Message(stored).ask # NoAsk
<1>7. CASE /\ ~Message(stored).failed /\ asked' = Message(stored).ask /\ text' = stored.text
           /\ reply' = reply
           /\ IF over \/ g = 0 THEN Goto("finish") ELSE UNCHANGED call
           /\ excused' = excused
                \cup (IF g = 0 /\ ~over THEN Lag ELSE {})
                \cup (IF asked' = call.ask /\ call.ask # NoAsk THEN {"early"} ELSE {})
  <2>1. /\ IF over \/ g = 0 THEN Goto("finish") ELSE UNCHANGED call
        /\ excused' = excused
             \cup (IF g = 0 /\ ~over THEN Lag ELSE {})
             \cup (IF asked' = call.ask /\ call.ask # NoAsk THEN {"early"} ELSE {})
    BY <1>7
  <2>2. CASE ~over /\ g # 0
    <3>1. call' = call /\ asked' = NoAsk
      BY <1>7, <2>1, <2>2
    <3>2. QED BY <1>1, <1>3, <1>4, <1>7, <3>1 DEF StepSays
  <2>3. CASE over \/ g = 0
    <3>1. call'.at = "finish" /\ call'.ask = call.ask
      BY <2>1, <2>3, At DEF OwuiInv
    <3>2. /\ (Halted' <=> Halted) /\ (Past' <=> Past)
          /\ Message(task)' = Message(task)
      BY <1>1, <3>1, OwnSteps
    <3>3. over => stored = task /\ stored.at \in {"done", "asked"}
      <4>1. over => stored.at \in {"done", "asked"}
        BY DEF Message
      <4>2. QED BY <4>1, StoredQuestion DEF Stops
    <3>4. ~over => Halted
      <4>1. grace \in Nat /\ Grace \in Nat
        BY Bounds DEF OwuiInv, OwuiTypes
      <4>2. ~over => request = "replied" /\ ~Background
        BY <1>2, <2>3, <4>1 DEF OwuiInv, RequestSays
      <4>3. QED BY <4>2 DEF OwuiInv, RequestSays
    <3>5. asked' # NoAsk => asked' = Message(task).ask
      BY <1>7, StoredQuestion
    <3>6. "early" \notin excused' => Past
      <4>1. CASE ~over
        BY <3>4, <4>1 DEF Halted
      <4>2. CASE over /\ stored.at = "done"
        BY <3>3, <4>2 DEF Past
      <4>3. CASE over /\ stored.at = "asked"
        <5>1. asked' = task.asks /\ call.ask <= task.asks
          BY <1>7, <3>3, <4>3 DEF Message, OwuiInv, AsksInOrder
        <5>2. over => asked' # NoAsk
          BY <1>7, <4>3 DEF Message
        <5>3. "early" \notin excused' => asked' # call.ask \/ call.ask = NoAsk
          BY <2>1
        <5>4. QED BY <4>3, <5>1, <5>2, <5>3, Bounds DEF Past
      <4>4. QED BY <3>3, <4>1, <4>2, <4>3
    <3>7. ASSUME excused' = {}
          PROVE  Halted /\ stored = task /\ task.at # "failed" /\ text' = task.text
      <4>1. CASE over
        <5>1. stored = task /\ task.at \in {"done", "asked"}
          BY <3>3, <4>1
        <5>2. QED BY <1>7, <3>6, <3>7, <5>1 DEF Halted, Stops
      <4>2. CASE ~over
        <5>1. Lag = {} /\ Halted
          BY <2>1, <2>3, <3>4, <3>7, <4>2
        <5>2. stored = task
          BY <5>1 DEF Lag, Halted, Stops
        <5>3. QED BY <1>7, <5>1, <5>2 DEF Message
      <4>3. QED BY <4>1, <4>2
    <3> HIDE DEF over
    <3>8. QED BY <1>1, <1>3, <1>4, <1>7, <3>1, <3>2, <3>5, <3>6, <3>7 DEF StepSays
  <2>4. QED BY <2>2, <2>3
<1>8. QED BY <1>2, <1>5, <1>6, <1>7 DEF Look

LEMMA StepSaysStep ==
  ASSUME OwuiInv, OwuiNext
  PROVE  StepSays'
<1>0. Moves
  BY NextMoves
<1>1. CASE TaskStep \/ Store \/ Respond \/ RequestFails \/ ReadEvent \/ SocketDrops
  BY <1>1, AsideStep
<1>2. CASE DialSocket \/ SubmitOnly
  BY <1>2, SubmitSays
<1>3. CASE RequestReplied \/ TailEnds \/ ReaderDone \/ RequestAwaited
  BY <1>3, WaitSays
<1>4. CASE ReadStored \/ Poll
  BY <1>4, ReadStoredSays, PollSays
<1>5. CASE RequestRefused \/ GiveUp
  BY <1>5, ErrorSays DEF RequestRefused, GiveUp
<1>6. CASE OneShot
  <2>1. CASE Return("error", 0, NoAsk)
    BY <2>1, ErrorSays
  <2>2. CASE Return("reply", task.text, NoAsk)
    <3>1. call'.at = "returned" /\ call'.ask = call.ask
      BY <2>2, At DEF Return, OwuiInv
    <3>2. reply'.ask = NoAsk
      BY <2>2 DEF Return
    <3>3. UNCHANGED <<task, stored, setup>>
      BY <1>6 DEF OneShot, waiting, server
    <3>4. Halted
      <4>1. request = "replied" /\ "stream" \notin setup
        BY <1>6, SaysNow DEF OneShot
      <4>2. QED BY <4>1 DEF OwuiInv, RequestSays, Background
    <3>5. QED BY <3>1, <3>2, <3>3, <3>4, OwnSteps, ReturningSays
  <2>3. QED BY <1>6, <2>1, <2>2 DEF OneShot
<1>7. CASE Finish
  <2>1. /\ call'.at = "returned" /\ call'.ask = call.ask /\ reply'.how = "reply"
        /\ UNCHANGED <<task, stored, setup>>
        /\ excused' = {} => Halted
    BY <1>7, Finishes DEF server
  <2>2. QED BY <2>1, OwnSteps, ReturningSays
<1>8. CASE Answer
  <2>1. call'.at = "start" /\ Fresh'
    BY <1>8, AnswerSets
  <2>2. reader' = "off" /\ asked' = NoAsk /\ reply' = NoReply
    BY <2>1 DEF Fresh
  <2>3. reply'.ask = NoAsk /\ reply'.how = "none"
    BY <2>2 DEF NoReply
  <2>4. QED BY <2>1, <2>2, <2>3 DEF StepSays
<1>9. QED BY <1>0, <1>1, <1>2, <1>3, <1>4, <1>5, <1>6, <1>7, <1>8 DEF Moves, TaskStep

\* A reply that is given stays.
LEMMA ReplyStays ==
  ASSUME OwuiInv, OwuiNext, reply'.how = "reply"
  PROVE  ~Answer /\ (Finish \/ OneShot \/ (reply' = reply /\ excused' = excused))
<1>1. ~Answer
  <2>1. ASSUME Answer PROVE FALSE
    <3>1. reply' = NoReply
      BY <2>1 DEF Answer
    <3>2. QED BY <3>1 DEF NoReply
  <2>2. QED BY <2>1
<1>2. CASE reply' = reply
  <2>1. call.at = "returned"
    <3>1. reply # NoReply
      BY <1>2 DEF NoReply
    <3>2. QED BY <3>1, SaysNow
  <2>2. CASE TaskStep
    BY <1>1, <1>2, <2>2, TaskSteps
  <2>3. CASE ~TaskStep
    <3>1. Store \/ ReadEvent \/ SocketDrops \/ Respond \/ RequestFails
      BY <1>1, <2>1, <2>3, NextMoves DEF Moves, TaskStep, DialSocket, SubmitOnly, RequestRefused,
         RequestReplied, TailEnds, ReaderDone, RequestAwaited, ReadStored, Poll, OneShot, Finish,
         GiveUp
    <3>2. excused' = excused
      BY <3>1 DEF Store, ReadEvent, SocketDrops, Respond, RequestFails
    <3>3. QED BY <1>1, <1>2, <3>2
  <2>4. QED BY <2>2, <2>3
<1>3. CASE reply' # reply
  <2>1. [how |-> "error", text |-> 0, ask |-> NoAsk].how # "reply"
    OBVIOUS
  <2>2. QED BY <1>1, <1>3, <2>1, ReplySteps
<1>4. QED BY <1>2, <1>3

LEMMA ReplyTellsTheEndStep ==
  ASSUME OwuiInv, OwuiNext
  PROVE  ReplyTellsTheEnd'
<1> SUFFICES ASSUME reply'.how = "reply", excused' = {}
             PROVE  /\ task'.at \in {"done", "asked"}
                    /\ reply'.text = task'.text
                    /\ reply'.ask = Message(task)'.ask
  BY DEF ReplyTellsTheEnd
<1>1. ~Answer /\ (Finish \/ OneShot \/ (reply' = reply /\ excused' = excused))
  BY ReplyStays
<1>2. CASE Finish
  <2>1. /\ task' = task /\ reply'.text = text /\ task.at \in {"done", "asked"}
        /\ text = task.text /\ reply'.ask = Message(task).ask
    BY <1>2, Finishes DEF server
  <2>2. QED BY <2>1 DEF Message
<1>3. CASE OneShot
  <2>1. task' = task /\ request = "replied" /\ "stream" \notin setup
    BY <1>3, SaysNow DEF OneShot, waiting, server
  <2>2. Halted /\ task.asks = 0
    BY <2>1 DEF OwuiInv, RequestSays, Background, AsksInOrder
  <2>3. Return("reply", task.text, NoAsk) /\ task.at # "failed"
    <3>1. Return("error", 0, NoAsk) => reply'.how = "error"
      BY DEF Return
    <3>2. QED BY <1>3, <3>1 DEF OneShot
  <2>4. reply'.text = task.text /\ reply'.ask = NoAsk
    BY <2>3 DEF Return
  <2>5. task.at = "done"
    <3>1. ~(0 > call.ask)
      BY Bounds
    <3>2. QED BY <2>2, <2>3, <3>1 DEF Halted, Stops, Past
  <2>6. QED BY <2>1, <2>4, <2>5 DEF Message
<1>4. CASE reply' = reply /\ excused' = excused
  <2>1. Halted /\ ReplyTellsTheEnd
    BY <1>4, SaysNow DEF OwuiInv
  <2>2. task' = task /\ Message(task)' = Message(task)
    BY <1>1, <2>1, Steady
  <2>3. QED BY <1>4, <2>1, <2>2 DEF ReplyTellsTheEnd
<1>5. QED BY <1>1, <1>2, <1>3, <1>4

LEMMA AskedOnceStep ==
  ASSUME OwuiInv, OwuiNext
  PROVE  AskedOnce'
<1> SUFFICES ASSUME reply'.ask # NoAsk, "early" \notin excused'
             PROVE  reply'.ask > call'.ask
  BY DEF AskedOnce
<1>1. reply'.how = "reply"
  BY StepSaysStep DEF StepSays
<1>2. ~Answer /\ (Finish \/ OneShot \/ (reply' = reply /\ excused' = excused))
  BY <1>1, ReplyStays
<1>3. call'.ask = call.ask
  BY <1>2, SameCall
<1>4. CASE Finish
  <2>1. call.ask < reply'.ask
    BY <1>4, Finishes
  <2>2. call.ask \in Nat /\ reply'.ask \in Nat
    <3>1. reply' \in ReplyRec
      BY TypesStep DEF OwuiTypes
    <3>2. QED BY <3>1, Bounds, SMTT(30) DEF ReplyRec, Ask, NoAsk
  <2>3. QED BY <1>3, <2>1, <2>2
<1>5. CASE OneShot
  <2>1. \A said : Return("reply", said, NoAsk) => reply'.ask = NoAsk
    BY DEF Return
  <2>2. \A said : Return("error", said, NoAsk) => reply'.ask = NoAsk
    BY DEF Return
  <2>3. QED BY <1>5, <2>1, <2>2 DEF OneShot
<1>6. CASE reply' = reply /\ excused' = excused
  BY <1>3, <1>6 DEF OwuiInv, AskedOnce
<1>7. QED BY <1>2, <1>4, <1>5, <1>6

-----------------------------------------------------------------------------
(* The text.                                                               *)

\* Only what is read changes what was seen.
LEMMA UnheardSteps ==
  ASSUME OwuiInv, OwuiNext, ~Answer, ~ReadEvent, ~Poll
  PROVE  UNCHANGED <<seen, pushed>>
<1>0. Moves
  BY NextMoves
<1>1. CASE TaskStep
  BY <1>1, TaskSteps
<1>2. CASE DialSocket \/ SubmitOnly \/ GiveUp \/ SocketDrops \/ Respond \/ RequestFails \/ Store
  BY <1>2 DEF DialSocket, SubmitOnly, GiveUp, SocketDrops, Respond, RequestFails, Store, local
<1>3. CASE RequestRefused \/ TailEnds \/ ReaderDone \/ RequestAwaited \/ OneShot \/ RequestReplied
  BY <1>3 DEF RequestRefused, RequestReplied, TailEnds, ReaderDone, RequestAwaited, OneShot,
              waiting, local
<1>4. CASE ReadStored \/ Finish
  BY <1>4 DEF ReadStored, Finish, local
<1>5. QED BY <1>0, <1>1, <1>2, <1>3, <1>4 DEF Moves, TaskStep

\* Polling begins with the request.
LEMMA PollBegins ==
  ASSUME OwuiInv, OwuiNext, ~Answer, call'.at = "poll", call.at # "poll"
  PROVE  Fresh /\ UNCHANGED <<seen, pushed>>
<1>0. Moves /\ OwuiTypes
  BY NextMoves DEF OwuiInv
<1>1. CASE DialSocket \/ SubmitOnly
  <2>1. call.at = "start" /\ UNCHANGED <<seen, pushed>>
    BY <1>1 DEF DialSocket, SubmitOnly, local
  <2>2. QED BY <2>1, SaysNow
<1>2. CASE TaskStep \/ Store \/ Respond \/ RequestFails \/ ReadEvent \/ SocketDrops
  BY <1>2, TaskSteps DEF Store, Respond, RequestFails, ReadEvent, SocketDrops
<1>3. CASE RequestRefused \/ RequestReplied \/ TailEnds \/ ReaderDone \/ RequestAwaited \/ OneShot
           \/ ReadStored \/ Finish \/ GiveUp
  <2>1. \E step \in {"returned", "socket", "tail", "read", "wait", "finish"} : Goto(step)
    BY <1>3 DEF RequestRefused, RequestReplied, TailEnds, ReaderDone, RequestAwaited, OneShot,
                ReadStored, Finish, GiveUp, Return, AfterRequest, AfterBreak
  <2>2. QED BY <1>0, <2>1, At
<1>4. CASE Poll
  BY <1>4 DEF Poll
<1>5. QED BY <1>0, <1>1, <1>2, <1>3, <1>4 DEF Moves, TaskStep

\* A text that counts from one goes on.
LEMMA CountsOn ==
  ASSUME NEW s \in Seq(Nat), s = UpTo(Len(s))
  PROVE  Append(s, Len(s) + 1) = UpTo(Len(s) + 1)
<1> DEFINE t == Append(s, Len(s) + 1)
<1>1. Len(s) \in Nat /\ Len(s) + 1 \in Nat
  OBVIOUS
<1>2. /\ t \in Seq(Nat) /\ Len(t) = Len(s) + 1
      /\ \A i \in 1 .. Len(s) : t[i] = s[i]
      /\ t[Len(s) + 1] = Len(s) + 1
  BY <1>1, AppendProperties
<1>3. \A i \in 1 .. Len(s) : s[i] = i
  BY <1>1, UpToSeq
<1> HIDE DEF t
<1>4. \A i \in 1 .. Len(t) : t[i] = i
  BY <1>1, <1>2, <1>3
<1>5. t = UpTo(Len(t))
  BY <1>2, <1>4, CountsUp
<1>6. QED BY <1>2, <1>5 DEF t

\* What one event adds to the text.
LEMMA Hears ==
  ASSUME OwuiInv, ReadEvent
  PROVE  /\ Len(pushed') \in Nat /\ Len(seen') \in Nat
         /\ Len(pushed') <= Len(seen')
         /\ Len(pushed') <= Head(events).text
         /\ call.nr = 0 /\ ~missed
              => /\ seen' = UpTo(Len(seen')) /\ pushed' = seen'
                 /\ Ends(Head(events)) \/ Len(pushed') = Head(events).text
<1> DEFINE e == Head(events)
<1>1. /\ e = events[1] /\ e \in EventRec /\ 1 \in DOMAIN events
  BY Reads
<1>2. /\ \/ e.kind = "delta" /\ Hear(e.text)
         \/ e.kind = "content" /\ e.ask = NoAsk /\ Accumulate(UpTo(e.text))
         \/ Ends(e) /\ UNCHANGED <<seen, pushed>>
  <2>1. \/ e.kind = "delta" /\ Hear(e.text)
        \/ e.kind = "content" /\ e.ask = NoAsk /\ Accumulate(UpTo(e.text))
        \/ /\ e.kind # "delta" /\ ~(e.kind = "content" /\ e.ask = NoAsk)
           /\ UNCHANGED <<seen, pushed>>
    BY DEF ReadEvent
  <2>2. e.kind \in {"delta", "content", "error"}
    BY <1>1 DEF EventRec
  <2>3. QED BY <2>1, <2>2 DEF Ends
<1>3. /\ Len(pushed) <= Len(seen) /\ Len(pushed) <= e.text
      /\ e.kind = "delta" => Len(pushed) < e.text
      /\ call.nr = 0 /\ ~missed
           => /\ seen = UpTo(Len(seen)) /\ pushed = seen
              /\ e.kind = "delta" => e.text = Len(pushed) + 1
  BY <1>1 DEF OwuiInv, TextsInOrder, FromTheBeginning, Before
<1>4. e.text \in 0 .. C /\ C \in Nat /\ e.text \in Nat
  BY <1>1, OwuiAssumption DEF EventRec
<1>5. seen \in Seq(Chunk) /\ pushed \in Seq(Chunk) /\ Len(pushed) \in Nat /\ Len(seen) \in Nat
  BY Bounds DEF OwuiInv, OwuiTypes
<1> HIDE DEF e
<1>6. CASE e.kind = "delta" /\ Hear(e.text)
  <2>1. pushed' = Append(pushed, e.text) /\ seen' = pushed'
    BY <1>6 DEF Hear
  <2>2. e.text \in Chunk
    BY <1>3, <1>4, <1>5, <1>6 DEF Chunk
  <2>3. Len(pushed') = Len(pushed) + 1
    BY <1>5, <2>1, <2>2, AppendProperties
  <2>4. call.nr = 0 /\ ~missed => pushed' = UpTo(Len(pushed'))
    <3>1. pushed \in Seq(Nat)
      BY <1>4, <1>5 DEF Chunk
    <3>2. call.nr = 0 /\ ~missed => pushed' = Append(pushed, Len(pushed) + 1) /\ pushed = UpTo(Len(pushed))
      BY <1>3, <1>6, <2>1
    <3>3. QED BY <2>3, <3>1, <3>2, CountsOn
  <2>5. QED BY <1>3, <1>4, <1>5, <1>6, <2>1, <2>3, <2>4 DEF e
<1>7. CASE e.kind = "content" /\ e.ask = NoAsk /\ Accumulate(UpTo(e.text))
  <2>1. /\ seen' = UpTo(e.text) /\ Len(seen') = e.text
        /\ pushed' \in Seq(Chunk)
        /\ Len(pushed') <= e.text \/ Len(pushed') = Len(pushed)
        /\ pushed = seen /\ seen = UpTo(Len(seen)) /\ Len(seen) <= e.text
             => pushed' = UpTo(e.text)
    BY <1>3, <1>4, <1>5, <1>7, Accumulated
  <2>2. Len(pushed') \in Nat /\ Len(pushed') <= e.text
    BY <1>3, <2>1
  <2>3. call.nr = 0 /\ ~missed => pushed' = seen' /\ Len(pushed') = e.text
    BY <1>3, <2>1
  <2>4. QED BY <1>4, <2>1, <2>2, <2>3 DEF e
<1>8. CASE Ends(e) /\ UNCHANGED <<seen, pushed>>
  BY <1>3, <1>5, <1>8 DEF e
<1>9. QED BY <1>2, <1>6, <1>7, <1>8

\* What one poll adds to the text.
LEMMA Polls ==
  ASSUME OwuiInv, Poll
  PROVE  \/ UNCHANGED <<seen, pushed>>
         \/ /\ seen' = UpTo(stored.text) /\ Len(seen') = stored.text
            /\ Len(pushed') \in Nat /\ Len(pushed') <= stored.text
            /\ call.nr = 0 /\ ~missed => pushed' = seen'
<1>1. PICK g : Look(g)
  BY DEF Poll
<1>2. CASE Accumulate(UpTo(stored.text))
  <2>1. /\ seen \in Seq(Chunk) /\ pushed \in Seq(Chunk) /\ Len(pushed) <= Len(seen)
        /\ seen = UpTo(Len(seen)) /\ Len(seen) <= stored.text
        /\ call.nr = 0 /\ ~missed => pushed = seen
    BY DEF OwuiInv, OwuiTypes, TextsInOrder, FromTheBeginning, Poll
  <2>2. stored.text \in 0 .. C /\ C \in Nat /\ Len(pushed) \in Nat /\ Len(seen) \in Nat
    BY Bounds
  <2>3. /\ seen' = UpTo(stored.text) /\ Len(seen') = stored.text
        /\ pushed' \in Seq(Chunk)
        /\ Len(pushed') <= stored.text \/ Len(pushed') = Len(pushed)
        /\ pushed = seen /\ seen = UpTo(Len(seen)) /\ Len(seen) <= stored.text
             => pushed' = UpTo(stored.text)
    BY <1>2, <2>1, <2>2, Accumulated
  <2>4. Len(pushed') \in Nat /\ Len(pushed') <= stored.text
    BY <2>1, <2>2, <2>3
  <2>5. QED BY <2>1, <2>3, <2>4
<1>3. QED BY <1>1, <1>2 DEF Look

\* The order of the texts, event by event.
Ordered ==
  \A i, j \in DOMAIN events :
    i < j => /\ events[i].text <= events[j].text
             /\ events[j].kind = "delta" => events[i].text < events[j].text

Ahead ==
  \A i \in DOMAIN events :
    /\ events[i].text <= task.text
    /\ Len(pushed) <= events[i].text
    /\ events[i].kind = "delta" => Len(pushed) < events[i].text

LEMMA TextsNow ==
  ASSUME OwuiInv
  PROVE  /\ Len(pushed) <= Len(seen) /\ Len(pushed) <= task.text
         /\ Ahead /\ Ordered
         /\ call.at = "poll" => seen = UpTo(Len(seen)) /\ Len(seen) <= stored.text
         /\ \A i \in DOMAIN events : events[i].text \in Nat /\ i \in Nat
<1>1. events \in Seq(EventRec) /\ C \in Nat
  BY OwuiAssumption DEF OwuiInv, OwuiTypes
<1>2. \A i \in DOMAIN events : events[i].text \in Nat /\ i \in Nat
  <2>1. \A i \in DOMAIN events : events[i] \in EventRec /\ i \in Nat
    BY <1>1
  <2>2. \A e \in EventRec : e.text \in Nat
    BY <1>1 DEF EventRec
  <2>3. QED BY <2>1, <2>2
<1>3. QED BY <1>2 DEF OwuiInv, TextsInOrder, Ahead, Ordered

\* The queue of a reader after one more event.
LEMMA QueueGrows ==
  ASSUME OwuiInv, OwuiNext, EmitStep
  PROVE  /\ UNCHANGED <<call, reader, seen, pushed>>
         /\ task.text <= task'.text /\ task'.text \in Nat
         /\ ~missed' => ~missed
         /\ \/ events' = events /\ (missed' \/ ~(reader = "on" /\ call.at # "returned"))
            \/ \E e \in EventRec :
                 /\ e.text = task'.text /\ (e.kind = "delta" => e.text = task.text + 1)
                 /\ reader = "on" /\ call.at # "returned"
                 /\ DOMAIN events' = 1 .. Len(events) + 1 /\ Len(events') = Len(events) + 1
                 /\ \A i \in 1 .. Len(events) : events'[i] = events[i]
                 /\ events'[Len(events) + 1] = e
<1>1. TaskStep
  BY DEF EmitStep, TaskStep
<1>2. UNCHANGED <<call, reader, seen, pushed>> /\ task.text <= task'.text
  BY <1>1, TaskSteps
<1>3. task'.text \in Nat
  <2>1. task' \in TaskRec /\ C \in Nat
    BY TypesStep, OwuiAssumption DEF OwuiTypes
  <2>2. QED BY <2>1 DEF TaskRec
<1>4. PICK e \in EventRec : /\ Emit(e) /\ e.text = task'.text
                            /\ e.kind = "delta" => task'.text = task.text + 1
  BY Emissions
<1>5. \/ /\ reader = "on" /\ call.at # "returned" /\ Len(events') = Len(events) + 1
         /\ events' \in Seq(EventRec)
         /\ \A i \in 1 .. Len(events) : events'[i] = events[i]
         /\ events'[Len(events) + 1] = e
      \/ events' = events /\ (missed' \/ ~(reader = "on" /\ call.at # "returned"))
  BY <1>4, Emitted DEF OwuiInv
<1>b. ~missed' => ~missed
  BY <1>4, Emitted DEF OwuiInv
<1>6. events' \in Seq(EventRec) => DOMAIN events' = 1 .. Len(events')
  OBVIOUS
<1>7. QED BY <1>2, <1>3, <1>4, <1>5, <1>6, <1>b

LEMMA TextsInOrderStep ==
  ASSUME OwuiInv, OwuiNext
  PROVE  TextsInOrder'
<1>0. /\ Len(pushed) <= Len(seen) /\ Len(pushed) <= task.text
      /\ Ahead /\ Ordered
      /\ \A i \in DOMAIN events : events[i].text \in Nat /\ i \in Nat
      /\ Len(events) \in Nat /\ DOMAIN events = 1 .. Len(events)
      /\ Len(pushed) \in Nat /\ Len(seen) \in Nat
      /\ task.text \in Nat /\ stored.text \in Nat
  BY TextsNow, Bounds
<1>a. task'.text \in Nat /\ stored'.text \in Nat
  <2>1. task' \in TaskRec /\ stored' \in TaskRec /\ C \in Nat
    BY TypesStep, OwuiAssumption DEF OwuiTypes
  <2>2. QED BY <2>1 DEF TaskRec
<1>b. ASSUME Len(pushed') <= Len(seen') /\ Len(pushed') <= task'.text, Ahead', Ordered',
             call'.at = "poll" => seen' = UpTo(Len(seen')) /\ Len(seen') <= stored'.text
      PROVE  TextsInOrder'
  BY <1>b DEF TextsInOrder, Ahead, Ordered
<1>1. CASE Answer
  <2>1. Fresh' /\ call'.at = "start"
    BY <1>1, AnswerSets
  <2>2. events' = <<>> /\ pushed' = <<>> /\ seen' = <<>>
    BY <2>1 DEF Fresh
  <2>3. DOMAIN events' = {} /\ Len(pushed') = 0 /\ Len(seen') = 0
    BY <2>2
  <2>4. Ahead' /\ Ordered'
    BY <2>3 DEF Ahead, Ordered
  <2>5. QED BY <1>a, <1>b, <2>1, <2>3, <2>4
<1>2. CASE ~Answer
  <2>1. task.text <= task'.text /\ stored.text <= stored'.text
    BY <1>2, Steady
  <2>2. call'.at = "poll" => seen' = UpTo(Len(seen')) /\ Len(seen') <= stored'.text
    <3>1. SUFFICES ASSUME call'.at = "poll"
                   PROVE  seen' = UpTo(Len(seen')) /\ Len(seen') <= stored'.text
      OBVIOUS
    <3>2. CASE call.at # "poll"
      <4>1. seen' = <<>>
        BY <1>2, <3>1, <3>2, PollBegins DEF Fresh
      <4>2. Len(seen') = 0
        BY <4>1
      <4>3. seen' = UpTo(Len(seen'))
        BY <4>1, <4>2, NoneYet
      <4>4. QED BY <1>a, <4>2, <4>3
    <3>3. CASE call.at = "poll" /\ Poll
      <4>1. stored' = stored
        BY <3>3 DEF Poll, server
      <4>2. QED BY <3>3, <4>1, Polls, TextsNow
    <3>4. CASE call.at = "poll" /\ ~Poll
      <4>1. reader = "off"
        BY <3>4, SaysNow
      <4>2. ~ReadEvent
        BY <4>1, Reads
      <4>3. seen' = seen
        BY <1>2, <3>4, <4>2, UnheardSteps
      <4>4. seen = UpTo(Len(seen)) /\ Len(seen) <= stored.text
        BY <3>4, TextsNow
      <4>5. QED BY <1>0, <1>a, <2>1, <4>3, <4>4
    <3>5. QED BY <3>2, <3>3, <3>4
  <2>3. CASE EmitStep
    <3>1. /\ UNCHANGED <<call, reader, seen, pushed>>
          /\ Len(pushed') <= Len(seen') /\ Len(pushed') <= task'.text
      BY <1>0, <1>a, <2>1, <2>3, QueueGrows
    <3>2. CASE events' = events
      <4>1. Ordered'
        BY <1>0, <3>2 DEF Ordered
      <4>2. Ahead'
        BY <1>0, <1>a, <2>1, <3>1, <3>2 DEF Ahead
      <4>3. QED BY <1>b, <2>2, <3>1, <4>1, <4>2
    <3>3. ASSUME NEW e \in EventRec, e.text = task'.text,
                 e.kind = "delta" => e.text = task.text + 1,
                 DOMAIN events' = 1 .. Len(events) + 1,
                 \A i \in 1 .. Len(events) : events'[i] = events[i],
                 events'[Len(events) + 1] = e
          PROVE  TextsInOrder'
      <4>1. ASSUME NEW i \in DOMAIN events'
            PROVE  \/ i = Len(events) + 1 /\ events'[i] = e
                   \/ i \in DOMAIN events /\ i # Len(events) + 1 /\ events'[i] = events[i]
        BY <1>0, <3>3
      <4>2. ASSUME NEW i \in DOMAIN events'
            PROVE  /\ events'[i].text <= task'.text
                   /\ Len(pushed') <= events'[i].text
                   /\ events'[i].kind = "delta" => Len(pushed') < events'[i].text
        <5>1. CASE i = Len(events) + 1 /\ events'[i] = e
          BY <1>0, <1>a, <3>1, <3>3, <5>1
        <5>2. CASE i \in DOMAIN events /\ events'[i] = events[i]
          BY <1>0, <1>a, <2>1, <3>1, <5>2 DEF Ahead
        <5>3. QED BY <4>1, <5>1, <5>2
      <4>3. ASSUME NEW i \in DOMAIN events', NEW j \in DOMAIN events', i < j
            PROVE  /\ events'[i].text <= events'[j].text
                   /\ events'[j].kind = "delta" => events'[i].text < events'[j].text
        <5>1. i \in DOMAIN events /\ events'[i] = events[i]
          BY <1>0, <3>3, <4>1, <4>3
        <5>2. CASE j = Len(events) + 1 /\ events'[j] = e
          <6>1. events[i].text <= task.text /\ events[i].text \in Nat
            BY <1>0, <5>1 DEF Ahead
          <6>2. QED BY <1>0, <1>a, <2>1, <3>3, <5>1, <5>2, <6>1
        <5>3. CASE j \in DOMAIN events /\ events'[j] = events[j]
          BY <1>0, <4>3, <5>1, <5>3 DEF Ordered
        <5>4. QED BY <4>1, <5>2, <5>3
      <4>4. Ahead' /\ Ordered'
        BY <4>2, <4>3 DEF Ahead, Ordered
      <4>5. QED BY <1>b, <2>2, <3>1, <4>4
    <3>4. QED BY <2>3, <3>2, <3>3, QueueGrows
  <2>4. CASE ReadEvent
    <3>1. /\ Len(pushed') \in Nat /\ Len(seen') \in Nat
          /\ Len(pushed') <= Len(seen') /\ Len(pushed') <= events[1].text
          /\ 1 \in DOMAIN events /\ task' = task
      BY <2>4, Hears, Reads
    <3>2. Len(pushed') <= task'.text
      BY <1>0, <3>1 DEF Ahead
    <3>3. \A i \in DOMAIN events' : /\ events'[i] = events[i + 1] /\ i + 1 \in DOMAIN events
                                    /\ i \in Nat /\ 1 < i + 1
      <4>1. DOMAIN events' = 1 .. Len(events) - 1
        BY <2>4, Reads
      <4>2. \A i \in DOMAIN events' : i \in Nat /\ 1 < i + 1
        BY <1>0, <4>1
      <4>3. QED BY <2>4, <4>2, Reads
    <3>4. ASSUME NEW i \in DOMAIN events'
          PROVE  /\ events'[i].text <= task'.text
                 /\ Len(pushed') <= events'[i].text
                 /\ events'[i].kind = "delta" => Len(pushed') < events'[i].text
      <4>1. events'[i] = events[i + 1] /\ i + 1 \in DOMAIN events /\ 1 < i + 1
        BY <3>3
      <4>2. /\ events[1].text <= events[i + 1].text
            /\ events[i + 1].kind = "delta" => events[1].text < events[i + 1].text
        BY <1>0, <3>1, <4>1 DEF Ordered
      <4>3. events[i + 1].text <= task.text
        BY <1>0, <4>1 DEF Ahead
      <4>4. QED BY <1>0, <3>1, <4>1, <4>2, <4>3
    <3>5. ASSUME NEW i \in DOMAIN events', NEW j \in DOMAIN events', i < j
          PROVE  /\ events'[i].text <= events'[j].text
                 /\ events'[j].kind = "delta" => events'[i].text < events'[j].text
      <4>1. i + 1 < j + 1
        BY <3>3, <3>5
      <4>2. QED BY <1>0, <3>3, <4>1 DEF Ordered
    <3>6. Ahead' /\ Ordered'
      BY <3>4, <3>5 DEF Ahead, Ordered
    <3>7. QED BY <1>b, <2>2, <3>1, <3>2, <3>6
  <2>5. CASE Poll
    <3>1. events = <<>> /\ events' = events /\ task' = task
      BY <2>5, SaysNow DEF Poll, server, OwuiInv, ReaderSays
    <3>2. DOMAIN events' = {}
      BY <3>1
    <3>3. Ahead' /\ Ordered'
      BY <3>2 DEF Ahead, Ordered
    <3>4. stored.text <= task.text
      BY DEF OwuiInv, StoredBehind
    <3>5. Len(pushed') <= Len(seen') /\ Len(pushed') <= task'.text
      BY <1>0, <2>5, <3>1, <3>4, Polls
    <3>6. QED BY <1>b, <2>2, <3>3, <3>5
  <2>6. CASE ~EmitStep /\ ~ReadEvent /\ ~Poll
    <3>1. UNCHANGED <<seen, pushed>>
      BY <1>2, <2>6, UnheardSteps
    <3>2. events' = events \/ events' = <<>>
      BY <1>2, <2>6, EventSteps DEF SocketDrops
    <3>3. \A i \in DOMAIN events' : i \in DOMAIN events /\ events'[i] = events[i]
      BY <3>2
    <3>4. Ordered'
      BY <1>0, <3>3 DEF Ordered
    <3>5. Ahead'
      BY <1>0, <1>a, <2>1, <3>1, <3>3 DEF Ahead
    <3>6. QED BY <1>0, <1>a, <1>b, <2>1, <2>2, <3>1, <3>4, <3>5
  <2>7. QED BY <2>3, <2>4, <2>5, <2>6
<1>3. QED BY <1>1, <1>2

\* What was missed in a call stays missed.
LEMMA MissedSteps ==
  ASSUME OwuiInv, OwuiNext, ~Answer
  PROVE  ~missed' => ~missed
<1>0. Moves
  BY NextMoves
<1>1. CASE EmitStep
  BY <1>1, QueueGrows
<1>2. CASE DialSocket \/ SubmitOnly \/ GiveUp \/ SocketDrops \/ Respond \/ RequestFails \/ Store
           \/ Accept \/ AcceptOrphan \/ ReadEvent
  BY <1>2 DEF DialSocket, SubmitOnly, GiveUp, SocketDrops, Respond, RequestFails, Store, Accept,
              AcceptOrphan, ReadEvent, local
<1>3. CASE RequestRefused \/ TailEnds \/ ReaderDone \/ RequestAwaited \/ OneShot \/ RequestReplied
  BY <1>3 DEF RequestRefused, RequestReplied, TailEnds, ReaderDone, RequestAwaited, OneShot,
              waiting, local
<1>4. CASE ReadStored \/ Finish \/ Poll
  BY <1>4 DEF ReadStored, Finish, Poll, local
<1>5. QED BY <1>0, <1>1, <1>2, <1>3, <1>4 DEF Moves, EmitStep

\* A text that counts upwards, and one more chunk.
LEMMA HeardInOrder ==
  ASSUME OwuiInv, ReadEvent
  PROVE  ShownInOrder'
<1> DEFINE e == Head(events)
<1>1. /\ e = events[1] /\ e \in EventRec /\ 1 \in DOMAIN events /\ task' = task
      /\ \A k \in DOMAIN events' : events'[k] = events[k + 1] /\ k + 1 \in DOMAIN events
                                   /\ k \in Nat /\ 1 < k + 1
  <2>1. DOMAIN events' = 1 .. Len(events) - 1 /\ Len(events) \in Nat
    BY Reads, Bounds
  <2>2. QED BY <2>1, Reads
<1>2. \/ e.kind = "delta" /\ Hear(e.text)
      \/ e.kind = "content" /\ Accumulate(UpTo(e.text))
      \/ UNCHANGED <<seen, pushed>>
  BY DEF ReadEvent
<1>3. /\ seen \in Seq(Chunk) /\ pushed \in Seq(Chunk) /\ Len(pushed) <= Len(seen)
      /\ Len(seen) \in Nat /\ Len(pushed) \in Nat /\ task.text \in Nat /\ C \in Nat
      /\ DOMAIN pushed = 1 .. Len(pushed) /\ DOMAIN seen = 1 .. Len(seen)
      /\ \A i \in DOMAIN pushed : pushed[i] \in Nat
  <2>1. seen \in Seq(Chunk) /\ pushed \in Seq(Chunk) /\ Len(pushed) <= Len(seen)
    BY DEF OwuiInv, OwuiTypes, TextsInOrder
  <2>2. task.text \in Nat /\ C \in Nat
    BY Bounds
  <2>3. QED BY <2>1, <2>2 DEF Chunk
<1>4. /\ \A i, j \in DOMAIN pushed : i < j => pushed[i] < pushed[j]
      /\ \A i \in DOMAIN pushed :
           /\ pushed[i] <= task.text
           /\ pushed[i] <= Len(seen) \/ pushed = seen
           /\ \A k \in DOMAIN events :
                /\ pushed[i] <= events[k].text
                /\ events[k].kind = "delta" => pushed[i] < events[k].text
  BY DEF OwuiInv, ShownInOrder
<1>5. /\ Ahead /\ Ordered /\ \A k \in DOMAIN events : events[k].text \in Nat
  BY TextsNow
<1>6. /\ e.text \in 0 .. C /\ e.text <= task.text
      /\ \A k \in DOMAIN events' :
           /\ e.text <= events'[k].text /\ events'[k].text \in Nat
           /\ events'[k].kind = "delta" => e.text < events'[k].text
  <2>1. e.text \in 0 .. C
    BY <1>1 DEF EventRec
  <2>2. QED BY <1>1, <1>5, <2>1 DEF Ahead, Ordered
<1>7. \A i \in DOMAIN pushed : pushed[i] <= e.text /\ (e.kind = "delta" => pushed[i] < e.text)
  BY <1>1, <1>4
<1> HIDE DEF e
\* What was read is as far as the event, or what it was before.
<1>8. ASSUME pushed' \in Seq(Nat),
             \A i, j \in DOMAIN pushed' : i < j => pushed'[i] < pushed'[j],
             \A i \in DOMAIN pushed' : pushed'[i] <= e.text,
             \A i \in DOMAIN pushed' : pushed'[i] <= Len(seen') \/ pushed' = seen'
      PROVE  ShownInOrder'
  <2>1. ASSUME NEW i \in DOMAIN pushed' PROVE pushed'[i] \in Nat
    BY <1>8
  <2>2. ASSUME NEW i \in DOMAIN pushed'
        PROVE  /\ pushed'[i] <= task'.text
               /\ \A k \in DOMAIN events' :
                    /\ pushed'[i] <= events'[k].text
                    /\ events'[k].kind = "delta" => pushed'[i] < events'[k].text
    BY <1>1, <1>3, <1>6, <1>8, <2>1, SMTT(30)
  <2>3. QED BY <1>8, <2>2 DEF ShownInOrder
<1>9. CASE e.kind = "delta" /\ Hear(e.text)
  <2>1. pushed' = Append(pushed, e.text) /\ seen' = pushed'
    BY <1>9 DEF Hear
  <2>2. e.text \in Nat /\ pushed \in Seq(Nat)
    BY <1>3, <1>6 DEF Chunk
  <2>3. /\ pushed' \in Seq(Nat) /\ DOMAIN pushed' = 1 .. Len(pushed) + 1
        /\ \A i \in 1 .. Len(pushed) : pushed'[i] = pushed[i]
        /\ pushed'[Len(pushed) + 1] = e.text
    BY <2>1, <2>2, AppendProperties
  <2>4. ASSUME NEW i \in DOMAIN pushed', NEW j \in DOMAIN pushed', i < j
        PROVE  pushed'[i] < pushed'[j]
    <3>1. i \in DOMAIN pushed /\ pushed'[i] = pushed[i]
      BY <1>3, <2>3, <2>4
    <3>2. CASE j = Len(pushed) + 1
      BY <1>7, <1>9, <2>3, <3>1, <3>2
    <3>3. CASE j \in DOMAIN pushed
      BY <1>3, <1>4, <2>3, <2>4, <3>1, <3>3
    <3>4. QED BY <1>3, <2>3, <3>2, <3>3
  <2>5. ASSUME NEW i \in DOMAIN pushed' PROVE pushed'[i] <= e.text
    BY <1>3, <1>7, <2>2, <2>3
  <2>6. QED BY <1>8, <2>1, <2>3, <2>4, <2>5
<1>10. CASE e.kind = "content" /\ Accumulate(UpTo(e.text))
  BY <1>3, <1>4, <1>6, <1>7, <1>8, <1>10, AccumulatedInOrder
<1>11. CASE UNCHANGED <<seen, pushed>>
  <2>1. pushed' \in Seq(Nat)
    BY <1>3, <1>11 DEF Chunk
  <2>2. QED BY <1>4, <1>7, <1>8, <1>11, <2>1
<1>12. QED BY <1>2, <1>9, <1>10, <1>11

LEMMA ShownInOrderStep ==
  ASSUME OwuiInv, OwuiNext
  PROVE  ShownInOrder'
<1>0. /\ \A i, j \in DOMAIN pushed : i < j => pushed[i] < pushed[j]
      /\ \A i \in DOMAIN pushed :
           /\ pushed[i] <= task.text
           /\ pushed[i] <= Len(seen) \/ pushed = seen
           /\ \A k \in DOMAIN events :
                /\ pushed[i] <= events[k].text
                /\ events[k].kind = "delta" => pushed[i] < events[k].text
  BY DEF OwuiInv, ShownInOrder
<1>1. CASE Answer
  <2>1. Fresh'
    BY <1>1, AnswerSets
  <2>2. pushed' = <<>>
    BY <2>1 DEF Fresh
  <2>3. DOMAIN pushed' = {}
    BY <2>2
  <2>4. QED BY <2>3 DEF ShownInOrder
<1>2. CASE ReadEvent
  BY <1>2, HeardInOrder
<1>3. CASE Poll
  <2>1. events' = <<>> /\ task' = task
    BY <1>3, SaysNow DEF Poll, server, OwuiInv, ReaderSays
  <2>2. DOMAIN events' = {}
    BY <2>1
  <2>3. PICK g : Look(g)
    BY <1>3 DEF Poll
  <2>4. CASE UNCHANGED <<seen, pushed>>
    BY <1>0, <2>1, <2>2, <2>4 DEF ShownInOrder
  <2>5. CASE Accumulate(UpTo(stored.text))
    <3>1. /\ seen \in Seq(Chunk) /\ pushed \in Seq(Chunk) /\ Len(pushed) <= Len(seen)
          /\ seen = UpTo(Len(seen)) /\ Len(seen) <= stored.text /\ stored.text <= task.text
      BY <1>3 DEF OwuiInv, OwuiTypes, TextsInOrder, StoredBehind, Poll
    <3>2. stored.text \in 0 .. C /\ C \in Nat /\ task.text \in Nat /\ Len(seen) \in Nat
      BY Bounds
    <3>3. DOMAIN pushed = 1 .. Len(pushed) /\ \A i \in DOMAIN pushed : pushed[i] \in Nat
      <4>1. pushed \in Seq(Nat)
        BY <3>1, <3>2 DEF Chunk
      <4>2. QED BY <4>1
    <3>4. \A i \in DOMAIN pushed : pushed[i] <= Len(seen)
      <4>1. \A i \in 1 .. Len(seen) : seen[i] = i
        BY <3>1, <3>2, UpToSeq
      <4>2. QED BY <1>0, <3>1, <3>2, <3>3, <4>1
    <3>5. \A i \in DOMAIN pushed : pushed[i] <= stored.text
      BY <3>1, <3>2, <3>3, <3>4
    <3>6. /\ pushed' \in Seq(Nat)
          /\ \A i, j \in DOMAIN pushed' : i < j => pushed'[i] < pushed'[j]
          /\ \A i \in DOMAIN pushed' : pushed'[i] <= stored.text /\ pushed'[i] <= Len(seen')
      BY <1>0, <2>5, <3>1, <3>2, <3>5, AccumulatedInOrder
    <3>7. \A i \in DOMAIN pushed' : pushed'[i] \in Nat
      BY <3>6
    <3>8. \A i \in DOMAIN pushed' : pushed'[i] <= task'.text
      BY <2>1, <3>1, <3>2, <3>6, <3>7
    <3>9. QED BY <2>2, <3>6, <3>8 DEF ShownInOrder
  <2>6. QED BY <2>3, <2>4, <2>5 DEF Look
<1>4. CASE ~Answer /\ ~ReadEvent /\ ~Poll
  <2>1. UNCHANGED <<seen, pushed>> /\ task.text <= task'.text
    BY <1>4, UnheardSteps, Steady
  <2>2. /\ task.text \in Nat /\ task'.text \in Nat
        /\ \A i \in DOMAIN pushed : pushed[i] \in Nat
    <3>1. task' \in TaskRec /\ C \in Nat /\ pushed \in Seq(Chunk)
      BY TypesStep, OwuiAssumption DEF OwuiInv, OwuiTypes
    <3>2. \A i \in DOMAIN pushed : pushed[i] \in Nat
      BY <3>1 DEF Chunk
    <3>3. QED BY <3>1, <3>2, Bounds DEF TaskRec
  <2>3. ASSUME NEW i \in DOMAIN pushed
        PROVE  /\ pushed[i] <= task'.text
               /\ \A k \in DOMAIN events' :
                    /\ pushed[i] <= events'[k].text
                    /\ events'[k].kind = "delta" => pushed[i] < events'[k].text
    <3>1. pushed[i] <= task.text /\ pushed[i] <= task'.text
      BY <1>0, <2>1, <2>2
    <3>2. CASE \A k \in DOMAIN events' : k \in DOMAIN events /\ events'[k] = events[k]
      BY <1>0, <3>1, <3>2
    <3>3. CASE EmitStep
      <4>1. ASSUME NEW e \in EventRec, e.text = task'.text,
                   e.kind = "delta" => e.text = task.text + 1,
                   DOMAIN events' = 1 .. Len(events) + 1,
                   \A k \in 1 .. Len(events) : events'[k] = events[k],
                   events'[Len(events) + 1] = e
            PROVE  \A k \in DOMAIN events' :
                     /\ pushed[i] <= events'[k].text
                     /\ events'[k].kind = "delta" => pushed[i] < events'[k].text
        <5>1. DOMAIN events = 1 .. Len(events) /\ Len(events) \in Nat
          BY Bounds
        <5>2. ASSUME NEW k \in DOMAIN events'
              PROVE  \/ k \in DOMAIN events /\ events'[k] = events[k]
                     \/ events'[k] = e
          BY <4>1, <5>1
        <5>3. pushed[i] <= e.text /\ (e.kind = "delta" => pushed[i] < e.text)
          BY <2>2, <3>1, <4>1
        <5>4. QED BY <1>0, <5>2, <5>3
      <4>2. CASE events' = events
        BY <1>0, <3>1, <4>2
      <4>3. QED BY <3>1, <3>3, <4>1, <4>2, QueueGrows
    <3>4. CASE ~EmitStep
      <4>1. events' = events \/ events' = <<>>
        BY <1>4, <3>4, EventSteps DEF SocketDrops
      <4>2. DOMAIN <<>> = {}
        OBVIOUS
      <4>3. QED BY <3>2, <4>1, <4>2
    <3>5. QED BY <3>3, <3>4
  <2>4. QED BY <1>0, <2>1, <2>3 DEF ShownInOrder
<1>5. QED BY <1>1, <1>2, <1>3, <1>4

LEMMA FromTheBeginningStep ==
  ASSUME OwuiInv, OwuiNext
  PROVE  FromTheBeginning'
<1>1. CASE Answer
  <2>1. call'.nr = call.nr + 1 /\ call.nr \in Nat
    BY <1>1, AnswerSets DEF OwuiInv, OwuiTypes, CallRec
  <2>2. QED BY <2>1 DEF FromTheBeginning
<1>2. CASE ~Answer
  <2> SUFFICES ASSUME call'.nr = 0, ~missed'
               PROVE  /\ seen' = UpTo(Len(seen')) /\ pushed' = seen'
                      /\ \A i \in DOMAIN events' :
                           events'[i].kind = "delta" => events'[i].text = Before(i)' + 1
                      /\ reader' = "on" /\ call'.at # "returned"
                           => Before(Len(events) + 1)' = task'.text
    BY DEF FromTheBeginning, Before
  <2>0. call.nr = 0 /\ ~missed
    BY <1>2, SameCall, MissedSteps
  <2>1. /\ seen = UpTo(Len(seen)) /\ pushed = seen
        /\ \A i \in DOMAIN events :
             events[i].kind = "delta" => events[i].text = Before(i) + 1
        /\ reader = "on" /\ call.at # "returned" => Before(Len(events) + 1) = task.text
    BY <2>0 DEF OwuiInv, FromTheBeginning
  <2>2. Len(events) \in Nat /\ DOMAIN events = 1 .. Len(events) /\ task.text \in Nat
        /\ Len(pushed) \in Nat
    BY Bounds
  <2>3. CASE EmitStep
    <3>1. UNCHANGED <<call, reader, seen, pushed>>
      BY <2>3, QueueGrows
    <3>2. CASE events' = events /\ (missed' \/ ~(reader = "on" /\ call.at # "returned"))
      BY <2>1, <3>1, <3>2 DEF Before
    <3>3. ASSUME NEW e \in EventRec, e.text = task'.text,
                 e.kind = "delta" => e.text = task.text + 1,
                 reader = "on" /\ call.at # "returned",
                 DOMAIN events' = 1 .. Len(events) + 1, Len(events') = Len(events) + 1,
                 \A i \in 1 .. Len(events) : events'[i] = events[i],
                 events'[Len(events) + 1] = e
          PROVE  /\ \A i \in DOMAIN events' :
                      events'[i].kind = "delta" => events'[i].text = Before(i)' + 1
                 /\ Before(Len(events) + 1)' = task'.text
      <4>1. ASSUME NEW i \in 1 .. Len(events) + 1
            PROVE  (IF i = 1 THEN Len(pushed') ELSE events'[i - 1].text) = Before(i)
        <5>1. i # 1 => i - 1 \in 1 .. Len(events)
          BY <2>2
        <5>2. QED BY <3>1, <3>3, <5>1 DEF Before
      <4>2. ASSUME NEW i \in DOMAIN events', events'[i].kind = "delta"
            PROVE  events'[i].text
                     = (IF i = 1 THEN Len(pushed') ELSE events'[i - 1].text) + 1
        <5>1. CASE i \in 1 .. Len(events)
          <6>1. events'[i] = events[i] /\ i \in 1 .. Len(events) + 1 /\ i \in DOMAIN events
            BY <2>2, <3>3, <5>1
          <6>2. events[i].text = Before(i) + 1
            BY <2>1, <4>2, <6>1
          <6>3. QED BY <4>1, <6>1, <6>2
        <5>2. CASE i = Len(events) + 1
          <6>1. i \in 1 .. Len(events) + 1 /\ events'[i] = e
            BY <2>2, <3>3, <5>2
          <6>2. e.text = task.text + 1 /\ Before(i) = task.text
            BY <2>1, <3>3, <4>2, <5>2, <6>1
          <6>3. QED BY <4>1, <6>1, <6>2
        <5>3. QED BY <2>2, <3>3, <5>1, <5>2
      <4>3. (IF Len(events') + 1 = 1 THEN Len(pushed') ELSE events'[Len(events') + 1 - 1].text)
              = task'.text
        <5>1. Len(events') + 1 # 1 /\ Len(events') + 1 - 1 = Len(events) + 1
          BY <2>2, <3>3
        <5>2. QED BY <3>3, <5>1
      <4>4. QED BY <4>2, <4>3 DEF Before
    <3>4. QED BY <2>1, <2>3, <3>1, <3>2, <3>3, QueueGrows
  <2>4. CASE ReadEvent
    <3>1. /\ seen' = UpTo(Len(seen')) /\ pushed' = seen'
          /\ Ends(Head(events)) \/ Len(pushed') = events[1].text
          /\ reader = "on" /\ call' = call /\ task' = task /\ 1 \in DOMAIN events
      BY <2>0, <2>4, Hears, Reads
    <3>2. CASE Ends(Head(events))
      <4>1. events' = <<>> /\ reader' = "ended"
        BY <2>4, <3>2, Reads
      <4>2. DOMAIN events' = {}
        BY <4>1
      <4>3. QED BY <3>1, <4>1, <4>2
    <3>3. CASE ~Ends(Head(events))
      <4>1. Len(pushed') = events[1].text
        BY <3>1, <3>3
      <4>2. /\ DOMAIN events' = 1 .. Len(events) - 1 /\ Len(events') = Len(events) - 1
            /\ \A i \in 1 .. Len(events) - 1 : events'[i] = events[i + 1]
        BY <2>4, Reads
      <4>3. Len(events) >= 1
        BY <2>2, <3>1
      <4>4. ASSUME NEW i \in 1 .. Len(events)
            PROVE  (IF i = 1 THEN Len(pushed') ELSE events'[i - 1].text) = Before(i + 1)
        <5>1. CASE i = 1
          BY <4>1, <5>1 DEF Before
        <5>2. CASE i # 1
          <6>1. i - 1 \in 1 .. Len(events) - 1 /\ i - 1 + 1 = i /\ i + 1 # 1 /\ i + 1 - 1 = i
            BY <2>2, <5>2
          <6>2. events'[i - 1] = events[i]
            BY <4>2, <6>1
          <6>3. QED BY <5>2, <6>1, <6>2 DEF Before
        <5>3. QED BY <5>1, <5>2
      <4>5. ASSUME NEW i \in DOMAIN events', events'[i].kind = "delta"
            PROVE  events'[i].text
                     = (IF i = 1 THEN Len(pushed') ELSE events'[i - 1].text) + 1
        <5>1. i \in 1 .. Len(events) /\ i + 1 \in DOMAIN events /\ events'[i] = events[i + 1]
          BY <2>2, <4>2
        <5>2. events[i + 1].text = Before(i + 1) + 1
          BY <2>1, <4>5, <5>1
        <5>3. QED BY <4>4, <5>1, <5>2
      <4>6. ASSUME call'.at # "returned"
            PROVE  (IF Len(events') + 1 = 1 THEN Len(pushed')
                    ELSE events'[Len(events') + 1 - 1].text) = task'.text
        <5>1. Before(Len(events) + 1) = task.text
          BY <2>1, <3>1, <4>6
        <5>2. Len(events') + 1 = Len(events) /\ Len(events) \in 1 .. Len(events)
          BY <2>2, <4>2, <4>3
        <5>3. QED BY <3>1, <4>4, <5>1, <5>2
      <4>7. QED BY <3>1, <4>5, <4>6 DEF Before
    <3>4. QED BY <3>2, <3>3
  <2>5. CASE Poll
    <3>1. events' = <<>> /\ reader' = "off"
      BY <2>5, SaysNow DEF Poll, OwuiInv, ReaderSays
    <3>2. DOMAIN events' = {}
      BY <3>1
    <3>3. seen' = UpTo(Len(seen')) /\ pushed' = seen'
      BY <2>0, <2>1, <2>5, Polls
    <3>4. QED BY <3>1, <3>2, <3>3
  <2>6. CASE SocketDrops
    <3>1. events' = <<>> /\ reader' = "broken" /\ UNCHANGED <<seen, pushed>>
      BY <2>6 DEF SocketDrops
    <3>2. DOMAIN events' = {}
      BY <3>1
    <3>3. QED BY <2>1, <3>1, <3>2
  <2>7. CASE ~EmitStep /\ ~ReadEvent /\ ~Poll /\ ~SocketDrops
    <3>1. UNCHANGED <<seen, pushed, events>> /\ (reader' = reader \/ DialSocket)
      BY <1>2, <2>7, UnheardSteps, EventSteps
    <3>2. task'.text = task.text
      <4>1. CASE TaskStep
        <5>1. Accept \/ AcceptOrphan
          BY <2>7, <4>1 DEF TaskStep, EmitStep
        <5>2. [task EXCEPT !.at = "running"].text = task.text
          BY DEF OwuiInv, OwuiTypes, TaskRec
        <5>3. QED BY <5>1, <5>2 DEF Accept, AcceptOrphan, Resolve
      <4>2. CASE ~TaskStep
        BY <1>2, <4>2, OtherSteps
      <4>3. QED BY <4>1, <4>2
    <3>3. Before(Len(events) + 1)' = Before(Len(events) + 1)
      BY <3>1 DEF Before
    <3>4. CASE DialSocket
      <4>1. Fresh /\ call.at = "start"
        BY <3>4, SaysNow DEF DialSocket
      <4>2. events = <<>> /\ pushed = <<>> /\ request = "none"
        BY <4>1 DEF Fresh
      <4>3. call.ask = NoAsk
        BY <2>0 DEF OwuiInv, AsksInOrder
      <4>4. task = NoTask
        BY <4>2, <4>3 DEF OwuiInv, AsksInOrder
      <4>5. Before(Len(events) + 1) = 0 /\ task.text = 0
        BY <4>2, <4>4 DEF Before, NoTask
      <4>6. QED BY <2>1, <3>1, <3>2, <3>3, <4>5 DEF Before
    <3>5. CASE reader' = reader
      <4>1. call'.at # "returned" => call.at # "returned"
        <5>1. CASE TaskStep
          BY <5>1, TaskSteps
        <5>2. CASE ~TaskStep
          BY <1>2, <2>7, <5>2, NextMoves DEF Moves, TaskStep, DialSocket, SubmitOnly,
             RequestRefused, RequestReplied, TailEnds, ReaderDone, RequestAwaited, ReadStored,
             OneShot, Finish, GiveUp, Respond, RequestFails, Store
        <5>3. QED BY <5>1, <5>2
      <4>2. QED BY <2>1, <3>1, <3>2, <3>3, <3>5, <4>1 DEF Before
    <3>6. QED BY <3>1, <3>4, <3>5
  <2>8. QED BY <2>3, <2>4, <2>5, <2>6, <2>7
<1>3. QED BY <1>1, <1>2

-----------------------------------------------------------------------------
(* The theorems.                                                           *)

LEMMA OwuiInvInit == OwuiInit => OwuiInv
<1> SUFFICES ASSUME OwuiInit PROVE OwuiInv
  OBVIOUS
<1> USE OwuiAssumption
<1>0. /\ setup \in Setups /\ call = [at |-> "start", nr |-> 0, ask |-> NoAsk]
      /\ task = NoTask /\ stored = NoTask /\ orphans = {} /\ faults = 0
      /\ Fresh
  BY DEF OwuiInit
<1>1. /\ request = "none" /\ accepted = FALSE /\ grace = Grace + 1
      /\ reader = "off" /\ events = <<>> /\ missed = FALSE /\ seen = <<>> /\ pushed = <<>>
      /\ asked = NoAsk /\ text = 0 /\ reply = NoReply /\ excused = {}
  BY <1>0 DEF Fresh
<1>2. /\ call.at = "start" /\ call.nr = 0 /\ call.ask = 0
      /\ task.at = "none" /\ task.text = 0 /\ task.asks = 0
      /\ reply.how = "none" /\ reply.ask = NoAsk
  BY <1>0, <1>1 DEF NoTask, NoReply, NoAsk
<1>3. Len(seen) = 0 /\ Len(pushed) = 0 /\ DOMAIN events = {} /\ \A S : <<>> \in Seq(S)
  BY <1>1
<1>4. OwuiTypes
  <2>1. call \in CallRec
    BY <1>0 DEF CallRec, Steps, MaxCalls, NoAsk
  <2>2. task \in TaskRec /\ stored \in TaskRec
    BY <1>0 DEF TaskRec, NoTask
  <2>3. reply \in ReplyRec
    BY <1>1 DEF ReplyRec, NoReply
  <2>4. grace \in 0 .. Grace + 1 /\ text \in 0 .. C /\ faults \in 0 .. MaxFaults
    BY <1>0, <1>1
  <2>5. QED BY <1>0, <1>1, <1>3, <2>1, <2>2, <2>3, <2>4 DEF OwuiTypes, NoAsk
<1>5. StoredBehind
  BY <1>0, <1>2 DEF StoredBehind
<1>6. AsksInOrder
  BY <1>0, <1>1, <1>2 DEF AsksInOrder, NoAsk
<1>7. RequestSays
  BY <1>1, <1>2 DEF RequestSays
<1>8. ReaderSays
  BY <1>1, <1>3 DEF ReaderSays
<1>9. StepSays
  BY <1>0, <1>1, <1>2 DEF StepSays
<1>10. TextsInOrder
  BY <1>2, <1>3 DEF TextsInOrder
<1>11. FromTheBeginning
  BY <1>1, <1>3, NoneYet DEF FromTheBeginning
<1>12. ReplyTellsTheEnd /\ AskedOnce
  BY <1>2 DEF ReplyTellsTheEnd, AskedOnce
<1>13. ShownInOrder
  <2>1. DOMAIN pushed = {}
    BY <1>1
  <2>2. QED BY <2>1 DEF ShownInOrder
<1>14. QED BY <1>4, <1>5, <1>6, <1>7, <1>8, <1>9, <1>10, <1>11, <1>12, <1>13 DEF OwuiInv

LEMMA OwuiInvStep == OwuiInv /\ [OwuiNext]_owuiVars => OwuiInv'
<1> SUFFICES ASSUME OwuiInv, [OwuiNext]_owuiVars PROVE OwuiInv'
  OBVIOUS
<1>1. CASE OwuiNext
  BY <1>1, TypesStep, StoredBehindStep, AsksInOrderStep, RequestSaysStep, ReaderSaysStep,
     StepSaysStep, TextsInOrderStep, ShownInOrderStep, FromTheBeginningStep, ReplyTellsTheEndStep,
     AskedOnceStep DEF OwuiInv
<1>2. CASE UNCHANGED owuiVars
  <2>1. UNCHANGED <<setup, call, request, accepted, grace, reader, events, missed, seen, pushed,
                    asked, text, reply, task, stored, orphans, excused, faults>>
    BY <1>2 DEF owuiVars, local, server
  <2>2. OwuiTypes' /\ StoredBehind' /\ AsksInOrder'
    BY <2>1 DEF OwuiInv, OwuiTypes, StoredBehind, AsksInOrder
  <2>3. RequestSays' /\ ReaderSays'
    BY <2>1 DEF OwuiInv, RequestSays, ReaderSays, Halted, Past, Background, Ends, Message
  <2>4. StepSays'
    BY <2>1, ZenonT(60) DEF OwuiInv, StepSays, Halted, Past, Background, Message, Fresh
  <2>5. TextsInOrder' /\ ShownInOrder' /\ FromTheBeginning'
    BY <2>1 DEF OwuiInv, TextsInOrder, ShownInOrder, FromTheBeginning, Before
  <2>6. ReplyTellsTheEnd' /\ AskedOnce'
    BY <2>1 DEF OwuiInv, ReplyTellsTheEnd, AskedOnce, Message
  <2>7. QED BY <2>2, <2>3, <2>4, <2>5, <2>6 DEF OwuiInv
<1>3. QED BY <1>1, <1>2

\* However the events, the polls and the steps of the task fall between the
\* steps of the call, what each way of learning of the end says stays true
\* (Send, Answer, awaitAnswer and the threads behind them).
THEOREM OwuiInvariant == OwuiSpec => []OwuiInv
<1>1. QED BY OwuiInvInit, OwuiInvStep, PTL DEF OwuiSpec

\* OwuiTypes of the adapter's and of Open WebUI's state: every step of
\* awaitAnswer and sendOneShot stays within them.
THEOREM OwuiTypeCorrect == OwuiSpec => []OwuiTypeOK
<1>1. QED BY OwuiInvariant, InvTypes, PTL

\* A reply that nothing excuses is the whole text of a task that stopped, with
\* the question it stopped at: whichever of the HTTP answer, the socket and
\* the polls brought it (awaitAnswer, streamViaSocket, pollAnswer, finish).
THEOREM ReplyTellsTheWholeEnd == OwuiSpec => []ReplyTellsTheEnd
<1>1. OwuiInv => ReplyTellsTheEnd
  BY DEF OwuiInv
<1>2. QED BY OwuiInvariant, <1>1, PTL

\* What a call shows counts upwards, so that nothing comes twice; in the first
\* call, until an event is missed, it is the answer from its beginning; and the
\* reply goes on from it (accumulator.delta).
THEOREM NothingShownIsTakenBack == OwuiSpec => []ShownStands
<1>1. OwuiInv => ShownStands
  <2> SUFFICES ASSUME OwuiInv PROVE ShownStands
    OBVIOUS
  <2>1. call.nr = 0 /\ ~missed => pushed = UpTo(Len(pushed))
    BY DEF OwuiInv, FromTheBeginning
  <2>2. /\ \A i, j \in DOMAIN pushed : i < j => pushed[i] < pushed[j]
        /\ \A i \in DOMAIN pushed : pushed[i] <= task.text
    BY DEF OwuiInv, ShownInOrder
  <2>3. reply.how = "reply" /\ excused = {} => reply.text = task.text
    BY DEF OwuiInv, ReplyTellsTheEnd
  <2>4. QED BY <2>1, <2>2, <2>3 DEF ShownStands
<1>2. QED BY OwuiInvariant, <1>1, PTL

\* A question that was answered does not come back, whatever became of the
\* requests that resolve it (Answer of askuser.go).
THEOREM NoQuestionComesBack == OwuiSpec => []AskedOnce
<1>1. OwuiInv => AskedOnce
  BY DEF OwuiInv
<1>2. QED BY OwuiInvariant, <1>1, PTL
=============================================================================
