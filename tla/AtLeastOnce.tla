---------------------------- MODULE AtLeastOnce ----------------------------
(***************************************************************************)
(* What the outbox promises for the actions a reaction or a poll answer    *)
(* asks for: an action that was accepted is owed until the receiver has    *)
(* had it, or until MaxAttempts calls have failed, and it is dropped only  *)
(* after that.  The owner may ask for a settled one again.                 *)
(***************************************************************************)
EXTENDS Naturals

CONSTANTS Action, MaxAttempts

VARIABLES
  state,     \* "none", "owed", "done", "given up" or "gone"
  reached,   \* actions the receiver has had since they were last asked for
  calls      \* calls made for an action, counted up to MaxAttempts

vars == <<state, reached, calls>>

Init ==
  /\ state = [a \in Action |-> "none"]
  /\ reached = {}
  /\ calls = [a \in Action |-> 0]

Accept(a) ==
  /\ state[a] = "none"
  /\ state' = [state EXCEPT ![a] = "owed"]
  /\ UNCHANGED <<reached, calls>>

Call(a) ==
  /\ state[a] = "owed"
  /\ calls' = [calls EXCEPT ![a] = IF @ < MaxAttempts THEN @ + 1 ELSE @]
  /\ reached' \in {reached, reached \cup {a}}
  /\ UNCHANGED state

Settle(a) ==
  /\ state[a] = "owed" /\ a \in reached
  /\ state' = [state EXCEPT ![a] = "done"]
  /\ UNCHANGED <<reached, calls>>

GiveUp(a) ==
  /\ state[a] = "owed" /\ calls[a] = MaxAttempts
  /\ state' = [state EXCEPT ![a] = "given up"]
  /\ UNCHANGED <<reached, calls>>

AskAgain(a) ==
  /\ state[a] \in {"done", "given up"}
  /\ state' = [state EXCEPT ![a] = "owed"]
  /\ UNCHANGED <<reached, calls>>

Forget(a) ==
  /\ state[a] \in {"done", "given up"}
  /\ state' = [state EXCEPT ![a] = "gone"]
  /\ UNCHANGED <<reached, calls>>

Next ==
  \E a \in Action : \/ Accept(a) \/ Call(a) \/ Settle(a)
                    \/ GiveUp(a) \/ AskAgain(a) \/ Forget(a)

Spec == Init /\ [][Next]_vars
=============================================================================
