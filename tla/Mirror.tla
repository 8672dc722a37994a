------------------------------- MODULE Mirror -------------------------------
(***************************************************************************)
(* The mirror of one ntfy topic, internal/source/ntfy.go, which announces  *)
(* every message of the topic through Notify (main.go gives it to the      *)
(* source as emit).  The messages of the topic are the notifications       *)
(* 1 .. M, in the order they are published; the other notifications come   *)
(* from the HTTP API and share the queue.                                  *)
(***************************************************************************)
EXTENDS Announce

CONSTANTS
  M,           \* messages published to the topic (bound)
  Low,         \* those below the topic's min_priority
  MaxBreaks    \* dropped streams, forgotten ids, failed kv writes (bound)

ASSUME MirrorAssumption ==
  /\ M \in Nat /\ 1 .. M \subseteq Note \ Unkeyed
  /\ Low \subseteq 1 .. M
  /\ MaxBreaks \in Nat

VARIABLES
  published,   \* how many messages the topic has
  cursor,      \* kv ntfy_since: the last message dealt with, or 0
  sub,         \* the subscription: its step, its position, its call
  failed,      \* messages whose emit has failed
  missed,      \* messages the server did not send
  breaks

feed == <<published, cursor, sub, failed, missed, breaks>>
mirrorVars == <<vars, feed>>

\* The subscription's step, the message it is at, and its call of Notify.
At(a, m, t) == [at |-> a, m |-> m, t |-> t]
Down == At("down", 0, 0)

MirrorInit ==
  /\ Init
  /\ published = 0
  /\ cursor = 0
  /\ sub = Down
  /\ failed = {}
  /\ missed = {}
  /\ breaks = 0

Break == breaks < MaxBreaks /\ breaks' = breaks + 1

Publish ==
  /\ published < M
  /\ published' = published + 1
  /\ UNCHANGED <<vars, cursor, sub, failed, missed, breaks>>

\* The stream is opened after a position; what lies between the cursor and it
\* does not come.
OpenAfter(p) ==
  /\ sub' = At("reading", p, 0)
  /\ missed' = missed \cup {m \in 1 .. M : cursor < m /\ m <= p}

\* since: after the stored message, or from now on when there is none.
Connect ==
  /\ sub.at = "down"
  /\ OpenAfter(IF cursor = 0 THEN published ELSE cursor)
  /\ UNCHANGED <<vars, published, cursor, failed, breaks>>

\* The server has dropped the stored id: the last hour, whatever that holds.
ConnectFallback ==
  /\ sub.at = "down" /\ cursor # 0
  /\ \E p \in 0 .. published : OpenAfter(p)
  /\ Break
  /\ UNCHANGED <<vars, published, cursor, failed>>

Drop ==
  /\ sub.at = "reading"
  /\ sub' = Down
  /\ Break
  /\ UNCHANGED <<vars, published, cursor, failed, missed>>

Read == sub.at = "reading" /\ sub.m < published

\* A message below the threshold is remembered and not shown.
ReadLow ==
  /\ Read /\ sub.m + 1 \in Low
  /\ sub' = At("remember", sub.m + 1, 0)
  /\ UNCHANGED <<vars, published, cursor, failed, missed, breaks>>

\* Mutant: the cursor moves before the message is handed on.
RememberThenEmit(t) ==
  /\ Read /\ sub.m + 1 \notin Low
  /\ Notify(t, sub.m + 1)
  /\ sub' = At("emit", sub.m + 1, t)
  /\ cursor' = sub.m + 1
  /\ UNCHANGED <<published, failed, missed, breaks>>

Emit(t) ==
  /\ Read /\ sub.m + 1 \notin Low
  /\ Notify(t, sub.m + 1)
  /\ sub' = At("emit", sub.m + 1, t)
  /\ UNCHANGED <<published, cursor, failed, missed, breaks>>

\* The failure is logged and the next message is read.
EmitFails ==
  /\ sub.at = "emit" /\ st[sub.t] \in {"failed", "refused"}
  /\ sub' = At("reading", sub.m, 0)
  /\ failed' = failed \cup {sub.m}
  /\ UNCHANGED <<vars, published, cursor, missed, breaks>>

EmitReturns ==
  /\ sub.at = "emit" /\ st[sub.t] \in {"posted", "duplicate"}
  /\ sub' = At("remember", sub.m, 0)
  /\ UNCHANGED <<vars, published, cursor, failed, missed, breaks>>

Remember ==
  /\ sub.at = "remember"
  /\ sub' = At("reading", sub.m, 0)
  /\ cursor' = sub.m
  /\ UNCHANGED <<vars, published, failed, missed, breaks>>

RememberFails ==
  /\ sub.at = "remember"
  /\ sub' = At("reading", sub.m, 0)
  /\ Break
  /\ UNCHANGED <<vars, published, cursor, failed, missed>>

SubStep ==
  \/ Connect \/ ReadLow \/ (\E t \in Call : Emit(t))
  \/ EmitFails \/ EmitReturns \/ Remember \/ RememberFails

\* The process is killed and started again.
Restart ==
  /\ Crash
  /\ sub' = Down
  /\ UNCHANGED <<published, cursor, failed, missed, breaks>>

\* What the other callers of Notify do; the subscription never leaves a call.
ApiNext ==
  /\ \E t \in Call : \/ t # sub.t /\ Leave(t)
                     \/ Cleanup(t)
                     \/ \E n \in Note \ (1 .. M) : Notify(t, n)
  /\ UNCHANGED feed

MirrorNext ==
  \/ Publish \/ ConnectFallback \/ Drop \/ Restart
  \/ SubStep
  \/ ApiNext
  \/ WorkerStep /\ UNCHANGED feed

\* The send worker and the subscription run on; a send comes back within the
\* client's timeout, and the backoff between two connections ends.
MirrorFairness ==
  /\ WF_mirrorVars(WorkerStep /\ UNCHANGED feed)
  /\ WF_mirrorVars(SubStep)

MirrorSpec == MirrorInit /\ [][MirrorNext]_mirrorVars /\ MirrorFairness
-----------------------------------------------------------------------------
(* What must hold.                                                         *)

\* Every variable stays in its set.
MirrorTypeOK ==
  /\ TypeOK
  /\ published \in 0 .. M
  /\ cursor \in 0 .. M
  /\ sub \in [at : {"down", "reading", "emit", "remember"}, m : 0 .. M,
              t : 0 .. N]
  /\ failed \in SUBSET (1 .. M)
  /\ missed \in SUBSET (1 .. M)
  /\ breaks \in 0 .. MaxBreaks

Shown(m) == \E t \in posted : note[t] = m

\* The cursor has no holes that nothing explains: a message at or before it is
\* in the room, or is below the threshold, or its emit failed, or the server
\* did not send it; no crash, reconnect or failed write loses one silently.
NoSilentHole ==
  \A m \in 1 .. cursor : Shown(m) \/ m \in Low \cup failed \cup missed

\* A message that is published gets to the room, unless its emit fails or the
\* server does not send it (or the bound on calls is reached).
EveryMessageMirrored ==
  \A m \in 1 .. M :
    published >= m ~> \/ Shown(m) \/ m \in Low \cup failed \cup missed
                      \/ N \notin Call \/ st[N] # "none"

(* What the code says of itself and does not do.                           *)

\* ntfy.go: "Do not advance `since`: a failure here should be retried on the
\* next reconnect rather than silently dropped."
FailedIsRetried == \A m \in failed : Shown(m) \/ cursor < m
=============================================================================
