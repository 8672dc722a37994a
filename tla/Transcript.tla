----------------------------- MODULE Transcript -----------------------------
(***************************************************************************)
(* The conversations the bridge keeps itself: Send, Answer and Undo of     *)
(* internal/agent/tools.go and openai.go, the loop between the model and   *)
(* its tools (internal/loop), and the table transcripts, for one           *)
(* conversation and the turns, questions, /stop, /undo and deletions the   *)
(* service brings to it.                                                   *)
(*                                                                         *)
(* A turn's state is what its handler holds, or, while it waits for a yes, *)
(* what the map paused holds.  A completion is named by its turn and its   *)
(* number in the turn, its calls by their place in it: that is the id a    *)
(* call without one gets, and the id an answer finds it by.  The openai    *)
(* adapter takes the same steps with a model that calls nothing.  Which    *)
(* model of the chain answered, and what it said, is data; so is what a    *)
(* tool returned.  ask_user is a held call that settling does not run; one *)
(* without a question is left out.                                         *)
(***************************************************************************)
EXTENDS Naturals, Sequences, SequencesExt

CONSTANTS
  T,          \* messages and reruns (bound)
  Calls,      \* calls one completion may make
  Confirm,    \* those to a server marked `confirm'
  R,          \* MaxRounds
  AskLimit,   \* askLimit of the service
  Reruns,     \* may a question be asked again (an edit, /retry)
  Seeded,     \* was the conversation made with a seed
  Commands,   \* /stop, /undo and deletions (bound)
  Faults,     \* what may fail: "model", "append", "post", "process"
  Mishaps     \* failures (bound)

ASSUME TranscriptAssumption ==
  /\ T \in Nat \ {0} /\ Calls \in Nat /\ R \in Nat /\ AskLimit \in Nat
  /\ Commands \in Nat /\ Mishaps \in Nat
  /\ Confirm \subseteq 1 .. Calls
  /\ Reruns \in BOOLEAN /\ Seeded \in BOOLEAN

Turn == 1 .. T
Call == 1 .. Calls
MaxN == (AskLimit + 1) * (R + 1)      \* completions of a turn
Made == (0 .. MaxN) \X Call           \* a call of a turn

\* turnState: whose, the completions so far, the calls it is held at, and
\* the tools that were used.
State == [of : 0 .. T, n : 0 .. MaxN, held : SUBSET Call, used : SUBSET Made]
NoState == [of |-> 0, n |-> 0, held |-> {}, used |-> {}]

Entry == [of : 0 .. T, role : {"user", "assistant"}, used : SUBSET Made]
Seed == [of |-> 0, role |-> "user", used |-> {}]

TurnRec ==
  [pc : {"idle", "begin", "abandon user", "abandon assistant", "read", "complete", "calls",
         "asked", "settle", "user", "assistant", "row", "done"},
   q : 0 .. T,               \* the question it asks, or asks again
   stop : BOOLEAN,           \* turnCtx is cancelled
   dropped : BOOLEAN,        \* the open question was dropped for a message
   st : State,               \* the state it runs; at "asked", its reply.Ask
   old : State,              \* the state that was abandoned
   round : 0 .. R,
   todo : SUBSET Call,       \* calls, questions left to go through
   asks : 0 .. AskLimit,
   yes : SUBSET Call, no : SUBSET Call]   \* the answers

IdleTurn == [pc |-> "idle", q |-> 0, stop |-> FALSE, dropped |-> FALSE, st |-> NoState,
             old |-> NoState, round |-> 0, todo |-> {}, asks |-> 0, yes |-> {}, no |-> {}]

VARIABLES
  turn,      \* the locals of handleTurn, resolveAsks, Send and Answer
  drop,      \* the goroutine of dropQuestion, by turn: its step, its state
  reg,       \* Service.turns for the slot: the latest turn in it, or 0
  paused,    \* tools.paused for the conversation
  trans,     \* table transcripts
  rows,      \* table turns, the questions by age
  commands, mishaps,
  ran,       \* calls that ran: whose, which completion, which call
  allowed,   \* calls the owner said yes to
  excused,   \* turns that were cancelled, failed, taken back, or put out of paused
  crossed    \* a turn began before another had ended

locals == <<turn, drop, reg>>
store == <<trans, rows>>
bounds == <<commands, mishaps>>
history == <<ran, allowed, excused, crossed>>
vars == <<locals, paused, store, bounds, history>>

NoDrop == [pc |-> "none", st |-> NoState]

Init ==
  /\ turn = [t \in Turn |-> IdleTurn] /\ drop = [t \in Turn |-> NoDrop] /\ reg = 0
  /\ paused = NoState
  /\ trans = (IF Seeded THEN <<Seed>> ELSE <<>>) /\ rows = <<>>
  /\ commands = 0 /\ mishaps = 0
  /\ ran = {} /\ allowed = {} /\ excused = {} /\ crossed = FALSE

-----------------------------------------------------------------------------
At(t, pc) == turn[t].pc = pc
Set(t, rec) == turn' = [turn EXCEPT ![t] = rec]
Go(t, pc) == Set(t, [turn[t] EXCEPT !.pc = pc])
Over(t) == turn[t].pc \in {"idle", "done"}

\* Somebody holds the state of the turn.
Live(t) ==
  \/ paused.of = t
  \/ \E s \in Turn : \/ turn[s].old.of = t \/ drop[s].st.of = t
                     \/ turn[s].st.of = t /\ turn[s].pc \notin {"asked", "row"}

Ended(t) == [IdleTurn EXCEPT !.pc = "done", !.q = turn[t].q]

\* handleTurn returns: the slot is freed if it still holds this question.
End(t) ==
  /\ Set(t, Ended(t))
  /\ reg' = IF reg # 0 /\ turn[reg].q = turn[t].q THEN 0 ELSE reg

Mishap(what) == what \in Faults /\ mishaps < Mishaps /\ mishaps' = mishaps + 1

\* resolveAsks returns the reply that asked: what it said, if anything, is
\* posted as the answer.
Returned(t) ==
  \/ End(t)
  \/ Go(t, "row") /\ UNCHANGED reg

\* Send or Answer returns an error: the turn's state is gone.
Fails(t, what) ==
  /\ \/ turn[t].stop /\ UNCHANGED mishaps
     \/ Mishap(what)
  /\ IF turn[t].asks = 0 THEN End(t) ELSE Returned(t)
  /\ excused' = excused \cup {t}

-----------------------------------------------------------------------------
(* A message, an edit or /retry becomes a turn; what ran in the slot is    *)
(* cancelled, and a question that is open is dropped.                      *)

Cancelled == IF reg = 0 THEN {} ELSE {reg}

Arrive(m) ==
  /\ At(m, "idle") /\ \A n \in Turn : n < m => ~At(n, "idle")
  /\ \E q \in {m} \cup (IF Reruns THEN {rows[i] : i \in DOMAIN rows} ELSE {}) :
       turn' = [t \in Turn |->
         IF t = m THEN [IdleTurn EXCEPT !.pc = "begin", !.q = q]
         ELSE [turn[t] EXCEPT !.stop = turn[t].stop \/ t \in Cancelled,
                              !.dropped = turn[t].dropped \/ (At(t, "asked") /\ turn[t].todo # {})]]
  /\ reg' = m
  /\ crossed' = (crossed \/ \E t \in Turn : ~Over(t))
  /\ excused' = excused \cup Cancelled
  /\ UNCHANGED <<drop, paused, store, bounds, ran, allowed>>

\* Mutant: The state that is abandoned stays in the map.
AbandonKeeps(t) ==
  /\ At(t, "begin")
  /\ IF paused = NoState
     THEN Go(t, "read")
     ELSE Set(t, [turn[t] EXCEPT !.pc = "abandon user", !.old = paused])
  /\ UNCHANGED <<drop, reg, paused, store, bounds, history>>

\* abandon takes what waits at a question out of the map.
Abandon(t) ==
  /\ At(t, "begin")
  /\ \/ /\ paused' = NoState
        /\ IF paused = NoState
           THEN Go(t, "read")
           ELSE Set(t, [turn[t] EXCEPT !.pc = "abandon user", !.old = paused])
        /\ UNCHANGED <<reg, mishaps, excused>>
     \/ Fails(t, "session") /\ UNCHANGED paused
  /\ UNCHANGED <<drop, store, commands, ran, allowed, crossed>>

User(st) == [of |-> st.of, role |-> "user", used |-> {}]

\* Mutant: The line that names the tools is left out.
ToolsUnnamed(st) == [of |-> st.of, role |-> "assistant", used |-> {}]
Assistant(st) == [of |-> st.of, role |-> "assistant", used |-> st.used]

\* persist writes two entries; abandon only logs that it could not.
AbandonUser(t) ==
  /\ At(t, "abandon user")
  /\ \/ /\ ~turn[t].stop
        /\ trans' = Append(trans, User(turn[t].old))
        /\ Go(t, "abandon assistant")
        /\ UNCHANGED <<mishaps, excused>>
     \/ /\ (turn[t].stop /\ UNCHANGED mishaps) \/ Mishap("append")
        /\ Set(t, [turn[t] EXCEPT !.pc = "read", !.old = NoState])
        /\ excused' = excused \cup {turn[t].old.of}
        /\ UNCHANGED trans
  /\ UNCHANGED <<drop, reg, paused, rows, commands, ran, allowed, crossed>>

AbandonAssistant(t) ==
  /\ At(t, "abandon assistant")
  /\ \/ /\ ~turn[t].stop
        /\ trans' = Append(trans, Assistant(turn[t].old))
        /\ UNCHANGED <<mishaps, excused>>
     \/ /\ (turn[t].stop /\ UNCHANGED mishaps) \/ Mishap("append")
        /\ excused' = excused \cup {turn[t].old.of}
        /\ UNCHANGED trans
  /\ Set(t, [turn[t] EXCEPT !.pc = "read", !.old = NoState])
  /\ UNCHANGED <<drop, reg, paused, rows, commands, ran, allowed, crossed>>

\* The transcript is read and the turn's state made; the servers are opened.
Read(t) ==
  /\ At(t, "read")
  /\ \/ /\ ~turn[t].stop
        /\ Set(t, [turn[t] EXCEPT !.pc = "complete", !.st = [NoState EXCEPT !.of = t]])
        /\ UNCHANGED <<reg, mishaps, excused>>
     \/ turn[t].stop /\ Fails(t, "append")
  /\ UNCHANGED <<drop, paused, store, commands, ran, allowed, crossed>>

-----------------------------------------------------------------------------
(* Runner.Run: a completion, its calls, a completion, ...                  *)

Another(n) == IF n < MaxN THEN n + 1 ELSE n

\* One model after the other until one answers; one that fails after it has
\* said something fails the turn.  Out of rounds, nothing is offered to call
\* and nothing is called.
Complete(t) ==
  /\ At(t, "complete")
  /\ \/ /\ ~turn[t].stop
        /\ \E calls \in SUBSET Call :
             /\ turn[t].round = R => calls = {}
             /\ Set(t, [turn[t] EXCEPT
                  !.st = [turn[t].st EXCEPT !.n = Another(turn[t].st.n)],
                  !.todo = calls,
                  !.pc = IF calls = {} THEN "user" ELSE "calls"])
        /\ UNCHANGED <<reg, mishaps, excused>>
     \/ Fails(t, "model")
  /\ UNCHANGED <<drop, paused, store, commands, ran, allowed, crossed>>

First(t, c) == c \in turn[t].todo /\ \A d \in turn[t].todo : c <= d

\* Exec: the call is on the list of tools used before it is made, and whether
\* it ran is not known once the turn is cancelled.
Exec(t, c) ==
  \/ ran' = ran \cup {<<turn[t].st.of, <<turn[t].st.n, c>>>>}
  \/ turn[t].stop /\ UNCHANGED ran

Using(t, c) == [turn[t].st EXCEPT !.used = turn[t].st.used \cup {<<turn[t].st.n, c>>}]

\* A call to a server that wants a yes is held; any other runs.
HoldOrExec(t) ==
  /\ At(t, "calls")
  /\ \E c \in Call : First(t, c) /\
       IF c \in Confirm
       THEN /\ Set(t, [turn[t] EXCEPT !.todo = turn[t].todo \ {c},
                         !.st = [turn[t].st EXCEPT !.held = turn[t].st.held \cup {c}]])
            /\ UNCHANGED ran
       ELSE /\ Exec(t, c)
            /\ Set(t, [turn[t] EXCEPT !.todo = turn[t].todo \ {c}, !.st = Using(t, c)])
  /\ UNCHANGED <<drop, reg, paused, store, bounds, allowed, excused, crossed>>

\* Mutant: The budget is not counted.
NextRoundFree(t) ==
  /\ At(t, "calls") /\ turn[t].todo = {} /\ turn[t].st.held = {}
  /\ Go(t, "complete")
  /\ UNCHANGED <<drop, reg, paused, store, bounds, history>>

NextRound(t) ==
  /\ At(t, "calls") /\ turn[t].todo = {} /\ turn[t].st.held = {}
  /\ Set(t, [turn[t] EXCEPT !.pc = "complete", !.round = turn[t].round + 1])
  /\ UNCHANGED <<drop, reg, paused, store, bounds, history>>

\* The state goes into the map under a new token, over what a turn that
\* crossed this one may have left there.  A model that has asked askLimit
\* times is not answered, and the state stays there.
Pause(t) ==
  /\ At(t, "calls") /\ turn[t].todo = {} /\ turn[t].st.held # {}
  /\ paused' = turn[t].st
  /\ excused' = excused \cup {paused.of}
  /\ IF turn[t].asks = AskLimit
     THEN Returned(t)
     ELSE /\ Set(t, [turn[t] EXCEPT !.pc = "asked", !.todo = turn[t].st.held,
                       !.asks = turn[t].asks + 1, !.yes = {}, !.no = {}, !.dropped = FALSE])
          /\ UNCHANGED reg
  /\ UNCHANGED <<drop, store, bounds, ran, allowed, crossed>>

-----------------------------------------------------------------------------
(* resolveAsks: one poll after the other, then Answer.                     *)

Asked(t, c) == At(t, "asked") /\ First(t, c)
Left(t, c) == [turn[t] EXCEPT !.todo = turn[t].todo \ {c}, !.dropped = FALSE]

Allow(t) ==
  /\ \E c \in Call : Asked(t, c) /\ ~turn[t].stop
       /\ Set(t, [Left(t, c) EXCEPT !.yes = turn[t].yes \cup {c}])
       /\ allowed' = allowed \cup {<<turn[t].st.of, <<turn[t].st.n, c>>>>}
  /\ UNCHANGED <<drop, reg, paused, store, bounds, ran, excused, crossed>>

Deny(t) ==
  /\ \E c \in Call : Asked(t, c) /\ ~turn[t].stop
       /\ Set(t, [Left(t, c) EXCEPT !.no = turn[t].no \cup {c}])
  /\ UNCHANGED <<drop, reg, paused, store, bounds, history>>

\* The time is up, the poll could not be sent, or the turn is cancelled.
Unanswered(t) ==
  /\ \E c \in Call : Asked(t, c) /\ Set(t, Left(t, c))
  /\ UNCHANGED <<drop, reg, paused, store, bounds, history>>

\* The question was dropped for a message: dropQuestion closes it in the
\* background, and the turn is over.
Dropped(t) ==
  /\ At(t, "asked") /\ turn[t].dropped
  /\ drop' = [drop EXCEPT ![t] = [pc |-> "answer", st |-> turn[t].st]]
  /\ End(t)
  /\ UNCHANGED <<paused, store, bounds, history>>

SameToken(st) == paused.of = st.of /\ paused.n = st.n

\* Mutant: Whatever waits is resumed, whichever question was answered.
AnswerAny(t) ==
  /\ At(t, "asked") /\ turn[t].todo = {}
  /\ IF paused = NoState
     THEN Returned(t)
     ELSE /\ Set(t, [turn[t] EXCEPT !.st = paused, !.round = 0,
                       !.todo = IF turn[t].yes \cup turn[t].no = {} THEN {} ELSE paused.held,
                       !.pc = IF turn[t].yes \cup turn[t].no = {} THEN "user" ELSE "settle"])
          /\ UNCHANGED reg
  /\ paused' = NoState
  /\ UNCHANGED <<drop, store, bounds, history>>

\* The state of the token is taken out of the map; without it there is no
\* reply.  With no answers at all the turn is recorded as it is.
Answer(t) ==
  /\ At(t, "asked") /\ turn[t].todo = {}
  /\ IF paused = NoState \/ ~SameToken(turn[t].st)
     THEN Returned(t) /\ UNCHANGED paused
     ELSE /\ paused' = NoState
          /\ Set(t, [turn[t] EXCEPT !.st = paused, !.round = 0,
                       !.todo = IF turn[t].yes \cup turn[t].no = {} THEN {} ELSE paused.held,
                       !.pc = IF turn[t].yes \cup turn[t].no = {} THEN "user" ELSE "settle"])
          /\ UNCHANGED reg
  /\ UNCHANGED <<drop, store, bounds, history>>

\* A call runs on a yes; for any other answer the model is told.
Settle(t) ==
  /\ At(t, "settle")
  /\ \E c \in Call : First(t, c) /\
       IF c \in turn[t].yes
       THEN /\ Exec(t, c)
            /\ Set(t, [turn[t] EXCEPT !.todo = turn[t].todo \ {c}, !.st = Using(t, c)])
       ELSE /\ Set(t, [turn[t] EXCEPT !.todo = turn[t].todo \ {c}])
            /\ UNCHANGED ran
  /\ UNCHANGED <<drop, reg, paused, store, bounds, allowed, excused, crossed>>

Settled(t) ==
  /\ At(t, "settle") /\ turn[t].todo = {}
  /\ Set(t, [turn[t] EXCEPT !.pc = "complete", !.yes = {}, !.no = {},
               !.st = [turn[t].st EXCEPT !.held = {}]])
  /\ UNCHANGED <<drop, reg, paused, store, bounds, history>>

-----------------------------------------------------------------------------
(* The end of a turn: persist, and the row of table turns.                 *)

WriteUser(t) ==
  /\ At(t, "user")
  /\ \/ /\ ~turn[t].stop
        /\ trans' = Append(trans, User(turn[t].st))
        /\ Go(t, "assistant")
        /\ UNCHANGED <<reg, mishaps, excused>>
     \/ Fails(t, "append") /\ UNCHANGED trans
  /\ UNCHANGED <<drop, paused, rows, commands, ran, allowed, crossed>>

WriteAssistant(t) ==
  /\ At(t, "assistant")
  /\ \/ /\ ~turn[t].stop
        /\ trans' = Append(trans, Assistant(turn[t].st))
        /\ Go(t, "row")
        /\ UNCHANGED <<reg, mishaps, excused>>
     \/ Fails(t, "append") /\ UNCHANGED trans
  /\ UNCHANGED <<drop, paused, rows, commands, ran, allowed, crossed>>

\* The answer is posted, then PutTurn: asked again, a question keeps its
\* place.  Neither looks at turnCtx.
PutTurn(t) ==
  /\ At(t, "row")
  /\ \/ /\ rows' = IF \E i \in DOMAIN rows : rows[i] = turn[t].q
                   THEN rows ELSE Append(rows, turn[t].q)
        /\ UNCHANGED mishaps
     \/ Mishap("post") /\ UNCHANGED rows
  /\ End(t)
  /\ UNCHANGED <<drop, paused, trans, commands, history>>

-----------------------------------------------------------------------------
(* The goroutine of dropQuestion: Answer without answers, on a context of  *)
(* its own.                                                                *)

DropAnswer(t) ==
  /\ drop[t].pc = "answer"
  /\ IF paused = NoState \/ ~SameToken(drop[t].st)
     THEN drop' = [drop EXCEPT ![t] = NoDrop] /\ UNCHANGED paused
     ELSE drop' = [drop EXCEPT ![t] = [pc |-> "user", st |-> paused]] /\ paused' = NoState
  /\ UNCHANGED <<turn, reg, store, bounds, history>>

DropWrite(t) ==
  /\ drop[t].pc \in {"user", "assistant"}
  /\ \/ /\ trans' = Append(trans, IF drop[t].pc = "user" THEN User(drop[t].st)
                                  ELSE Assistant(drop[t].st))
        /\ drop' = [drop EXCEPT ![t] = IF drop[t].pc = "user"
                      THEN [drop[t] EXCEPT !.pc = "assistant"] ELSE NoDrop]
        /\ UNCHANGED <<mishaps, excused>>
     \/ /\ Mishap("append")
        /\ drop' = [drop EXCEPT ![t] = NoDrop]
        /\ excused' = excused \cup {drop[t].st.of}
        /\ UNCHANGED trans
  /\ UNCHANGED <<turn, reg, paused, rows, commands, ran, allowed, crossed>>

-----------------------------------------------------------------------------
(* /stop, /undo, deleting a question, and the end of the process.          *)

\* commandStop, and cancelDeletedTurn for the question in the slot.
Stop ==
  /\ reg # 0 /\ commands < Commands
  /\ commands' = commands + 1
  /\ turn' = [turn EXCEPT ![reg] = [turn[reg] EXCEPT !.stop = TRUE]]
  /\ excused' = excused \cup {reg}
  /\ reg' = 0
  /\ UNCHANGED <<drop, paused, store, mishaps, ran, allowed, crossed>>

\* Mutant: The two oldest entries are dropped.
TrimOldest(s) == SubSeq(s, 3, Len(s))

\* Undo: TrimTranscript drops the two newest entries, whosever they are.
Trim(s) == IF Len(s) < 2 THEN <<>> ELSE SubSeq(s, 1, Len(s) - 2)

Runs(q) == {t \in Turn : turn[t].q = q}

\* commandUndo for the newest question; undoDeletedTurn for any that is not
\* running.
Undo ==
  /\ commands < Commands
  /\ commands' = commands + 1
  /\ trans' = Trim(trans)
  /\ \E i \in DOMAIN rows :
       /\ rows' = RemoveAt(rows, i)
       /\ i < Len(rows) => (reg # 0 => turn[reg].q # rows[i])
       /\ excused' = excused \cup Runs(rows[i]) \cup {e.of : e \in ToSet(trans) \ ToSet(trans')}
  /\ UNCHANGED <<locals, paused, mishaps, ran, allowed, crossed>>

\* What the process held is gone.
Restart ==
  /\ Mishap("process")
  /\ turn' = [t \in Turn |-> IF At(t, "idle") THEN turn[t] ELSE Ended(t)]
  /\ drop' = [t \in Turn |-> NoDrop] /\ reg' = 0 /\ paused' = NoState
  /\ excused' = excused \cup {t \in Turn : Live(t) \/ ~Over(t)}
  /\ UNCHANGED <<store, commands, ran, allowed, crossed>>

\* A handler goes on.  With calls = {} in Complete these are the steps of the
\* openai adapter: read, one completion, append twice, post and record.
TurnStep(t) ==
  \/ Abandon(t) \/ AbandonUser(t) \/ AbandonAssistant(t) \/ Read(t)
  \/ Complete(t) \/ HoldOrExec(t) \/ NextRound(t) \/ Pause(t)
  \/ Unanswered(t) \/ Dropped(t) \/ Answer(t) \/ Settle(t) \/ Settled(t)
  \/ WriteUser(t) \/ WriteAssistant(t) \/ PutTurn(t)

DropStep(t) == DropAnswer(t) \/ DropWrite(t)

Next ==
  \/ \E t \in Turn : Arrive(t) \/ TurnStep(t) \/ DropStep(t) \/ Allow(t) \/ Deny(t)
  \/ Stop \/ Undo \/ Restart

\* Handlers and goroutines keep running; the model answers or fails, and a
\* question that is not answered times out.
Fairness == \A t \in Turn : WF_vars(TurnStep(t)) /\ WF_vars(DropStep(t))

Spec == Init /\ [][Next]_vars /\ Fairness
-----------------------------------------------------------------------------
(* What must hold.                                                         *)

\* Every variable stays in its set.
TypeOK ==
  /\ turn \in [Turn -> TurnRec] /\ reg \in 0 .. T
  /\ drop \in [Turn -> [pc : {"none", "answer", "user", "assistant"}, st : State]]
  /\ paused \in State
  /\ trans \in Seq(Entry) /\ rows \in Seq(0 .. T)
  /\ commands \in 0 .. Commands /\ mishaps \in 0 .. Mishaps
  /\ ran \subseteq Turn \X Made /\ allowed \subseteq Turn \X Made
  /\ excused \subseteq 0 .. T /\ crossed \in BOOLEAN

\* A call to a server marked `confirm' runs only if the owner said yes to that
\* very call, whatever was asked, dropped, cancelled or asked again since
\* (tools.go:30-31, 186-197, 238-243).
OnlyAllowed == \A call \in ran : call[2][2] \in Confirm => call \in allowed

\* A turn is recorded once, whoever comes to close it: its handler, the next
\* turn, or the goroutine that drops its question (tools.go:263-311).
OneRecordEach ==
  \A i, j \in DOMAIN trans :
    trans[i].of = trans[j].of /\ trans[i].role = trans[j].role => i = j

\* A tool that ran is named in the transcript, or its turn is still under way
\* or waiting, or was cancelled, failed or was taken back (tools.go:33-35).
NamedOnRecord ==
  \A call \in ran :
    \/ Live(call[1]) \/ call[1] \in excused
    \/ \E i \in DOMAIN trans : trans[i].of = call[1] /\ call[2] \in trans[i].used

\* A question is on record while two entries of its turns are there.
IsOf(q, t) == t # 0 /\ turn[t].q = q
OnRecord(q) == \E i, j \in DOMAIN trans : i < j /\ IsOf(q, trans[i].of) /\ IsOf(q, trans[j].of)

\* What /undo takes out of the transcript with the newest question, when that
\* is on record, is nothing of a turn before it, nor the seed, as long as turns
\* did not cross (openai.go:228-233).
UndoTakesNoOther ==
  [][ Len(rows') < Len(rows) /\ rows' = Front(rows) /\ ~crossed /\ OnRecord(Last(rows)) =>
        \A e \in ToSet(trans) \ ToSet(trans') : e.of >= Last(rows) ]_vars

\* Every turn ends, however many questions and rounds it takes.
TurnsEnd == \A t \in Turn : At(t, "begin") ~> At(t, "done")

=============================================================================
