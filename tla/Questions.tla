----------------------------- MODULE Questions -----------------------------
(***************************************************************************)
(* The model asks the owner something: internal/service/askuser.go, with   *)
(* the part of conversation.go that hands it a message or a cancellation   *)
(* and the polls of internal/store/store.go, for one slot and one          *)
(* conversation.                                                           *)
(*                                                                         *)
(* A turn whose reply stops at staged questions asks them as polls, one    *)
(* after the other, and resumes with the answers, which may end in more    *)
(* questions.  Votes, typed messages, /stop and the timeout all meet at    *)
(* one select.  A message is named by its number, and so is the turn it    *)
(* becomes and the message of the backend that turn produces, whose        *)
(* content is a set of numbered pieces of text.  Which option was picked   *)
(* and what was typed is data the properties do not tell apart.            *)
(***************************************************************************)
EXTENDS Naturals, FiniteSets

CONSTANTS
  M,          \* messages the owner types (bound)
  Q,          \* questions of one ask_user call
  Free,       \* questions that accept a typed answer (allow_other)
  AskLimit,   \* askLimit
  Talks,      \* the model may say something before it asks
  Faults      \* calls that may fail: "poll", "row", "settle", "say",
              \* "answer", "send", "post"

ASSUME QuestionsAssumption ==
  /\ M \in Nat \ {0} /\ Q \in Nat \ {0} /\ AskLimit \in Nat \ {0}
  /\ Free \subseteq 1 .. Q
  /\ Talks \in BOOLEAN

Turn == 1 .. M
Piece == 1 .. AskLimit + 1
Poll == Turn \X (1 .. AskLimit) \X (1 .. Q)
None == <<0, 0, 0>>

\* What may end the wait for an answer.
Event == {"vote", "text", "dropped", "cancelled"}
Outcome == Event \cup {"none", "timeout"}

TurnRec ==
  [pc : {"idle", "spawned", "begin", "sending", "loop", "poll", "row", "await",
         "arming", "select", "settle", "leave", "answer", "post", "advance",
         "finish", "done"},
   stop : BOOLEAN,            \* turnCtx is cancelled
   from : 0 .. M,             \* conv.Parent
   round : 0 .. AskLimit, q : 0 .. Q,
   ask : BOOLEAN, text : SUBSET Piece,   \* reply.Ask # nil, reply.Text
   said : SUBSET Piece,
   ready : SUBSET Event,      \* channels of the open question that are ready
   out : Outcome,             \* the case the select took
   hurt : BOOLEAN]            \* a call that was to close something failed,
                              \* for no cancellation

IdleTurn == [pc |-> "idle", stop |-> FALSE, from |-> 0, round |-> 0, q |-> 0,
             ask |-> FALSE, text |-> {}, said |-> {}, ready |-> {},
             out |-> "none", hurt |-> FALSE]

VARIABLES
  turn,      \* the locals of handleTurn and of what it calls
  reg,       \* Service.turns for the slot, or 0
  pending,   \* Service.pendingAsks for the slot: the open question, or None
  msg,       \* what became of a message: next step of its onMessage
  drops,     \* the question a message was offered to and drops, or None
  tip,       \* parent of the next turn, as the session has it
  open,      \* polls in the room that are neither ended nor removed
  rows,      \* polls with a row in table polls
  call,      \* backend: the staged call of a turn's message
  content,   \* backend: the text of a turn's message
  closing,   \* turns whose dropQuestion goroutine is running
  posted,    \* pieces of text in the room
  repeated   \* those that are there twice

offers == <<msg, drops>>
backend == <<call, content, closing>>
chat == <<posted, repeated>>
vars == <<turn, reg, pending, msg, drops, tip, open, rows, call,
          content, closing, posted, repeated>>

\* The poll a turn is busy with.
PollOf(t) == <<t, turn[t].round, turn[t].q>>

Awaiting == {"arming", "select", "settle", "leave"}

\* waiters has an entry for this poll; so has its openQuestion, if anybody
\* still holds it.
IsAwaited(p) ==
  \E t \in Turn : turn[t].pc \in Awaiting /\ PollOf(t) = p

-----------------------------------------------------------------------------
(* Reaching the select of askOne.                                          *)

\* A goroutine parked in the select takes the first thing that happens; one
\* that has yet to get there finds it in a channel; later it is left there.
Reached(t, e) ==
  CASE turn[t].pc = "select" ->
         [turn[t] EXCEPT !.pc = "settle", !.out = e]
    [] turn[t].pc \in {"await", "arming"} ->
         [turn[t] EXCEPT !.ready = @ \cup {e}]
    [] OTHER -> turn[t]

\* Cancelling turnCtx, which every later call that takes it notices.
Cancelled(t) ==
  [Reached(t, "cancelled") EXCEPT !.stop = TRUE]

Hurt(t) == turn[t].hurt \/ ~turn[t].stop

Step(t, from, to) ==
  /\ turn[t].pc = from
  /\ turn' = [turn EXCEPT ![t].pc = to]

-----------------------------------------------------------------------------
(* The owner.                                                              *)

NextMessage(m) == msg[m] = "unsent" /\ \A n \in Turn : n < m => msg[n] # "unsent"

Spawned(m) == [IdleTurn EXCEPT !.pc = "spawned"]

\* offerMessage with nothing open: the message is a turn.
OfferNothing(m) ==
  /\ NextMessage(m) /\ pending = None
  /\ msg' = [msg EXCEPT ![m] = "turn"]
  /\ turn' = [turn EXCEPT ![m] = Spawned(m)]
  /\ UNCHANGED <<reg, pending, drops, tip, open, rows, backend, chat>>

\* The open question is taken out of the registry and gets the message.  The
\* channel has room: an entry is taken out once.
OfferAnswer(m) ==
  /\ NextMessage(m) /\ pending # None /\ pending[3] \in Free
  /\ pending' = None
  /\ msg' = [msg EXCEPT ![m] = "answer"]
  /\ turn' = [turn EXCEPT ![pending[1]] = Reached(pending[1], "text")]
  /\ UNCHANGED <<reg, drops, tip, open, rows, backend, chat>>

OfferDrop(m) ==
  /\ NextMessage(m) /\ pending # None /\ pending[3] \notin Free
  /\ pending' = None
  /\ msg' = [msg EXCEPT ![m] = "dropping"]
  /\ drops' = [drops EXCEPT ![m] = pending]
  /\ UNCHANGED <<turn, reg, tip, open, rows, backend, chat>>

\* Mutant: the message becomes a turn from where the last one began.
StayBehind(m) ==
  /\ msg[m] = "dropping"
  /\ msg' = [msg EXCEPT ![m] = "closing"]
  /\ UNCHANGED <<turn, reg, pending, drops, tip, open, rows, backend, chat>>

\* The parent moves past the question that was asked and ignored.
MovePast(m) ==
  /\ msg[m] = "dropping"
  /\ msg' = [msg EXCEPT ![m] = "closing"]
  /\ tip' = drops[m][1]
  /\ UNCHANGED <<turn, reg, pending, drops, open, rows, backend, chat>>

\* close(abandoned), and the message is a turn.
CloseAbandoned(m) ==
  LET p == drops[m]
      t == p[1]
  IN  /\ msg[m] = "closing"
      /\ msg' = [msg EXCEPT ![m] = "turn"]
      /\ turn' = [turn EXCEPT
                    ![t] = IF PollOf(t) = p THEN Reached(t, "dropped") ELSE @,
                    ![m] = Spawned(m)]
      /\ UNCHANGED <<reg, pending, drops, tip, open, rows, backend,
                     chat>>

\* onPollResponse: the vote is recorded with the poll, if we have it, and its
\* waiter is told.  A vote that nobody waits for changes nothing else.
OnPollResponse(p) ==
  /\ p \in rows /\ IsAwaited(p)
  /\ turn' = [turn EXCEPT ![p[1]] = Reached(p[1], "vote")]
  /\ UNCHANGED <<reg, pending, offers, tip, open, rows, backend, chat>>

\* A message that says /stop is not offered; it cancels the registered turn.
\* That the backend is told as well changes nothing here.
CommandStop(m) ==
  /\ NextMessage(m) /\ reg # 0
  /\ msg' = [msg EXCEPT ![m] = "stop"]
  /\ turn' = [turn EXCEPT ![reg] = Cancelled(reg)]
  /\ reg' = 0
  /\ UNCHANGED <<pending, drops, tip, open, rows, backend, chat>>

-----------------------------------------------------------------------------
(* handleTurn up to the reply.                                             *)

Register(t) ==
  /\ turn[t].pc = "spawned"
  /\ turn' = [u \in Turn |-> IF u = t THEN [turn[u] EXCEPT !.pc = "begin"]
                             ELSE IF u = reg THEN Cancelled(u) ELSE turn[u]]
  /\ reg' = t
  /\ UNCHANGED <<pending, offers, tip, open, rows, backend, chat>>

\* sessionFor reads the parent the turn continues from.
Begin(t) ==
  /\ turn[t].pc = "begin"
  /\ turn' = [turn EXCEPT ![t] =
                IF turn[t].stop THEN [@ EXCEPT !.pc = "finish"]
                ELSE [@ EXCEPT !.pc = "sending", !.from = tip]]
  /\ UNCHANGED <<reg, pending, offers, tip, open, rows, backend, chat>>

\* What the reply says that the room has not been told: withoutPrefix takes
\* off what was posted, if the content starts with it.
WithoutPrefix(text, said) ==
  IF \E i \in text \ said, j \in said : i < j THEN text ELSE text \ said

\* The message of the backend is complete.
Finishes(t) ==
  LET whole == content[t] \cup {turn[t].round + 1}
  IN  /\ turn' = [turn EXCEPT ![t] =
                    [@ EXCEPT !.pc = "post", !.ask = FALSE,
                              !.text = WithoutPrefix(whole, turn[t].said)]]
      /\ content' = [content EXCEPT ![t] = whole]
      /\ call' = [call EXCEPT ![t] = IF @ = "none" THEN @ ELSE "resolved"]

\* It stops to ask, with or without a word before the question.
StopsToAsk(t) ==
  \E more \in IF Talks THEN SUBSET {turn[t].round + 1} ELSE {{}} :
    LET whole == content[t] \cup more
    IN  /\ turn' = [turn EXCEPT ![t] =
                      [@ EXCEPT !.pc = "loop", !.ask = TRUE,
                                !.text = WithoutPrefix(whole, turn[t].said)]]
        /\ content' = [content EXCEPT ![t] = whole]
        /\ call' = [call EXCEPT ![t] = "staged"]

SendReturns(t) ==
  /\ turn[t].pc = "sending"
  /\ Finishes(t) \/ StopsToAsk(t)
  /\ UNCHANGED <<reg, pending, offers, tip, open, rows, closing, chat>>

SendFails(t) ==
  /\ turn[t].stop \/ "send" \in Faults
  /\ Step(t, "sending", "finish")
  /\ UNCHANGED <<reg, pending, offers, tip, open, rows, backend, chat>>

-----------------------------------------------------------------------------
(* resolveAsks.                                                            *)

\* A reply that is given up on is posted if it says anything.
AfterAsks(t) == IF turn[t].text = {} THEN "finish" ELSE "post"

Say(text, t) ==
  LET new == {<<t, i>> : i \in text}
  IN  /\ posted' = posted \cup new
      /\ repeated' = repeated \cup (posted \cap new)

AskLimitReached(t) ==
  /\ turn[t].round = AskLimit
  /\ Step(t, "loop", AfterAsks(t))
  /\ UNCHANGED <<reg, pending, offers, tip, open, rows, backend, chat>>

\* What was said before the questions is posted; a failure is logged.
StartRound(t) ==
  /\ turn[t].pc = "loop" /\ turn[t].round < AskLimit
  /\ turn' = [turn EXCEPT ![t] =
                [@ EXCEPT !.pc = "poll", !.round = turn[t].round + 1,
                          !.q = 1, !.said = turn[t].text]]
  /\ \/ Say(turn[t].text, t)
     \/ (turn[t].stop \/ "say" \in Faults) /\ UNCHANGED chat
  /\ UNCHANGED <<reg, pending, offers, tip, open, rows, backend>>

\* The turn after a question that is dealt with: one that was dropped ends it,
\* any other way on is the next question, or the answers.
AfterQuestion(t, out) ==
  LET r == [turn[t] EXCEPT !.out = out, !.ready = {}]
  IN  IF out = "dropped" THEN [r EXCEPT !.pc = "finish"]
      ELSE IF turn[t].q < Q THEN [r EXCEPT !.pc = "poll", !.q = @ + 1]
      ELSE [r EXCEPT !.pc = "answer"]

SendPoll(t) ==
  /\ ~turn[t].stop
  /\ Step(t, "poll", "row")
  /\ open' = open \cup {PollOf(t)}
  /\ UNCHANGED <<reg, pending, offers, tip, rows, backend, chat>>

\* The question goes unanswered.  A cancelled call may have gone out.
SendPollFails(t) ==
  /\ turn[t].pc = "poll"
  /\ turn[t].stop \/ "poll" \in Faults
  /\ turn' = [turn EXCEPT ![t] = AfterQuestion(t, "none")]
  /\ \/ UNCHANGED open
     \/ turn[t].stop /\ open' = open \cup {PollOf(t)}
  /\ UNCHANGED <<reg, pending, offers, tip, rows, backend, chat>>

PutPoll(t) ==
  /\ ~turn[t].stop
  /\ Step(t, "row", "await")
  /\ rows' = rows \cup {PollOf(t)}
  /\ UNCHANGED <<reg, pending, offers, tip, open, backend, chat>>

\* The question goes unanswered, and its poll stays.
PutPollFails(t) ==
  /\ turn[t].pc = "row"
  /\ turn[t].stop \/ "row" \in Faults
  /\ turn' = [turn EXCEPT ![t] =
                [AfterQuestion(t, "none") EXCEPT !.hurt = Hurt(t)]]
  /\ UNCHANGED <<reg, pending, offers, tip, open, rows, backend, chat>>

\* waiters.Store and awaitingAnswer.
AwaitingAnswer(t) ==
  /\ Step(t, "await", "arming")
  /\ pending' = PollOf(t)
  /\ UNCHANGED <<reg, offers, tip, open, rows, backend, chat>>

\* The select takes one of the cases that are ready, or parks.
Select(t) ==
  /\ turn[t].pc = "arming"
  /\ \/ /\ turn[t].ready = {}
        /\ turn' = [turn EXCEPT ![t].pc = "select"]
     \/ \E e \in turn[t].ready :
          turn' = [turn EXCEPT ![t] = [@ EXCEPT !.pc = "settle", !.out = e]]
  /\ UNCHANGED <<reg, pending, offers, tip, open, rows, backend, chat>>

\* Mutant: a question that takes a typed answer waits for one.
TimesOutUnlessFree(t) ==
  /\ turn[t].pc = "select" /\ turn[t].q \notin Free
  /\ turn' = [turn EXCEPT ![t] = [@ EXCEPT !.pc = "settle",
                                           !.out = "timeout"]]
  /\ UNCHANGED <<reg, pending, offers, tip, open, rows, backend, chat>>

TimesOut(t) ==
  /\ turn[t].pc = "select"
  /\ turn' = [turn EXCEPT ![t] = [@ EXCEPT !.pc = "settle",
                                           !.out = "timeout"]]
  /\ UNCHANGED <<reg, pending, offers, tip, open, rows, backend, chat>>

\* settlePoll ends the poll, or removes it.
SettlePoll(t) ==
  /\ ~turn[t].stop
  /\ Step(t, "settle", "leave")
  /\ open' = open \ {PollOf(t)}
  /\ UNCHANGED <<reg, pending, offers, tip, rows, backend, chat>>

\* It does so under turnCtx; a cancelled call may have gone out.
SettlePollFails(t) ==
  /\ turn[t].pc = "settle"
  /\ turn[t].stop \/ "settle" \in Faults
  /\ turn' = [turn EXCEPT ![t] = [@ EXCEPT !.pc = "leave",
                                           !.hurt = Hurt(t)]]
  /\ open' \in {open, open \ {PollOf(t)}}
  /\ UNCHANGED <<reg, pending, offers, tip, rows, backend, chat>>

\* Mutant: the question is never taken out of the registry.
StaysPending(t) ==
  /\ turn[t].pc = "leave"
  /\ turn' = [turn EXCEPT ![t] = AfterQuestion(t, turn[t].out)]
  /\ closing' = IF turn[t].out = "dropped" THEN closing \cup {t} ELSE closing
  /\ UNCHANGED <<reg, pending, offers, tip, open, rows, call, content, chat>>

\* Mutant: the backend is not told of a dropped question.
NobodyTold(t) ==
  /\ turn[t].pc = "leave"
  /\ pending' = None
  /\ turn' = [turn EXCEPT ![t] = AfterQuestion(t, turn[t].out)]
  /\ UNCHANGED <<reg, closing, offers, tip, open, rows, call, content, chat>>

\* The deferred doneAwaiting, by slot, and what the outcome asks for.
DoneAwaiting(t) ==
  /\ turn[t].pc = "leave"
  /\ pending' = None
  /\ turn' = [turn EXCEPT ![t] = AfterQuestion(t, turn[t].out)]
  /\ closing' = IF turn[t].out = "dropped" THEN closing \cup {t} ELSE closing
  /\ UNCHANGED <<reg, offers, tip, open, rows, call, content, chat>>

\* The answers resume the turn.  One cancelled too late is resumed too.
AnswerReturns(t) ==
  /\ turn[t].pc = "answer"
  /\ Finishes(t) \/ StopsToAsk(t)
  /\ UNCHANGED <<reg, pending, offers, tip, open, rows, closing, chat>>

\* The reply that asked is what handleTurn goes on with.
AnswerFails(t) ==
  /\ turn[t].pc = "answer"
  /\ turn[t].stop \/ "answer" \in Faults
  /\ turn' = [turn EXCEPT ![t] = [@ EXCEPT !.pc = AfterAsks(t),
                                           !.hurt = Hurt(t)]]
  /\ UNCHANGED <<reg, pending, offers, tip, open, rows, backend, chat>>

\* dropQuestion's goroutine resolves the call.  If the model then asks again
\* nobody is there to hear it.
QuestionDropped(t) ==
  /\ t \in closing
  /\ closing' = closing \ {t}
  /\ \E after \in {"resolved", "unheard"} : call' = [call EXCEPT ![t] = after]
  /\ UNCHANGED <<turn, reg, pending, offers, tip, open, rows, content,
                 chat>>

DropFails(t) ==
  /\ t \in closing /\ "answer" \in Faults
  /\ closing' = closing \ {t}
  /\ turn' = [turn EXCEPT ![t].hurt = TRUE]
  /\ UNCHANGED <<reg, pending, offers, tip, open, rows, call, content,
                 chat>>

-----------------------------------------------------------------------------
(* handleTurn after the reply, under a context nobody cancels.             *)

PostAnswer(t) ==
  /\ \/ Step(t, "post", "advance") /\ Say(turn[t].text, t)
     \/ "post" \in Faults /\ Step(t, "post", "finish") /\ UNCHANGED chat
  /\ UNCHANGED <<reg, pending, offers, tip, open, rows, backend>>

AdvanceSession(t) ==
  /\ Step(t, "advance", "finish")
  /\ tip' = t
  /\ UNCHANGED <<reg, pending, offers, open, rows, backend, chat>>

Finish(t) ==
  /\ turn[t].pc = "finish"
  /\ turn' = [turn EXCEPT ![t] = [@ EXCEPT !.pc = "done", !.text = {},
                                           !.said = {}]]
  /\ reg' = IF reg = t THEN 0 ELSE reg
  /\ UNCHANGED <<pending, offers, tip, open, rows, backend, chat>>

-----------------------------------------------------------------------------
Init ==
  /\ turn = [t \in Turn |-> IdleTurn]
  /\ reg = 0 /\ pending = None /\ tip = 0
  /\ msg = [m \in Turn |-> "unsent"]
  /\ drops = [m \in Turn |-> None]
  /\ call = [t \in Turn |-> "none"]
  /\ content = [t \in Turn |-> {}]
  /\ closing = {} /\ posted = {} /\ repeated = {} /\ open = {} /\ rows = {}

Owner ==
  \/ \E m \in Turn : \/ OfferNothing(m) \/ OfferAnswer(m) \/ OfferDrop(m)
                     \/ CommandStop(m)
  \/ \E p \in Poll : OnPollResponse(p)

MessageStep(m) == MovePast(m) \/ CloseAbandoned(m)

QuestionStep(t) ==
  \/ SendPoll(t) \/ SendPollFails(t) \/ PutPoll(t) \/ PutPollFails(t)
  \/ AwaitingAnswer(t) \/ Select(t) \/ TimesOut(t) \/ SettlePoll(t)
  \/ SettlePollFails(t) \/ DoneAwaiting(t)

TurnStep(t) ==
  \/ Register(t) \/ Begin(t) \/ SendReturns(t) \/ SendFails(t)
  \/ AskLimitReached(t) \/ StartRound(t) \/ QuestionStep(t)
  \/ AnswerReturns(t) \/ AnswerFails(t)
  \/ PostAnswer(t) \/ AdvanceSession(t) \/ Finish(t)

DropStep(t) == QuestionDropped(t) \/ DropFails(t)

Next ==
  Owner \/ \E t \in Turn : MessageStep(t) \/ TurnStep(t) \/ DropStep(t)

\* Goroutines run on, calls return, and a timeout fires; the owner need not
\* vote, type or stop anything.
Fairness ==
  \A t \in Turn :
    WF_vars(MessageStep(t)) /\ WF_vars(TurnStep(t)) /\ WF_vars(DropStep(t))

Spec == Init /\ [][Next]_vars /\ Fairness
-----------------------------------------------------------------------------
(* What must hold.                                                         *)

\* Every variable stays in its set.
TypeOK ==
  /\ turn \in [Turn -> TurnRec]
  /\ reg \in 0 .. M /\ tip \in 0 .. M
  /\ pending \in Poll \cup {None}
  /\ msg \in [Turn -> {"unsent", "answer", "dropping", "closing", "turn",
                    "stop"}]
  /\ drops \in [Turn -> Poll \cup {None}]
  /\ open \subseteq Poll /\ rows \subseteq Poll
  /\ call \in [Turn -> {"none", "staged", "resolved", "unheard"}]
  /\ content \in [Turn -> SUBSET Piece]
  /\ closing \subseteq Turn
  /\ repeated \subseteq posted /\ posted \subseteq Turn \X Piece

\* A question that nobody waits on any more takes no messages: the registry
\* holds one only while its turn is waiting for, or settling, that question.
PendingIsAwaited == pending # None => IsAwaited(pending)

\* The parent may be moved back to where t began: that turn was cancelled too
\* late, or a message that dropped a question of its was too slow about it.
\* (What t itself dropped, if it was a message that drops, is not late.)
MayMoveBack(t) ==
  LET f == turn[t].from
  IN  f # 0 /\ \/ turn[f].stop
                \/ \E n \in Turn \ {t} : drops[n] # None /\ drops[n][1] = f

\* A message that drops a question does not branch off the point before it,
\* unless something late moves the parent back there.
DropGoesOn ==
  \A m \in Turn :
    drops[m] # None /\ turn[m].pc \notin {"idle", "spawned", "begin"} =>
      LET t == drops[m][1]
      IN  \/ turn[m].from # turn[t].from
          \/ turn[m].stop
          \/ MayMoveBack(t)

\* Every turn ends, whatever the owner does with its questions.
TurnsEnd ==
  \A t \in Turn : turn[t].pc = "spawned" ~> turn[t].pc = "done"

\* A call the model waits on is resolved, also that of a dropped question,
\* unless its turn was cancelled, a call to the backend failed, or the model
\* asked once too often.
PausedCallResolved ==
  \A t \in Turn :
    call[t] = "staged" ~>
      \/ call[t] # "staged" \/ turn[t].hurt
      \/ /\ turn[t].out # "dropped"
         /\ turn[t].stop \/ (turn[t].ask /\ turn[t].round = AskLimit
                             /\ turn[t].pc = "done")

(* What the code says of itself and does not do.                           *)

\* askuser.go: "what the model said before its question is not repeated
\* underneath it."
SaidOnce == repeated = {}
=============================================================================
