-------------------------------- MODULE Owui --------------------------------
(***************************************************************************)
(* One turn with Open WebUI: Send and Answer of internal/agent/            *)
(* openwebui.go, with socketio.go and the accumulator of stream.go.        *)
(*                                                                         *)
(* Open WebUI runs the turn as a task of its own.  It answers the HTTP     *)
(* call, emits events to the user's socket, and keeps the message, and     *)
(* what it keeps may lag behind the task.  The adapter has to tell from    *)
(* these three when the turn is over, what was said, and whether the model *)
(* stopped to ask.  The visible text is a number of chunks; reasoning is   *)
(* left out.  A question is named by its place in the turn, and a call is  *)
(* one awaitAnswer: the Send, then an Answer for each question it brought. *)
(***************************************************************************)
EXTENDS Naturals, Sequences, SequencesExt

CONSTANTS
  C,          \* chunks of the answer (bound)
  MaxAsks,    \* questions the model asks in the turn (bound)
  Grace,      \* gracePolls
  Setups,     \* installations: "token", "features", "stream" are what they have
  MaxFaults   \* calls and connections that fail, events that are missed (bound)

ASSUME OwuiAssumption ==
  /\ C \in Nat /\ MaxAsks \in Nat /\ MaxFaults \in Nat
  /\ Grace \in Nat \ {0}
  /\ Setups \subseteq SUBSET {"token", "features", "stream"}

NoAsk == 0
MaxCalls == MaxAsks + 2  \* awaitAnswers of one turn (bound)

VARIABLES
  setup,     \* openWebUI.cfg: SocketToken, Features, not NoStream
  call,      \* the call: its step, its number, the question it resolves
  request,   \* its HTTP request, and requestDone
  accepted,  \* requestFinished: the answer to it was read
  grace,     \* graceLeft; Grace + 1 is "not counting"
  reader,    \* the goroutine in socket.events, and done
  events,    \* what the socket brings it
  missed,    \* an event of this call passed it by
  seen,      \* accumulator.seen
  pushed,    \* what went to the sink; over the socket also text
  asked,     \* the staged question that was seen live
  text,      \* the answer as far as it is known: lastVisible, final
  reply,     \* what the call returned
  task,      \* Open WebUI: the task
  stored,    \* Open WebUI: the state of it that a GET shows
  orphans,   \* resolve requests of earlier calls still on their way
  excused,   \* what kept this call from knowing better
  faults

local == <<grace, reader, events, missed, seen, pushed, asked, text>>
server == <<task, stored, orphans>>
owuiVars == <<setup, call, request, accepted, local, reply, server, excused,
          faults>>

Chunk == 1 .. C
Ask == 1 .. MaxAsks
UpTo(n) == [i \in 1 .. n |-> i]

TaskRec == [at : {"none", "running", "asked", "done", "failed"}, text : 0 .. C,
            asks : 0 .. MaxAsks]
NoTask == [at |-> "none", text |-> 0, asks |-> 0]

\* assistantMessage: what a state of the task shows of it.  A task that stopped
\* to ask is not done; the question is what says that it stopped.
Message(t) == [text |-> t.text, done |-> t.at = "done", failed |-> t.at = "failed",
               ask |-> IF t.at = "asked" THEN t.asks ELSE NoAsk]

NoReply == [how |-> "none", text |-> 0, ask |-> NoAsk]

\* sessionID: with features a turn is a background task, whose HTTP answer
\* means "accepted".
Background == "features" \in setup /\ "stream" \in setup

\* Cleared for every call.
Fresh ==
  /\ request = "none" /\ accepted = FALSE /\ grace = Grace + 1
  /\ reader = "off" /\ events = <<>> /\ missed = FALSE /\ seen = <<>> /\ pushed = <<>>
  /\ asked = NoAsk /\ text = 0 /\ reply = NoReply /\ excused = {}

OwuiInit ==
  /\ setup \in Setups
  /\ call = [at |-> "start", nr |-> 0, ask |-> NoAsk]
  /\ Fresh
  /\ task = NoTask /\ stored = NoTask
  /\ orphans = {}
  /\ faults = 0

Fault == faults < MaxFaults /\ faults' = faults + 1
Pardon(why) == excused' = excused \cup {why}
Goto(step) == call' = [call EXCEPT !.at = step]

Return(how, said, ask) ==
  /\ Goto("returned")
  /\ reply' = [how |-> how, text |-> said, ask |-> ask]

-----------------------------------------------------------------------------
(* Submitting.                                                             *)

\* turnRequest, or the body of a resolve: all that is kept of it is what it
\* asks for, a new task or the resumption of the one that asked call.ask.
Submit(step) == request' = "new" /\ Goto(step)

\* awaitAnswer: with a session token the socket is dialled and joined before
\* the request is made; when that fails the chat is polled.
DialSocket ==
  /\ call.at = "start" /\ {"token", "stream"} \subseteq setup
  /\ \/ Submit("socket") /\ reader' = "on" /\ UNCHANGED faults
     \/ Submit("poll") /\ Fault /\ UNCHANGED reader
  /\ UNCHANGED <<setup, accepted, grace, events, missed, seen, pushed, asked,
                 text, reply, server, excused>>

\* Without a token there is no socket; without streaming the answer is the
\* body of the HTTP answer.
SubmitOnly ==
  /\ call.at = "start" /\ ~({"token", "stream"} \subseteq setup)
  /\ Submit(IF "stream" \in setup THEN "poll" ELSE "one shot")
  /\ UNCHANGED <<setup, accepted, local, reply, server, excused, faults>>

-----------------------------------------------------------------------------
(* Open WebUI.                                                             *)

\* A call that has not returned reads the socket, and may miss an event all
\* the same: nothing is sent twice.
Listening == reader = "on" /\ call.at # "returned"

Emit(event) ==
  \/ /\ events' = IF Listening THEN Append(events, event) ELSE events
     /\ UNCHANGED <<missed, faults>>
  \/ /\ Listening /\ Fault /\ missed' = TRUE
     /\ UNCHANGED events

Said(kind) == [kind |-> kind, text |-> task'.text, ask |-> NoAsk, done |-> FALSE]

\* The resolve endpoint answers the staged call, once.
Resolve ==
  /\ task' = [task EXCEPT !.at = "running"]
  /\ stored' = [stored EXCEPT !.at = "running"]

Staged(ask) == task.at = "asked" /\ task.asks = ask

Accept ==
  /\ request = "new"
  /\ IF call.ask = NoAsk
     THEN /\ task' = [task EXCEPT !.at = "running"]
          /\ request' = "working" /\ UNCHANGED stored
     ELSE IF Staged(call.ask)
     THEN Resolve /\ request' = "working"
     ELSE request' = "refused" /\ UNCHANGED <<task, stored>>
  /\ UNCHANGED <<setup, call, accepted, local, reply, orphans, excused, faults>>

AcceptOrphan ==
  /\ \E ask \in orphans :
       /\ orphans' = orphans \ {ask}
       /\ IF Staged(ask) THEN Resolve ELSE UNCHANGED <<task, stored>>
  /\ UNCHANGED <<setup, call, request, accepted, local, reply, excused, faults>>

\* The request is lost, or its answer is.
RequestFails ==
  /\ request \in {"new", "working"} /\ request' = "refused"
  /\ Fault
  /\ UNCHANGED <<setup, call, accepted, local, reply, server, excused>>

\* A background task is answered for at once, any other when it stops.
Respond ==
  /\ request = "working" /\ (Background \/ task.at # "running")
  /\ request' = "replied"
  /\ UNCHANGED <<setup, call, accepted, local, reply, server, excused, faults>>

rest == <<setup, call, request, accepted, grace, reader, seen, pushed, asked,
          text, reply, stored, orphans, excused>>

\* A chunk goes out as a delta, or in an event with the text so far.
Write ==
  /\ task.at = "running" /\ task.text < C
  /\ task' = [task EXCEPT !.text = @ + 1]
  /\ \E kind \in {"delta", "content"} : Emit(Said(kind))
  /\ UNCHANGED rest

StageQuestion ==
  /\ task.at = "running" /\ task.asks < MaxAsks /\ "stream" \in setup
  /\ task' = [task EXCEPT !.at = "asked", !.asks = @ + 1]
  /\ Emit([Said("content") EXCEPT !.ask = task'.asks])
  /\ UNCHANGED rest

EndTask ==
  /\ task.at = "running"
  /\ task' = [task EXCEPT !.at = "done"]
  /\ Emit([Said("content") EXCEPT !.done = TRUE])
  /\ UNCHANGED rest

FailTask ==
  /\ task.at = "running"
  /\ task' = [task EXCEPT !.at = "failed"]
  /\ Emit(Said("error"))
  /\ UNCHANGED rest

Store ==
  /\ stored # task /\ stored' = task
  /\ UNCHANGED <<setup, call, request, accepted, local, reply, task, orphans,
                 excused, faults>>

-----------------------------------------------------------------------------
(* Reading the socket.                                                     *)

\* accumulator.delta: of a text that extends what was seen the rest is pushed,
\* of any other nothing; either way it is what was seen.
Accumulate(full) ==
  /\ seen' = full
  /\ pushed' = IF IsPrefix(seen, full)
               THEN pushed \o SubSeq(full, Len(seen) + 1, Len(full))
               ELSE pushed

\* Mutant: a delta is not marked as seen.
HearUnmarked(chunk) ==
  /\ pushed' = Append(pushed, chunk)
  /\ UNCHANGED seen

\* response:completion.
Hear(chunk) ==
  /\ pushed' = Append(pushed, chunk)
  /\ seen' = pushed'

\* Mutant: only a done flag ends the turn.
EndsWhenDone(event) == event.done \/ event.kind = "error"

\* A staged question, a done flag and an error end the reading.
Ends(event) == event.ask # NoAsk \/ event.done \/ event.kind = "error"

ReadEvent ==
  /\ reader = "on" /\ events # <<>> /\ call.at # "returned"
  /\ events' = Tail(events)
  /\ LET event == Head(events) IN
     /\ reader' = IF Ends(event) THEN "ended" ELSE reader
     /\ asked' = IF Ends(event) THEN event.ask ELSE asked
     /\ CASE event.kind = "delta" -> Hear(event.text)
          [] event.kind = "content" /\ event.ask = NoAsk -> Accumulate(UpTo(event.text))
          [] OTHER -> UNCHANGED <<seen, pushed>>
  /\ UNCHANGED <<setup, call, request, accepted, grace, missed, text, reply,
                 server, excused, faults>>

SocketDrops ==
  /\ reader = "on" /\ call.at # "returned" /\ Fault
  /\ reader' = "broken" /\ events' = <<>>
  /\ UNCHANGED <<setup, call, request, accepted, grace, missed, seen, pushed,
                 asked, text, reply, server, excused>>

-----------------------------------------------------------------------------
(* Waiting over the socket.                                                *)

waiting == <<setup, request, local, server, faults>>

\* A request that fails fails the call, whoever waits for it.
RequestRefused ==
  /\ call.at \in {"socket", "wait", "poll", "one shot"}
  /\ request = "refused"
  /\ Return("error", 0, NoAsk)
  /\ UNCHANGED <<waiting, accepted, excused>>

\* Mutant: the answer to the request is taken for the end of a background task.
AfterRequestEnd == "tail"

\* Where the answer to the request leaves the call.
AfterRequest == IF Background THEN "socket" ELSE "tail"

RequestReplied ==
  /\ call.at = "socket" /\ request = "replied" /\ ~accepted
  /\ accepted' = TRUE
  /\ Goto(AfterRequest)
  /\ UNCHANGED <<waiting, reply, excused>>

\* The last event, or three seconds.
TailEnds ==
  /\ call.at = "tail" /\ Goto("read")
  /\ UNCHANGED <<waiting, accepted, reply, excused>>

\* Mutant: a socket that breaks ends the wait at once.
AfterBreakRead == "read"

\* Where a broken socket leaves the call.
AfterBreak == IF accepted THEN "read" ELSE "wait"

\* The reader is done.  Once a background task was accepted nothing else says
\* how far it is.
ReaderDone ==
  /\ call.at = "socket" /\ reader \in {"ended", "broken"}
  /\ IF reader = "ended" THEN Goto("read") ELSE Goto(AfterBreak)
  /\ IF reader = "broken" /\ accepted THEN Pardon("cut off") ELSE UNCHANGED excused
  /\ UNCHANGED <<waiting, accepted, reply>>

RequestAwaited ==
  /\ call.at = "wait" /\ request = "replied"
  /\ Goto("read")
  /\ IF Background THEN Pardon("cut off") ELSE UNCHANGED excused
  /\ UNCHANGED <<waiting, accepted, reply>>

\* What a stored message that lags behind its task excuses.
Lag == IF stored # task /\ task.at # "running" THEN {"stale"} ELSE {}

\* The stored message is authoritative.
ReadStored ==
  /\ call.at = "read"
  /\ \/ /\ Message(stored).failed
        /\ Return("error", 0, NoAsk)
        /\ UNCHANGED <<text, excused, faults>>
     \/ /\ ~Message(stored).failed
        /\ Goto("finish")
        /\ text' = IF stored.text > 0 THEN stored.text ELSE Len(pushed)
        /\ excused' = excused \cup Lag
        /\ UNCHANGED <<reply, faults>>
     \/ /\ Fault /\ Pardon("unread")
        /\ Goto("finish") /\ text' = Len(pushed)
        /\ UNCHANGED reply
  /\ UNCHANGED <<setup, request, accepted, grace, reader, events, missed, seen,
                 pushed, asked, server>>

-----------------------------------------------------------------------------
(* Polling, and the answer in one piece.                                   *)

\* Mutant: counts below nothing.
LessThanNone(g) == IF g <= Grace THEN g - 1 ELSE g

\* One poll less.
Less(g) == IF g \in 1 .. Grace THEN g - 1 ELSE g

\* One look at the stored message, with g polls left.
Look(g) ==
  \/ /\ Fault                        \* the read fails
     /\ IF g = 0 THEN Return("error", 0, NoAsk) ELSE UNCHANGED <<call, reply>>
     /\ grace' = Less(g)
     /\ UNCHANGED <<seen, pushed, text, asked, excused>>
  \/ /\ Message(stored).failed
     /\ Return("error", 0, NoAsk)
     /\ UNCHANGED <<grace, seen, pushed, text, asked, excused, faults>>
  \/ /\ ~Message(stored).failed
     /\ Accumulate(UpTo(stored.text))
     /\ text' = stored.text
     /\ asked' = Message(stored).ask
     /\ LET over == Message(stored).done \/ Message(stored).ask # NoAsk IN
        /\ IF over \/ g = 0 THEN Goto("finish") ELSE UNCHANGED call
        /\ grace' = IF over THEN g ELSE Less(g)
        /\ excused' = excused
             \cup (IF g = 0 /\ ~over THEN Lag ELSE {})
             \cup (IF asked' = call.ask /\ call.ask # NoAsk THEN {"early"} ELSE {})
     /\ UNCHANGED <<reply, faults>>

\* The ticker, or the answer to the request: without a session id that is the
\* end of the task, and a few more polls catch what lags.
Poll ==
  /\ call.at = "poll"
  /\ \/ Look(grace) /\ UNCHANGED accepted
     \/ /\ request = "replied" /\ ~accepted /\ accepted' = TRUE
        /\ Look(IF Background THEN grace ELSE Grace)
  /\ UNCHANGED <<setup, request, reader, events, missed, server>>

\* sendOneShot.
OneShot ==
  /\ call.at = "one shot" /\ request = "replied"
  /\ IF task.at = "failed" THEN Return("error", 0, NoAsk)
     ELSE Return("reply", task.text, NoAsk)
  /\ UNCHANGED <<waiting, accepted, excused>>

-----------------------------------------------------------------------------
(* The reply.                                                              *)

\* Mutant: a question that was not seen live is not looked for.
StoredAskUnread == NoAsk

\* pendingAsk.
StoredAsk == Message(stored).ask

Finish ==
  /\ call.at = "finish"
  /\ \/ /\ asked # NoAsk
        /\ Return("reply", text, asked)
        /\ UNCHANGED <<excused, faults>>
     \/ /\ asked = NoAsk
        /\ Return("reply", text, StoredAsk)
        /\ excused' = excused \cup Lag
        /\ UNCHANGED faults
     \/ /\ asked = NoAsk /\ Fault /\ Pardon("unread")
        /\ Return("reply", text, NoAsk)
  /\ UNCHANGED <<setup, request, accepted, local, server>>

\* The turn runs out of time, or is stopped.
GiveUp ==
  /\ call.at \in {"socket", "tail", "poll", "one shot"}
  /\ Return("error", 0, NoAsk)
  /\ request' = IF request = "new" THEN "refused" ELSE request
  /\ UNCHANGED <<setup, accepted, local, server, excused, faults>>

\* The question was put to the owner: Answer, with what came back.  A resolve
\* of the call before may still be on its way.
Answer ==
  /\ call.at = "returned" /\ reply.ask # NoAsk /\ call.nr + 1 < MaxCalls
  /\ call' = [at |-> "start", nr |-> call.nr + 1, ask |-> reply.ask]
  /\ orphans' = IF request = "new" THEN orphans \cup {call.ask} ELSE orphans
  /\ request' = "none" /\ accepted' = FALSE /\ grace' = Grace + 1
  /\ reader' = "off" /\ events' = <<>> /\ missed' = FALSE /\ seen' = <<>> /\ pushed' = <<>>
  /\ asked' = NoAsk /\ text' = 0 /\ reply' = NoReply /\ excused' = {}
  /\ UNCHANGED <<setup, task, stored, faults>>

-----------------------------------------------------------------------------
Await == RequestRefused \/ RequestReplied \/ TailEnds \/ ReaderDone
         \/ RequestAwaited \/ ReadStored \/ Poll \/ OneShot \/ Finish
Serve == Accept \/ AcceptOrphan \/ Respond

OwuiNext ==
  \/ DialSocket \/ SubmitOnly \/ Await \/ GiveUp \/ Answer
  \/ ReadEvent \/ SocketDrops
  \/ Serve \/ RequestFails \/ Write \/ StageQuestion \/ EndTask \/ FailTask
  \/ Store

\* The adapter's goroutines run; Open WebUI serves what it is asked, its tasks
\* come to an end, and what they did is stored.
OwuiFairness ==
  /\ WF_owuiVars(DialSocket \/ SubmitOnly) /\ WF_owuiVars(Await) /\ WF_owuiVars(ReadEvent)
  /\ WF_owuiVars(Serve) /\ WF_owuiVars(EndTask) /\ WF_owuiVars(Store)

OwuiSpec == OwuiInit /\ [][OwuiNext]_owuiVars /\ OwuiFairness

-----------------------------------------------------------------------------
Steps == {"start", "socket", "tail", "wait", "read", "poll", "one shot",
          "finish", "returned"}

\* Types of the state: the steps of awaitAnswer and sendOneShot, and what Open
\* WebUI may hold.
OwuiTypeOK ==
  /\ setup \in Setups
  /\ call \in [at : Steps, nr : 0 .. MaxCalls, ask : Ask \cup {NoAsk}]
  /\ request \in {"none", "new", "working", "replied", "refused"}
  /\ accepted \in BOOLEAN
  /\ grace \in 0 .. Grace + 1
  /\ reader \in {"off", "on", "ended", "broken"}
  /\ events \in Seq([kind : {"delta", "content", "error"}, text : 0 .. C,
                     ask : Ask \cup {NoAsk}, done : BOOLEAN])
  /\ missed \in BOOLEAN
  /\ seen \in Seq(Chunk) /\ pushed \in Seq(Chunk)
  /\ asked \in Ask \cup {NoAsk} /\ text \in 0 .. C
  /\ reply \in [how : {"none", "reply", "error"}, text : 0 .. C, ask : Ask \cup {NoAsk}]
  /\ task \in TaskRec /\ stored \in TaskRec
  /\ orphans \subseteq Ask
  /\ excused \subseteq {"cut off", "stale", "unread", "early"}
  /\ faults \in 0 .. MaxFaults

\* The reply says how the task stands: all of the text it wrote, and the
\* question it stopped at if it stopped at one; it is not given while the task
\* runs.  An event that was missed does not excuse it: the stored message is
\* read in any case, for the text and for the question.  Excused is a call whose socket broke under a background task (the
\* text so far is then taken for the answer), that read a message behind its
\* task, or that could not read it (streamViaSocket, awaitAnswer, finish).
ReplyTellsTheEnd ==
  reply.how = "reply" /\ excused = {} =>
    /\ task.at \in {"done", "asked"}
    /\ reply.text = task.text
    /\ reply.ask = Message(task).ask

\* What a call shows while the turn runs comes in order and nothing of it
\* twice, however deltas, contents and polls follow each other; the first call
\* shows the answer from its beginning with nothing missing, unless an event
\* was missed; and the reply takes nothing of it back (the accumulator, and
\* Sink.Delta in agent.go).
ShownStands ==
  /\ \A i, j \in DOMAIN pushed : i < j => pushed[i] < pushed[j]
  /\ call.nr = 0 /\ ~missed => pushed = UpTo(Len(pushed))
  /\ reply.how = "reply" /\ excused = {} => \A i \in DOMAIN pushed : pushed[i] <= reply.text

\* An Answer never brings back the question it has just answered, unless a
\* poll looked before the resolve request had arrived (Answer of askuser.go).
AskedOnce ==
  reply.ask # NoAsk /\ "early" \notin excused => reply.ask > call.ask

\* A background turn over a socket that missed the event which ends it.
Deaf ==
  /\ call.at = "socket" /\ Background /\ accepted
  /\ reader = "on" /\ events = <<>> /\ missed
  /\ task.at # "running"

\* Every call comes back without its context having to give up, whichever
\* signal is lost: the answer to the request, the socket, what is stored, or an
\* event of the socket.  Only a call that is Deaf has no other signal left
\* (streamViaSocket: "the socket is the only signal").
CallsReturn == call.at # "returned" ~> (call.at = "returned" \/ Deaf)
=============================================================================
