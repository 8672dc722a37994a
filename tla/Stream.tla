------------------------------- MODULE Stream -------------------------------
(***************************************************************************)
(* One live answer: internal/bridge/stream.go and the turn that drives it  *)
(* (handleTurn and postAnswer of service/conversation.go).                 *)
(*                                                                         *)
(* The turn, the edit loop, the flushes of the delta timer and the         *)
(* handlers of subscribe events run side by side over three mutexes:       *)
(* Stream.mu and streamer.mu guard single steps here, and editMu is held   *)
(* by whoever is sending an edit.  The answer is a number of chunks, the   *)
(* first of which is the body of the anchor; a delta is a set of chunks;   *)
(* an edit is named by its place in the room.                              *)
(***************************************************************************)
EXTENDS Naturals, Sequences, FiniteSets
LOCAL INSTANCE Functions

CONSTANTS
  C,            \* chunks of the answer (bound)
  Subscriber,   \* devices that may follow the stream
  Modes,        \* renderings an installation may ask for
  MaxBuffered,  \* maxBufferedDeltas
  MaxAsks,      \* subscribe requests of all devices (bound)
  MaxFails      \* failed or half-failed calls to the homeserver (bound)

ASSUME StreamAssumption ==
  /\ C \in Nat \ {0}
  /\ Modes \subseteq SUBSET {"edits", "deltas"}
  /\ MaxBuffered \in Nat \ {0}
  /\ MaxAsks \in Nat
  /\ MaxFails \in Nat

Final == 0      \* the text of the final edit; the others are prefixes
Anchor == 0     \* the anchor among the events

VARIABLES
  mode,       \* StreamOptions: Edits and Deltas
  turn,       \* the turn: its next step, how it ends, events to redact
  full,       \* Stream.full: chunks so far
  sentText,   \* Stream.sentText: chunks the last edit was to show
  flushed,    \* chunks that left Stream.pending
  armed,      \* Stream.timer, running or fired
  closed,     \* Stream.closed, and done
  loop,       \* editLoop: its next step and the edit in hand
  room,       \* the edits in the room, in order
  edits,      \* Stream.edits, as places in the room
  listed,     \* what Events told the turn in the end
  gone,       \* events that were redacted
  state,      \* streamState in streamer.streams
  subs,       \* its subscribers
  buffered,   \* its deltas for late subscribers
  out,        \* updates on their way to devices
  asks,       \* subscribe requests of a device that were taken
  got,        \* how often a device was brought a chunk
  excused,    \* chunks a device is excused from having
  follows,    \* devices whose last subscription has not lapsed
  trimmed,    \* chunks that fell out of the buffer
  lost,       \* edits whose send failed after it went out
  fails

editing == <<sentText, loop>>
history == <<room, edits, lost>>
publisher == <<state, subs, buffered>>
devices == <<asks, got, excused, follows, trimmed>>
text == <<full, flushed, armed, closed>>
vars == <<mode, turn, full, sentText, flushed, armed, closed, loop, room,
          edits, listed, gone, state, subs, buffered, out, asks, got, excused,
          follows, trimmed, lost, fails>>

Chunk == 1 .. C

Init ==
  /\ mode \in Modes
  /\ turn = [at |-> "start", how |-> "none", todo |-> {}]
  /\ full = 0 /\ sentText = 0 /\ flushed = 0
  /\ armed = FALSE /\ closed = FALSE
  /\ loop = [at |-> "off", edit |-> 0]
  /\ room = <<>> /\ edits = {} /\ lost = {}
  /\ listed = {} /\ gone = {}
  /\ state = "none" /\ subs = {} /\ buffered = <<>>
  /\ out = {}
  /\ asks = [u \in Subscriber |-> 0]
  /\ got = [u \in Subscriber |-> [k \in Chunk |-> 0]]
  /\ excused = [u \in Subscriber |-> {}]
  /\ follows = {} /\ trimmed = {}
  /\ fails = 0

Fail == fails < MaxFails /\ fails' = fails + 1
Move(step) == turn' = [turn EXCEPT !.at = step]

-----------------------------------------------------------------------------
(* Opening the stream and writing.                                         *)

\* StartStream sends the anchor; from here on clients see it.
StartStream ==
  /\ turn.at = "start"
  /\ Move("anchored")
  /\ UNCHANGED <<mode, text, editing, history, listed, gone, publisher, out,
                 devices, fails>>

Register ==
  /\ turn.at = "anchored"
  /\ Move("writing")
  /\ state' = "live"
  /\ full' = 1 /\ sentText' = 1 /\ flushed' = 1
  /\ loop' = IF "edits" \in mode THEN [loop EXCEPT !.at = "waiting"] ELSE loop
  /\ UNCHANGED <<mode, armed, closed, history, listed, gone, subs, buffered,
                 out, devices, fails>>

Push ==
  /\ turn.at = "writing" /\ full < C
  /\ full' = full + 1
  /\ armed' = (armed \/ "deltas" \in mode)
  /\ UNCHANGED <<mode, turn, flushed, closed, editing, history, listed, gone,
                 publisher, out, devices, fails>>

\* Where an update goes is settled when it is published; by names whose it is,
\* and no the request that a replay answers.
Update(by, no, deltas, to, at) ==
  [by |-> by, no |-> no, deltas |-> deltas, to |-> to, at |-> at]

\* What is pending becomes one delta.
TakePending(by) ==
  /\ flushed' = full
  /\ out' = IF "deltas" \in mode /\ flushed < full
            THEN out \cup {Update(by, 0, <<flushed + 1 .. full>>, {}, "publish")}
            ELSE out

\* The timer's callback; one that had fired when the stream was closed finds
\* it so.
Flush ==
  /\ armed /\ armed' = FALSE
  /\ IF closed THEN UNCHANGED <<flushed, out>> ELSE TakePending("timer")
  /\ UNCHANGED <<mode, turn, full, closed, editing, history, listed, gone,
                 publisher, devices, fails>>

-----------------------------------------------------------------------------
(* The publisher.                                                          *)

Chunks(deltas) == UNION {deltas[i] : i \in DOMAIN deltas}

\* Mutant: nothing is dropped.
KeepAll(deltas) == deltas

\* Only the newest MaxBuffered deltas are kept.
Keep(deltas) ==
  IF Len(deltas) > MaxBuffered
  THEN SubSeq(deltas, Len(deltas) - MaxBuffered + 1, Len(deltas))
  ELSE deltas

SendTo(o, to) ==
  out' = IF to = {} THEN out \ {o}
         ELSE (out \ {o}) \cup {Update(o.by, o.no, o.deltas, to, "send")}

\* Mutant: the lock is released between keeping a delta and reading who is to
\* have it.
PublishInTwo(o) ==
  /\ o \in out /\ o.at = "publish"
  /\ IF state # "live"
     THEN /\ out' = out \ {o}
          /\ excused' = [u \in Subscriber |-> excused[u] \cup Chunks(o.deltas)]
          /\ UNCHANGED buffered
     ELSE /\ IF Chunks(o.deltas) \subseteq Chunks(buffered)
             THEN SendTo(o, subs) /\ UNCHANGED buffered
             ELSE buffered' = Keep(buffered \o o.deltas) /\ UNCHANGED out
          /\ UNCHANGED excused
  /\ UNCHANGED <<mode, turn, text, editing, history, listed, gone, state, subs,
                 asks, got, follows, trimmed, fails>>

\* publishDelta up to the unlock; a closed stream takes no more deltas.
Publish(o) ==
  /\ o \in out /\ o.at = "publish"
  /\ IF state # "live"
     THEN /\ out' = out \ {o}
          /\ excused' = [u \in Subscriber |-> excused[u] \cup Chunks(o.deltas)]
          /\ UNCHANGED <<buffered, trimmed>>
     ELSE /\ buffered' = Keep(buffered \o o.deltas)
          /\ trimmed' = trimmed \cup (Chunks(buffered \o o.deltas)
                                     \ Chunks(buffered'))
          /\ SendTo(o, subs)
          /\ UNCHANGED excused
  /\ UNCHANGED <<mode, turn, text, editing, history, listed, gone, state, subs,
                 asks, got, follows, fails>>

\* How often a chunk is in an update.
Copies(k, deltas) == Cardinality({i \in DOMAIN deltas : k \in deltas[i]})

\* sendStreamUpdate: one request to every device it is for.
SendToDevice(o) ==
  /\ o \in out /\ o.at = "send"
  /\ out' = out \ {o}
  /\ \/ /\ got' = [u \in Subscriber |-> [k \in Chunk |->
                     got[u][k] + IF u \in o.to THEN Copies(k, o.deltas) ELSE 0]]
        /\ UNCHANGED <<excused, fails>>
     \/ /\ excused' = [u \in Subscriber |-> IF u \in o.to
                         THEN excused[u] \cup Chunks(o.deltas) ELSE excused[u]]
        /\ Fail /\ UNCHANGED got
  /\ UNCHANGED <<mode, turn, text, editing, history, listed, gone, publisher,
                 asks, follows, trimmed>>

Asked == FoldFunction(+, 0, asks)

\* handleStreamSubscribe: the device is added and the buffer copied under one
\* lock, and the copy sent after it.  A device that renews its subscription is
\* sent the whole buffer again.  A stream that is not live ignores the request.
Subscribe(u) ==
  /\ state = "live" /\ Asked < MaxAsks
  /\ asks' = [asks EXCEPT ![u] = @ + 1]
  /\ follows' = follows \cup {u} /\ subs' = subs \cup {u}
  /\ excused' = [excused EXCEPT ![u] =
                    IF u \in follows THEN @ \ Chunks(buffered) ELSE trimmed]
  /\ out' = IF buffered = <<>> THEN out
            ELSE out \cup {Update("replay", asks'[u], buffered, {u}, "send")}
  /\ UNCHANGED <<mode, turn, text, editing, history, listed, gone, state,
                 buffered, got, trimmed, fails>>

\* A subscription lapses; updates may still be on their way to the device.
Expire(u) ==
  /\ u \in subs
  /\ subs' = subs \ {u} /\ follows' = follows \ {u}
  /\ UNCHANGED <<mode, turn, text, editing, history, listed, gone, state,
                 buffered, out, asks, got, excused, trimmed, fails>>

\* closeStream's timer.
Forget ==
  /\ state = "closed"
  /\ state' = "none"
  /\ UNCHANGED <<mode, turn, text, editing, history, listed, gone, subs,
                 buffered, out, devices, fails>>

-----------------------------------------------------------------------------
(* The edit loop.                                                          *)

\* The tick decides what to show under mu.
Tick ==
  /\ loop.at = "waiting" /\ ~closed /\ full # sentText
  /\ sentText' = full
  /\ loop' = [at |-> "locking", edit |-> full]
  /\ UNCHANGED <<mode, turn, text, history, listed, gone, publisher, out,
                 devices, fails>>

LoopLocks ==
  /\ loop.at = "locking" /\ turn.at # "committing"
  /\ loop' = [loop EXCEPT !.at = "sending"]
  /\ UNCHANGED <<mode, turn, text, sentText, history, listed, gone, publisher,
                 out, devices, fails>>

\* SendEdit of an interim text, and the unlock: it lands and is known, or
\* fails, or lands and its answer is lost.
LoopSends ==
  /\ loop.at = "sending"
  /\ \/ /\ room' = Append(room, loop.edit)
        /\ loop' = [at |-> "recording", edit |-> Len(room')]
        /\ UNCHANGED <<lost, fails>>
     \/ /\ loop' = [loop EXCEPT !.at = "waiting"]
        /\ Fail /\ UNCHANGED <<room, lost>>
     \/ /\ room' = Append(room, loop.edit)
        /\ loop' = [loop EXCEPT !.at = "waiting"]
        /\ lost' = lost \cup {Len(room')}
        /\ Fail
  /\ UNCHANGED <<mode, turn, text, sentText, edits, listed, gone, publisher,
                 out, devices>>

\* recordEdit, after the unlock.
LoopRecords ==
  /\ loop.at = "recording"
  /\ edits' = edits \cup {loop.edit}
  /\ loop' = [loop EXCEPT !.at = "waiting"]
  /\ UNCHANGED <<mode, turn, text, sentText, room, lost, listed, gone,
                 publisher, out, devices, fails>>

\* Mutant: the loop looks for the end only when there is nothing to show.
LoopStopsIdle ==
  /\ loop.at = "waiting" /\ closed /\ full = sentText
  /\ loop' = [loop EXCEPT !.at = "off"]
  /\ UNCHANGED <<mode, turn, text, sentText, history, listed, gone, publisher,
                 out, devices, fails>>

LoopStops ==
  /\ loop.at = "waiting" /\ closed
  /\ loop' = [loop EXCEPT !.at = "off"]
  /\ UNCHANGED <<mode, turn, text, sentText, history, listed, gone, publisher,
                 out, devices, fails>>

-----------------------------------------------------------------------------
(* Finish and Abort.                                                       *)

\* Mutant: the last tokens are forgotten.
CloseForgetsPending(how) ==
  /\ turn.at = "writing"
  /\ turn' = [turn EXCEPT !.at = "draining", !.how = how]
  /\ closed' = TRUE
  /\ armed' \in {armed, FALSE}
  /\ UNCHANGED <<mode, full, flushed, out, editing, history, listed, gone,
                 publisher, devices, fails>>

\* close: the timer is stopped unless it has fired, and what is pending is
\* published by the turn itself.
Close(how) ==
  /\ turn.at = "writing"
  /\ turn' = [turn EXCEPT !.at = "draining", !.how = how]
  /\ closed' = TRUE
  /\ armed' \in {armed, FALSE}
  /\ TakePending("turn")
  /\ UNCHANGED <<mode, full, editing, history, listed, gone, publisher,
                 devices, fails>>

CloseStream ==
  /\ turn.at = "draining" /\ \A o \in out : o.by # "turn"
  /\ Move(IF turn.how = "finish" THEN "locking" ELSE "listing")
  /\ state' = "closed" /\ subs' = {} /\ buffered' = <<>>
  /\ UNCHANGED <<mode, text, editing, history, listed, gone, out, devices,
                 fails>>

TurnLocks ==
  /\ turn.at = "locking" /\ loop.at # "sending"
  /\ Move("committing")
  /\ UNCHANGED <<mode, text, editing, history, listed, gone, publisher, out,
                 devices, fails>>

\* SendEdit of the final text; it is recorded before the unlock.
Commit ==
  /\ turn.at = "committing"
  /\ Move("listing")
  /\ \/ /\ room' = Append(room, Final)
        /\ edits' = edits \cup {Len(room')}
        /\ UNCHANGED <<lost, fails>>
     \/ Fail /\ UNCHANGED history
     \/ /\ room' = Append(room, Final)
        /\ lost' = lost \cup {Len(room')}
        /\ Fail /\ UNCHANGED edits
  /\ UNCHANGED <<mode, text, editing, listed, gone, publisher, out, devices>>

\* Mutant: an aborted stream lists its anchor only.
ListAnchor ==
  /\ turn.at = "listing"
  /\ listed' = {Anchor}
  /\ turn' = [turn EXCEPT !.at = "redacting",
                          !.todo = IF turn.how = "abort" THEN listed' ELSE {}]
  /\ UNCHANGED <<mode, text, editing, history, gone, publisher, out, devices,
                 fails>>

\* Events: postAnswer keeps them for the record of the turn, Abort redacts them.
ListEvents ==
  /\ turn.at = "listing"
  /\ listed' = edits \cup {Anchor}
  /\ turn' = [turn EXCEPT !.at = "redacting",
                          !.todo = IF turn.how = "abort" THEN listed' ELSE {}]
  /\ UNCHANGED <<mode, text, editing, history, gone, publisher, out, devices,
                 fails>>

\* One after the other; a failure is logged.
Redact ==
  /\ turn.at = "redacting"
  /\ \E e \in turn.todo :
       /\ \A f \in turn.todo : e <= f
       /\ turn' = [turn EXCEPT !.todo = @ \ {e}]
       /\ \/ gone' = gone \cup {e} /\ UNCHANGED fails
          \/ Fail /\ UNCHANGED gone
  /\ UNCHANGED <<mode, text, editing, history, listed, publisher, out, devices>>

Done ==
  /\ turn.at = "redacting" /\ turn.todo = {}
  /\ Move("done")
  /\ UNCHANGED <<mode, text, editing, history, listed, gone, publisher, out,
                 devices, fails>>

TurnStep ==
  \/ StartStream \/ Register \/ (\E how \in {"finish", "abort"} : Close(how))
  \/ CloseStream \/ TurnLocks \/ Commit \/ ListEvents \/ Redact \/ Done
LoopStep ==
  Tick \/ LoopLocks \/ LoopSends \/ LoopRecords \/ LoopStops
UpdateStep(by) ==
  \E o \in out : o.by = by /\ (Publish(o) \/ SendToDevice(o))

Next ==
  \/ Push \/ Flush \/ Forget \/ TurnStep \/ LoopStep
  \/ \E by \in {"turn", "timer", "replay"} : UpdateStep(by)
  \/ \E u \in Subscriber : Subscribe(u) \/ Expire(u)

\* Every goroutine runs on: calls to the homeserver end, timers fire, and the
\* backend's answer ends.
Fairness ==
  /\ WF_vars(TurnStep) /\ WF_vars(LoopStep)
  /\ \A by \in {"turn", "timer", "replay"} : WF_vars(UpdateStep(by))
  /\ WF_vars(Flush) /\ WF_vars(Forget)

Spec == Init /\ [][Next]_vars /\ Fairness
-----------------------------------------------------------------------------
(* What must hold.                                                         *)

\* Every variable stays in its set.
TypeOK ==
  /\ mode \in Modes
  /\ turn \in [at : {"start", "anchored", "writing", "draining", "locking",
                     "committing", "listing", "redacting", "done"},
               how : {"none", "finish", "abort"}, todo : SUBSET (0 .. Len(room))]
  /\ flushed \in 0 .. full /\ sentText \in 0 .. full /\ full \in 0 .. C
  /\ armed \in BOOLEAN /\ closed \in BOOLEAN
  /\ loop \in [at : {"off", "waiting", "locking", "sending", "recording"},
               edit : Nat]
  /\ room \in Seq(0 .. C)
  /\ edits \in SUBSET DOMAIN room /\ lost \in SUBSET DOMAIN room
  /\ listed \in SUBSET (0 .. Len(room)) /\ gone \subseteq listed
  /\ state \in {"none", "live", "closed"}
  /\ subs \subseteq follows /\ follows \subseteq Subscriber
  /\ Len(buffered) <= MaxBuffered /\ Chunks(buffered) \subseteq 2 .. flushed
  /\ \A o \in out : /\ o.by \in {"turn", "timer", "replay"}
                    /\ Chunks(o.deltas) \subseteq 2 .. flushed
                    /\ o.to \subseteq Subscriber /\ o.at \in {"publish", "send"}
  /\ asks \in [Subscriber -> Nat]
  /\ got \in [Subscriber -> [Chunk -> Nat]]
  /\ excused \in [Subscriber -> SUBSET Chunk] /\ trimmed \subseteq Chunk
  /\ fails \in 0 .. MaxFails

\* At most one edit, decided before the stream closed, lands after the final
\* one; and what the turn cannot take back later, or Abort did not, is at most
\* that one, but for calls that failed.
OneStraggler ==
  /\ \A i \in DOMAIN room : room[i] = Final => Len(room) <= i + 1
  /\ turn.at = "done" =>
       /\ Cardinality((DOMAIN room \ listed) \ lost) <= 1
       /\ turn.how = "abort" => Cardinality(listed \ gone) <= fails

\* A device is brought a chunk at most as often as it subscribed: one request
\* never gets it both with the replay and live, however slowly either travels.
\* And when all is over a device that subscribed in time has the whole answer,
\* but for updates that failed, that were too old for the buffer, or that a
\* slow flush brought to a closed stream.
OncePerRequest ==
  /\ \A u \in Subscriber, k \in Chunk : got[u][k] <= asks[u]
  /\ turn.at = "done" /\ out = {} /\ "deltas" \in mode =>
       \A u \in follows, k \in 2 .. full : got[u][k] > 0 \/ k \in excused[u]

\* A stream whose turn ends winds down: no goroutine, no update and no entry
\* of the publisher is left.
WindsDown ==
  closed ~> turn.at = "done" /\ loop.at = "off" /\ out = {} /\ state = "none"
            /\ ~armed
=============================================================================
