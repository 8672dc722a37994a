# A TLA+ development of beeper-intercom

beeper-intercom is a Matrix appservice written in Go: it posts announcements
into rooms, answers the owner's questions with agents, asks the owner
questions with polls, and turns reactions and poll answers into webhook calls.
This directory models its state machines, model-checks them with TLC and
proves the most important of their properties with TLAPS.  Paths below are
relative to `internal/` of the repository.

## The system

Everything runs in one process over one SQLite file (`store/store.go`, a
single connection, so each statement is atomic and statements never overlap).
The process is a set of goroutines that share a few maps under mutexes.

| Component | State | Operations | What makes it correct |
|---|---|---|---|
| Conversations (`service/conversation.go`, `commands*.go`, `purge.go`) | tables `sessions` (one live row per slot, by a partial unique index) and `turns`, the `turns` registry in memory, the compaction marker in `kv`, the backend's message tree, the room | a message, an edit, /retry (each spawns `handleTurn`); /stop, /new, /undo, /compact, /resume, /purge; deleting a question; the rotation rules | one live conversation per slot; what runs can be stopped; what was answered can be taken back; what was taken back stays out of the model's history and nothing else leaves it |
| Outbox (`service/workers.go`, `service.go`, `api/api.go`) | table `outbox` | enqueue, the 2 s tick, one HTTP call per row, retry by hand, the sweep | at least once, once when nothing goes wrong, nothing queued for ever |
| Announcements (`service.go` Notify, sendWorker, deliver) | bounded queue, table `notifications` | Notify, the single send worker, dedupe | each accepted notification posted once, in order; a dedupe key posts once |
| ntfy mirror (`source/ntfy.go`) | cursor in `kv`, the stream | connect, read, emit, remember, reconnect | every message above the threshold mirrored, none skipped after a failure |
| Streams (`bridge/stream.go`) | anchor, edits, buffered deltas, subscribers | Push, the edit loop, flush, Finish, Abort, subscribe | the final text is the last edit; Abort leaves nothing |
| Questions (`service/askuser.go`, `service.go` AskPoll) | table `polls`, waiters, `pendingAsks` | ask, poll answer, typed answer, drop, timeout | one answer reaches the one who asked; a dropped question lets the conversation go on after it |
| Toolsets (`service/toolsets.go`) | `kv` rows, idle timers | switch, touch, expire, adopt, drop | an escalation ends with its conversation or its idle time, and is nobody else's |
| Rooms (`bridge/rooms.go`, `status.go`, `service.go` connectLoop and Reload, `lifecycle.go`) | tables `rooms` and `ghosts`, `kv` of the status room and the restart request, `roomIDs`, `roomKey`, `ready` | start-up, Reconcile, RecreateRoom, Reload, /restart | a key has one room; the two maps agree with the table; a replaced room stays replaced; the bridge comes up |
| Tools and openai adapters, tool loop (`agent/tools.go`, `openai.go`, `loop/`) | table `transcripts`, `tools.paused` | Send, rounds of calls, held calls, Answer, abandon, persist, Undo | no call runs that needs a yes and has none; a turn has one record, which names the tools; a turn ends |
| Open WebUI adapter (`agent/openwebui.go`, `socketio.go`, `stream.go`, `askuser.go`) | one turn: the request, the socket, the accumulator, the staged question; the task is the server's | Send, Answer | the wait ends with the turn, and the reply says what the turn said and asked |
| Inbound events (`bridge/events.go`) | table `txns` | one handler per event type | a transaction is handled once |
| Command bookkeeping (`service/clear.go`) | tables `commands`, `notices` | /clear, delete buttons, markers | what the bridge posted is found again |

They meet in the store (every component), in the room (answers, edits,
redactions), through calls (`onReaction` enqueues a delivery; the ntfy source
calls `Notify`; a turn opens a stream, reads toolsets, asks questions) and
through context cancellation (/stop, a newer question and a deletion cancel a
turn; a shutdown cancels everything).

What is hard is the same in most of them: a goroutine reads a row, talks to a
server for seconds or minutes, and writes what it concluded; a command, a
timer or a newer goroutine moves the row meanwhile; the process may be killed
between any two calls and starts again from the tables alone.

## The modules

### Conversation

One slot: a room's main timeline or one thread.  A *run* is one call of
`handleTurn`; runs are numbered as they are spawned, and the number names
everything a run makes: the question event, the session it creates, the
exchange it adds to the backend and the answer in the room.  A *job* is one
command goroutine.  `pc` of a run and `at` of a job are positions between two
calls to the store, the backend or the homeserver; each such call is an
action, and the statements in between belong to it.

| Variable | Code |
|---|---|
| `run` | locals of `handleTurn`: `held` is `sess.ID`, `from` is `sess.ParentID` and then `parent`, `stop` is "turnCtx is cancelled" |
| `reg` | `Service.turns[key]` |
| `sess`, `row`, `compact` | tables `sessions` and `turns`, the `kvCompactRequest` row |
| `clock` | `turns.created_at`, as an order |
| `branch`, `seeded`, `removed` | the backend: the exchanges on the branch that ends in a node; conversations whose first turn is a seed; exchanges deleted from it |
| `room` | which answers are visible |
| `deleted`, `rewound`, `cut`, `crashes` | what happened, for the properties |

The context a call takes decides what a cancellation does, so the model keeps
the difference: everything up to `backend.Send` takes `turnCtx` and fails when
it is cancelled (`GiveUp`); `postAnswer`, `AdvanceSession`, `PutTurn` take the
detached `ctx` and go on (`PostAnswer`, `Advance`, `Record`).  The deferred
cleanup is `Finish`, on every path.

Taking a turn back asks the backend first (`UndoBackend`, `TakenBackBackend`):
`backend.Undo` may fail, may not be there, or deletes the exchange of the turn
(`removed`), of whichever turn and conversation.  What stood below it hangs
below what was above it (`History`), as Open WebUI re-parents it
(`agent/openwebui.go:664`); the rows of the bridge keep the parent they have.
What the backend does with a parent it no longer has is outside this code: the
model gives such a turn no history (`Stored`).

Left out on purpose: the text of anything; streaming, questions, attachments
and toolsets, which happen inside `sending`; the internal turn that writes a
summary; the notice a rotation posts; the retention sweep of old turns;
`/purge new-room`; failures of single store statements other than those a
cancelled context or the unique index causes; a homeserver that refuses a
redaction.  A compaction the backend does itself leaves the bridge's state
alone.  The `Agent` interface allows a backend that keeps a tree and cannot
compact by itself, so the model does too; of the four adapters Open WebUI
keeps a tree, and the others ignore the parent.

### Outbox and AtLeastOnce

`Outbox` is the worker and the statements on the `outbox` table.  `stage` is
the worker's batch: rows it has read, and the one it has called with the
outcome it has seen.  Time is the set `due`.  A shutdown cancels the call and
the statement that would record it, as a kill does: both are `Crash`.
`AtLeastOnce` is what README.md promises of actions ("the row exists before the HTTP call"),
and `Outbox!KeepsPromise` says that `Outbox` implements it under the mapping
of statuses to standings.

### Announce and Mirror

`Announce` is everything between a caller of `Notify` and the room.  Calls are
numbered as they are made, and the number of a call that posts is its event;
a caller that tries again makes another call for the same notification.

| Variable | Code |
|---|---|
| `st`, `note`, `event` | one call: what `Notify` returned, its notification, the event it was given; `left` is a caller whose context ended |
| `queued` | `Service.queue`, in the order of the calls |
| `worker` | `sendWorker`: its job, the next step of `deliver`, the result it holds |
| `posted`, `rows` | the room and the table `notifications` |
| `excuse`, `unsure`, `mishaps` | what went wrong, for the properties |

`LookUp`, `Send`, `Record` and `Reply` are the calls of `deliver` and the hand
over, in that order.  A send may fail after the message went out, and the
statement that records it may fail; a crash takes the queue, the worker and
the callers.  What validation, rooms, ghosts and threads refuse is a call that
fails before it sends; what a message looks like is left out.

`Mirror` extends it with the subscription to one ntfy topic, which calls
`Notify` for each message and stores its position after.  `sub` is the
goroutine of the topic, `cursor` the `kv` row, `failed` and `missed` what its
error paths passed over.  Topics share nothing but the queue, and the other
callers of `Notify` stand for them as well.  The server forgets an id at will
(`ConnectFallback`), and what "the last hour" holds is left open.

### Stream

One live answer, from the anchor to the last edit: the turn (`turn`), the edit
loop (`loop`), the flushes of the delta timer and the handlers of subscribe
events (`out`, one entry per update on its way) as processes of their own.

| Variable | Code |
|---|---|
| `full`, `sentText`, `flushed` | `Stream.full`, `sentText` and what has left `pending`, as numbers of chunks |
| `armed`, `closed` | `Stream.timer` (running, or fired and waiting for `mu`), `Stream.closed` with `done` |
| `room`, `edits`, `listed`, `gone`, `lost` | the edits in the room in order, `Stream.edits`, what `Events` returned in the end, what was redacted, what was sent and reported as failed |
| `state`, `subs`, `buffered` | `streamState` |
| `asks`, `got`, `excused`, `follows`, `trimmed` | the devices, for the properties: requests taken, how often each chunk was brought, chunks that may be missing, subscriptions that have not lapsed, chunks that fell out of the buffer |

`Stream.mu` and `streamer.mu` guard what is one action here.  `editMu` is held
by the loop while it is `sending` and by the turn while it is `committing`, and
what the code does after the unlock (`recordEdit` of the loop) is an action
after it.  A subscribe request is taken whenever the stream is live, also from
a device that follows it already, which is how a device renews; a subscription
may lapse while updates are on their way.  `Flush` covers a timer that was
stopped too late.  The service
renders either by edits or by deltas; the type allows both, and both together
pass as well.

### Questions

A turn that stops to ask.  A turn, the message that started it and the message
of the backend it produces share a number; a poll is a turn, a round and a
question.  The conversation stays the same one: rotation is `Conversation`'s.

| Variable | Code |
|---|---|
| `turn` | locals of `handleTurn`, `resolveAsks`, `askQuestions`, `askOne`; `ready` and `out` are the channels of the open question and the case its select took |
| `pending`, `reg` | `pendingAsks` and `turns` for the slot |
| `msg`, `drops` | `onMessage`: what became of a message, and the question it drops |
| `tip` | the session's parent |
| `open`, `rows` | polls that can be voted on in the room; table `polls` |
| `call`, `content`, `closing` | Open WebUI: the staged call and the text of a message, and the `dropQuestion` goroutines that resolve one |
| `posted`, `repeated` | pieces of text in the room, for `SaidOnce` |

A goroutine parked in a select takes the first thing that happens (`Reached`),
and one that has yet to get there chooses among what is ready (`Select`).
Handlers of messages run side by side, so `offerMessage` is three actions:
the lock, the session, the close with the new turn.  Calls under `turnCtx` fail
once it is cancelled, and may have gone out; what `handleTurn` does after
the reply does not look at it.  Waiters have an entry per poll event and
are read off `turn`.  Which option was picked, the answers' text, the notice
an answer leaves, markers, the API's `AskPoll` and the other adapters' `Answer` are left out.

### Toolsets

One switchable toolset of one slot; toolsets never read each other's rows.
Turns, commands and timer callbacks run side by side, and every call to the
store is a step.

| Variable | Code |
|---|---|
| `row`, `live` | the `kv` row `<session or next>:<on or off>:<since>`; the live session |
| `turn` | `handleTurn`: `sessionFor`, `adoptToolsets`, `activeTools`, `touchToolsets` |
| `cmd` | /new, /new +x, /tools with each of its switches, /purge |
| `timer`, `slot` | what became of each `time.AfterFunc`, and which one `toolsetTimers` holds |
| `switched`, `lapsed`, `crossed` | what the owner switched in which session, whether an idle period has passed since it was switched on or used, whether two handlers were under way at once |

Time passes an idle period at a time (`IdlePasses`): every row written before
is old then, every armed timer due.  A callback is three steps, because it
removes the map entry, reads and writes under different locks
(`ExpireForget`, `ExpireRead`, `ExpireWrite`), and a timer that has fired can
no longer be stopped.  A restart loses the timers and keeps the row.

### Rooms

`connectLoop` (`start`), and handlers of a reload, of /purge new-room and of
/restart (`Tasks`), each a sequence of calls to the store and the homeserver.
Ghosts, rooms and the status room are reconciled in the same steps: read the
hash, create what is missing, record it, patch what differs, store the hash,
fill the map.  So they are one family, `Thing`, with the ghosts first and the
status room last.

| Variable | Code |
|---|---|
| `file`, `conf` | the configuration file; `Service.cfg` and `Bridge.cfg` |
| `as`, `ready` | `Bridge.as`, `Service.ready` |
| `ids`, `rkey` | `Bridge.roomIDs`, `Bridge.roomKey`, with the ghosts and `statusRoom` |
| `table`, `request` | tables `rooms` and `ghosts` and the `kv` rows of the status room; `kv` restart_request |
| `shown`, `made` | the homeserver: what a room's bridge state says it is, its look |
| `crossed`, `lost`, `told`, `kept`, `unread`, `said` | what happened, for the properties: rooms told they are replaced, those of them whose row was not deleted, status rooms whose row could not be read |

What a thing looks like is one value, and so is its hash; `Mixed` is a look of
which only a part was patched.  Account data, avatars, power levels are parts
of it.  Every call may fail and the process may die before any of them; a
failed start is tried again, a failed handler reports.  Where the code drops the
error, so do the steps: a row of the status room that cannot be read is a
missing one (`status.go:28`), a hash that cannot be read differs, and a restart
request that cannot be cleared is announced and stays (`lifecycle.go:125`).
`AskNewRoom` is the notice to the old room and the change of the maps, which
nothing comes between; the delete is a step of its own (`ForgetRoomID`).

### Transcript

One conversation that the bridge keeps itself, with the tools adapter; with a
model that calls nothing the steps are those of the openai adapter.  A turn's
state is a record (`State`) that travels: its handler holds it, the map
`paused` while it waits for a yes, the next turn that abandons it, or the
goroutine of `dropQuestion`.  A completion is named by its turn and its
number, a call by its place in it.

| Variable | Code |
|---|---|
| `turn` | locals of `handleTurn`, `resolveAsks`, `tools.run`, `Answer` |
| `drop` | the goroutines of `dropQuestion` |
| `reg` | `Service.turns` for the slot |
| `paused` | `tools.paused` for the conversation |
| `trans`, `rows` | tables `transcripts` and `turns` |
| `ran`, `allowed`, `excused`, `crossed` | what happened, for the properties |

`Complete`, `HoldOrExec`, `NextRound`, `Pause` are `Runner.Run`, `Settle` the
calls of an answered poll, `WriteUser` and `WriteAssistant` the two statements
of `persist`, and `Abandon...` and `Drop...` the two other ways a state is
written.  Calls under `turnCtx` fail once it is cancelled; what a tool does is
not undone by it (`Exec`).  `/undo` and deletions take the newest two entries
(`Trim`), in one step (`Undo`) of the four calls of the code: the turn read, the
backend, the rewind and the row; `Conversation` has them apart.  What was said, which model of the chain answered, and Compact are
left out.

### Owui

One turn with Open WebUI.  It answers the HTTP call, emits events to a socket
and keeps the message, which lags; the adapter has to tell from these three
when the turn is over, what was said and whether the model stopped to ask.
The visible text is a number of chunks.

| Variable | Code |
|---|---|
| `setup` | is there a socket token, are there features, is the turn streamed |
| `call` | `awaitAnswer`, `streamViaSocket`, `sendOneShot`, `finish`: the step, the number of the call in the turn and the question it resolves |
| `request`, `accepted`, `grace` | `requestDone`, `requestFinished`, `graceLeft` |
| `reader`, `events`, `missed` | the goroutine in `socket.events`, what is on its way to it, an event it skipped or never got |
| `seen`, `pushed`, `text`, `asked` | `accumulator.seen`, what the sink was given, the visible text, the staged question |
| `reply` | what the call returned |
| `task`, `stored`, `orphans` | Open WebUI: the task, the message a GET shows, resolve requests of earlier calls |
| `excused`, `faults` | what kept the call from knowing better, for the properties |

With features a turn is a background task, whose HTTP answer means "accepted".
The reader goes on beside a wait that has ended three seconds after the
answer (`TailEnds`) and still writes what the main goroutine reads: in the
code that is a data race, here an interleaving.  Of Open WebUI itself the
model assumes what the adapter does: events come in order, each chunk is
announced once, as a delta or in a content, and a resolve request that
arrives takes the staged call at once, and the second one is refused.  An event
may be missed ("the socket can miss the event that carries it",
`agent/askuser.go:149`; a packet that cannot be read is skipped,
`socketio.go:118`), and nothing sends it again.  A missed event excuses no reply:
the stored message is read in any case.
Reasoning, revisions of text the model has already said, attachments, Share,
Compact, Models and what Cancel does to the task are left out.

## The runs

| Run | Instance | Shows |
|---|---|---|
| `conversation_races` | 2 runs, 2 jobs, every interleaving; failing sends, one crash; message, /retry, /stop, deletion, /undo, /resume, a turn ceiling of 1; states that differ only in what no step reads any more count as one (`RacesView`, 1 400 000 states) | `TypeOK`, `OneLive`, `RegisteredUnlessRerun`, `AnswersOnRecord` |
| `conversation_sequences` | 3 runs, 1 job, an owner who waits for each step; all operations but /stop, failing backends and posts, exchanges the backend deletes or keeps (`SequencesView`, 845 000 states) | `RewoundStaysOut`, `HistoryKept` |
| `outbox` | 3 actions, batches of 2, 2 attempts, 1 mishap | `OnceUnlessExcused`, the refinement (`KeepsPromise`), and that everything settles (`PendingSettles`) |
| `mirror` | 3 calls of Notify, 2 messages of the topic (one below the threshold), 1 caller of the API, a queue of 2, 2 mishaps, 1 break of the subscription | `OncePerKey`, `ToldTheTruth`, `PostedInOrder` of any callers, `NoSilentHole` and `EveryMessageMirrored` of the topic |
| `stream` | 3 chunks, edits or deltas, 2 devices with 2 subscribe requests between them (one each, or one that renews), a buffer of 1, 1 failing call (198 000 states) | `TypeOK`; `OneStraggler`: at most the edit that was already decided misses the list or lands after the final one; `OncePerRequest`; `WindsDown` |
| `questions` | 2 messages (each a turn, an answer, a drop or /stop), 2 questions of which one takes a typed answer, 1 round; failing backends and posts | `PendingIsAwaited`, `DropGoesOn`, and that turns end and paused calls are resolved (`TurnsEnd`, `PausedCallResolved`) |
| `toolsets` | 2 turns, 2 commands of /new +x, a toggle, the list and /purge; an idle timeout, one overlap, one restart, failing writes (580 000 states) | `OwnSwitchOnly`, `IdleIsOff`, `SwitchesOff` |
| `rooms` | 2 keys, 2 requests (reload, /purge new-room, /restart) of one handler beside the start, one overlap, one edit of the file, one failure or death at every call (817 000 states) | `MapsAgree`, `NothingMoreSent`, `OneRoomEach`, `AnnouncedOnce`, `ComesUp` |
| `transcript` | 2 turns, 2 calls a completion of which one needs a yes, 1 round, 1 question, a seed, one command, one failure (505 000 states) | `OnlyAllowed`, `OneRecordEach`, `NamedOnRecord`, `UndoTakesNoOther`, `TurnsEnd` |
| `owui` | 2 chunks, 2 questions, 2 grace polls, 2 faults, missed events among them; sockets and polls, with and without features, and the one-shot setup (380 000 states) | `OwuiTypeOK`, `ReplyTellsTheEnd`, `ShownStands`, `AskedOnce`, `CallsReturn` |

Two more runs show where the code does not do what it says of itself; TLC
finds a counterexample in each.

| Run | Statement | What happens |
|---|---|---|
| `cursor_passes_failure` | a failed message "should be retried on the next reconnect" | the next message stores a cursor past it |
| `said_twice` | what was said before a question "is not repeated underneath it" | the second of two questions strips only the second text, which the answer does not begin with |

**Behaviour the models show that has no run of its own.**  Each of these is a
behaviour of a model above, or was seen in the code while modelling, and the
properties are stated so as to leave it out by name (`crossed`, `excused`, ...).

*Conversations.*  The seed of an Open WebUI chat, "part of the history the
model is given" (`agent/openwebui.go:114`), is a branch of its own: the session
starts at the root.  Two questions in a row are meant to be "two turns in
order" (`service/conversation.go:190`); a cancelled turn that is past its
backend call still advances, so the second may continue from the parent the
first continued from.  A question deleted while its answer is on its way is
only cancelled, and the answer is posted and stays (`conversation.go:718`); a
/retry at the turn ceiling takes its parent from the turns row and its
conversation from the session that was opened since (`conversation.go:219`).
The same line brings back what /undo took back, of which the code says "The
parent rewind below still keeps it out of the next turn"
(`commands_more.go:100`).  `RewoundStaysOut` was first stated without `Strays`,
and holds so for three runs; the proof did not go through, and with five runs
and an owner who waits TLC finds it violated: after two turns and a /new, the
second question is edited, which is answered in the new conversation under a
parent of the old one; /undo leaves that parent as the tip of the new
conversation; the next message records it; /resume goes back to the old
conversation, two /undo take back both turns; and when the message is edited
now, its answer there continues from the exchange that was taken back.
A backend that deletes messages (`conversation.go:774`, `commands_more.go:96`)
leaves rows whose parent is gone.  Three questions, the second deleted from the
room and the third taken back by /undo: `RewindSession` puts the conversation at
the parent the third has on record, the deleted message of the second, and the
first, still on record, is not in the history any more.  So does the deletion of
the newest question of a closed conversation, which rewinds nothing, followed by
/resume.  `HistoryKept` leaves out the conversations this has happened to
(`Severed`): the tip is deleted, or an exchange was sent under one that was.  An
edit of the question after a deleted one is in the same place, and `HistoryKept`
leaves out edits anyway.
`HistoryKept` leaves out crashes: one between the rewind and the row leaves on
record what the model no longer knows, one between the advance and the row of a
rerun leaves the row with the answer before.
/purge asks whether a turn runs and then empties the room (`purge.go:64`): with
`"purge"` among the `Ops` of the races `AnswersOnRecord` is violated, by an
answer in the emptied room that no row lists.

*Questions and streams.*  A message that drops a question becomes a turn at
once, which cancels the context under which the poll is to be ended
(`askuser.go:278`): the poll stays open.  While `settlePoll` talks to the
homeserver the question is still in `pendingAsks`, so a message is taken as its
answer and nobody reads it.  `editMu` is to keep the final edit the last
(`stream.go:124`), but an interim edit that passed the skip check before takes
the lock after it; `OneStraggler` bounds this to one.  A device that renews its
subscription is sent the whole buffer again (`stream.go:368`), so chunks arrive
once for every request; `OncePerRequest` counts requests.

*Toolsets.*  A row that waits for the next conversation (/new +x) is adopted by
a turn of the old one that is still starting.  A callback that fired too late
to be stopped drops a row that was renewed meanwhile, and removes the map entry
of the timer that replaced it, which can then not be stopped.  A turn that
resolves its toolsets late drops the row of a newer session, or binds it to a
closed one; /tools off beside a starting turn is undone by its touch.  `/tools`
alone drops an expired row and says nothing, though "the caller is told so it
can say so in the room" (`toolsets.go:90`).

*Rooms.*  A Reload whose Reconcile fails has swapped the configuration
(`service.go:170`), while the reports say the old one is kept
(`lifecycle.go:62`, `main.go:156`).  A room that was patched halfway and whose
configuration then goes back to what its hash says keeps its mixed look.  Two
handlers that reconcile at once may create two rooms for a key, or bring a
replaced room back, or leave the older configuration in place.  A room is told
that nothing more will be sent to it before its row is deleted (`purge.go:176`):
when the delete fails the mapping is put back (`rooms.go:165`), and when the
process dies before it the row is there at the next start, so a room that said
goodbye goes on; `kept` names it.  A status room whose row cannot be read gets
a second one, which is recorded over it (`status.go:28`); `unread` names the
first.  A restart request that cannot be cleared is announced, and announced
again at the next start (`lifecycle.go:125`); `said` counts one less for each.
A RecreateRoom that fails after it forgot the row leaves the key
without a room until the next reload or start.  Events that arrive between
connecting and mapping the rooms are dropped; a Reload before `b.as` is set
does not return an error but panics (`NoAppservice` ends the handler, and
`Stop` is there for the process).
`Bridge.Start` is "safe to call again after a failure" (`bridge.go:170`), but
returns at once when the first call got as far as setting `b.as`.

*Transcripts.*  A turn that fails or is cancelled after its tools ran leaves no
record of them (`tools.go:33` promises "a line naming the tools"), nor does
/stop at a question; a model that keeps asking is cut off at `askLimit`, and
its tools are recorded when the next message comes.  A cancelled turn that
pauses late replaces the question of a newer turn, and Answer on a cancelled
context takes the state and stores nothing.  The goroutine of `dropQuestion`
may still hold a state when the next Send reads the transcript.  User and
assistant entries are two statements: a failure between them leaves half an
exchange, and `Undo`, which trims two entries, then takes half of another.
Deleting an older question trims the newest exchange (`openai.go:228`), and so
does /undo after a rerun, whose row keeps its place while its entries are the
newest.  A rerun still sees its own earlier exchange.

*Open WebUI.*  A socket that breaks under a background task ends the wait as
soon as the request was accepted, and the text so far is taken for the answer,
although "there the socket is the only signal, and treating the response as
the end would cut every answer short" (`openwebui.go:467`).  When the socket stays up and
misses the event that ends such a turn, no other signal is left: the call waits
until its context gives up (`Deaf`), and a question in that event is not put to
the owner.  `CallsReturn` says that this is the only call that does not come back
by itself.  A missed delta leaves a gap in what is shown until the reply, and the
next content, which does not extend what was seen, adds nothing to it.  A stored message
that lags may be shorter than what was shown, and it is authoritative.  When
polling looks before the resolve request has arrived it brings back the
question being answered, whose second resolve is refused, and the turn fails.
`folder()` keeps its first error for the life of the process, and later chats
land in the root.

**Bounds.** `N` caps the calls of `handleTurn`: two are enough for every race
of a turn with a turn, and with two jobs for a race of a turn with two
commands; three turns are the least with an older, a middle and a newest one,
which is what undo and deletion tell apart, and with a ceiling of 2 they reach
a second conversation.  `MaxTurns = 1` makes the second of two turns rotate.
The outbox needs two attempts to tell a retry from giving up, and three
actions for a batch of two to leave one behind; `MaxMishaps` caps crashes,
lost answers, failed statements and retries by hand together, so that every
kind occurs in some behaviour; it passes with 2 mishaps as well.  Three calls are the least for a
duplicate behind a first attempt and a message between them, and a queue of
two is full with one call in the worker's hands; `mirror` also passes with four
calls and a queue of one, and with a notification that has no dedupe key.  An answer of three chunks is the
least with two deltas or two interim edits, and a buffer of one drops the older
delta; `stream` passes for one device with four chunks and a buffer of two, and with both
renderings at once.  The races
use symmetry over job names, and a view that leaves out the backend's branches
and `rewound`, which no guard and no property of that run reads.

Two turns of two questions are the least in which a drop,
a timeout and an answer meet a next question and a next turn; one round of
questions reaches `AskLimitReached`, and two rounds are what `said_twice` needs.

Two turns and two commands are what a toolset needs for a row that is switched
in one conversation, waits, expires or is rewritten in another; one overlap
lets any two of them, or a late callback, cross, and `crossed` records it for
the property that only holds without.  In the rooms one overlap is a handler
beside the start-up, or beside itself after a death; two keys tell "this room"
from "another"; `M` is large enough that no run reaches it.  In the transcript
a call that needs a yes and one that does not, with a round left and a question
left, reach every exit of `Runner.Run`, and the second turn is a message, a
rerun or a drop.  `AskLimit = 1` also cuts a model off.  Two chunks tell a
missing one from a repeated one, and two questions the question that is
answered from the next; two faults let a socket break and the read after it
fail; `MaxCalls` ends a turn whose question comes back again.

**Fairness.** The conversations state none.  In the outbox time passes (`FallDue`), the ticker
ticks (`DueDeliveries`), and the worker finishes what it read (`Post`,
`Mark`), because the HTTP client has a timeout and the loop has no other exit.
Retries by hand are not fair and are bounded, as is everything that goes
wrong; without a bound an owner who keeps retrying keeps an action queued.  In the mirror the send worker goes on
while it can (a send ends with the client's timeout), and so does the
subscription (its backoff is at most a minute); callers of the API are not
fair, and neither is anything that goes wrong.  `EveryMessageMirrored` ends
with the bound on calls: a topic whose calls are used up waits.  In the stream
each goroutine goes on once it runs (a call to the homeserver ends, a timer
fires); how far the backend writes and which devices subscribe is not fair.  In the
questions goroutines go on and the timeout of a question fires; the owner need
not vote, type or stop anything.
In the toolsets
goroutines and callbacks go on and idle periods pass; in the rooms the start-up
and the handlers go on (what fails is bounded, as `connectLoop` tries for ever)
and a process that signalled itself stops; in the transcript turns and drops go
on and a question times out (`Unanswered`), while the owner need not answer; in
`Owui` the adapter's goroutines run, the server serves requests, ends its tasks
and stores what they did, and giving up is not fair, so that `CallsReturn` does
not rest on the context and has to name the call that does (`Deaf`).
`CHECK_DEADLOCK FALSE` is set because the bounded instances end: runs, crashes
and actions are used up.

## The proofs

`Conversation_proofs` proves, for every `N`, every set of jobs and every
configuration, from `ConversationAssumption`:

* `TypeCorrect`, by induction over every action;
* `OneLiveAlways`: the unique index makes the step that could break it (a
  creation, a reopening) fail while another row is live; every other step
  leaves the set of live rows alone or shrinks it;
* `RegisteredAlways`: with the types `RegisteredUnlessRerun` is inductive,
  because whoever overwrites or empties the registry cancels the run it named;
  only `Finish` does not, and it removes a run of its own question;
* `AnswersAlwaysOnRecord`, under the hypothesis `NoPurgeUnderARun` (no /purge,
  or an owner who waits): /purge under a run does lose an answer, see above.
  The invariant `OnRecord` says that a row lists an answer its question really
  got and that is recorded (`RunsOnRecord`), that a command which takes a turn
  back carries the answer its row listed, a deletion one that has left the room
  (`JobsOnRecord`), and that an answer no row lists is in the hands of an /undo
  that is about to remove it (`Listed`, with fewer excuses than the property:
  of two commands that take the same turn back, whichever forgets the row
  removes the answer or already has);
* `RewoundAlwaysStaysOut` and `HistoryAlwaysKept`, of an owner who waits
  (`Patient`), about the histories of whole sequences of commands.  Three
  invariants carry them.  `Orderly` says that one thing happens at a time, that
  a run which has not answered is named nowhere (`RunIs`), that a branch stays
  in its conversation (`Tree`), and that of two turns of one conversation the
  one whose exchange lies on the branch the other began from is the older
  (`RowsAre`): taking back the newest therefore leaves what the others began
  from alone.  `AllClean` says that nothing rewound is seen from the tip of a
  conversation, from where a recorded turn began, or from where the run under
  way will begin; `AllKept` that what a row lists is seen from each of these
  that is younger.  Every operation is shown to keep the three, those that move
  a run (`TurnHistory`), the commands (`JobHistory`), the owner (`OwnerHistory`)
  and a crash (`CrashHistory`).  `AllClean` and `AllKept` speak of branches as
  they were built (`Lineage`); that nothing on record has been deleted from the
  backend is an invariant of its own, `RemovedIs`, which rests on `OnRecord`:
  what is deleted was recorded, so no later turn lists it, and the command that
  had it deleted goes on to forget its row.  Both properties got an excuse from the proof;
  what they leave out is described under "Behaviour the models show".

`Calls_proofs` holds the proofs of `Outbox` and of `Owui`, whose names for that
reason do not collide (`OwuiSpec`, `OwuiTypeOK`).  Of `Outbox` it proves, for
every set of actions and all bounds, from
`OutboxAssumption`, one invariant `IInv`: the types with the attempts bounded
by `MaxAttempts` and the mishaps, that the batch is pending, that what was
recorded as delivered was received, that receptions are paid for by excuses,
and that as many calls were made as attempts were counted.  From it follow the
four safety properties and `OutboxKeepsPromise`: `Spec => AtLeastOnce!Spec`
under the mapping, one lemma per action.

Of `Owui` it proves, for any number of chunks, questions, calls, polls and
faults, from `OwuiAssumption`, the types and all three safety properties.
None is inductive alone.  `OwuiInv` is built on `Halted`: the task has stopped
at something that this call does not resolve, so it stays as it is while the
call lasts (`TaskSteps`).  Then each way of learning of the end is shown to
imply it: a foreground request that was answered (`RequestSays`); an event
after which the reader stops, which is the last one and names the question the
task stopped at (`ReaderSays`); and a stored message that says it stopped,
which is not behind its task (`StoredBehind`).  `StepSays` carries that through
the steps of the call, with the excuse recorded wherever the adapter goes on
without any of them, so that `ReplyTellsTheWholeEnd` does not depend on which
comes first.  For `NothingShownIsTakenBack`, events carry texts that only grow
and are never behind what was pushed (`TextsInOrder`); what was pushed counts
upwards, and the accumulator has seen at least as far or nothing else
(`ShownInOrder`), which is what `accumulator.delta` needs to push no chunk twice;
and as long as nothing was missed the events of the first call leave no gap up to
the task's text (`FromTheBeginning`).  `NoQuestionComesBack`
follows from the order of questions (`AsksInOrder`) and from the excuse of a
poll that reads before the resolve request has arrived (`Past`).

`Mirror_proofs` holds the proofs of `Announce` as well, which `Mirror` extends.
Of `Announce` it proves, for any number of calls and notifications and any
queue size, from `AnnounceAssumption`, four theorems in layers: the types with
the worker's job a call that was made; `OrderKept` from the order "posted
before in hand before queued", which needs that calls are started in order;
`CallersToldTheTruth` from "a row stands for a message in the room" and that
the result in the worker's hands is true before it is handed over;
`KeyPostedOnce` from "one message for each excuse, and one more while a row or
the worker about to write it covers the key", where the one worker matters: a
job that is being sent was looked up with nothing recorded since.
Of `Mirror` it shows, from `MirrorAssumption` as well, that every step of the
mirror is a step of `Announce` or leaves it alone (`MirrorImplementsAnnounce`),
so those theorems hold of it too (`MirroredOnce`), and that the cursor has no
silent hole (`CursorHasNoHole`): what lies behind the subscription is handled,
as what lies behind the cursor is.

`Stream_proofs` proves, for any number of chunks, edits, devices and failures
and a buffer of any size, from the assumptions of `Stream`, the types and both
safety properties.  `TypeInv` says what every phase of the turn and of the edit
loop implies.  `EditInv` places the one edit that can straggle: what is not
recorded is in the loop's hand, and what escaped was decided before the stream
closed.  `DeltaInv` places every chunk that was flushed: it is still to be
published, and then nowhere else, or on its way to a device, or has arrived
there; copies that arrived and copies on their way are counted together and are
never more than the device's requests, because a live copy goes only to devices
that subscribed before it was buffered and the replay of a later request is the
one more that it asked for.  Whoever flushes takes the pending text whole.

`Questions_proofs` proves, for any number of messages, questions and rounds,
from `QuestionsAssumption`, the types and `PendingAlwaysAwaited`.  Two facts
make the types inductive: a turn that is asking has a round and a question, and
a message's turn is idle until the message is taken as one.  Each step is
shown to let every turn evolve without leaving a question it awaits
(`TurnsEvolve`), unless it empties the registry as `DoneAwaiting` does; only
`AwaitingAnswer` puts a question into the registry, and its turn awaits it.
`DropAlwaysGoesOn` rests on `GoesInv`: of the turns that are under way only the
registered one was not cancelled; what was asked or dropped, and the run the
parent stands at, has begun; the turn another one began from is over or was
cancelled; and once a message that drops a question has moved the parent past
it, the parent stays away from where that turn began, unless something late
moves it back.  That excuse is a result of the proof.  The property was first
stated for every message that drops a question and TLC agreed, with two
messages; the invariant failed, for four: the handlers of messages run side by
side, so one that dropped a question of the first turn and is slow can call
`AdvanceSession` (`askuser.go:187`) after a third message has continued behind
it and a fourth has dropped that one's question, and the fourth then branches
off before both.  `MayMoveBack` names this.

`Toolsets_proofs` proves, for any number of turns, commands and restarts, from
`ToolsetsAssumption`, the types with the fact that the timer in the map has not
begun its callback, and `IdleIsAlwaysOff`.  What makes it inductive is `Fresh`:
a row that is on and not old means that no idle period has passed since, also
for the row a turn holds while it adopts it; whoever writes a row keeps its
age or has just used it.  `OnlyItsOwnSwitch` holds until turns or commands
overlap: then a row is there because of a switch of its own session, or of one
that waits for the next session, which is being adopted; a switch that counts
has its row; and whoever is between two calls to the store has read what is
still true.  A countdown that ran out, or a write that failed, excuses.

`Rooms_proofs` proves, for any number of keys, rooms, handlers, failures and
deaths, from `RoomsAssumption`, the types and all four safety properties.
`Safe` has two layers: whoever holds a room holds it for the thing its bridge
state says it is (`Owns`), whatever overlaps; and as long as handlers do not,
each phase of the one under way fixes what the table and the maps may say of
the thing it works on (`Phases`, `Agree`), every room is named by a row or is
about to be, or is lost, unread or told to be replaced (`Recorded`), and a room
that was told so and not kept is nowhere but in the row that is deleted next
(`Replaced`).  `AnnouncedAtMostOnce` counts: what was said, what is stored
and what is about to be said are never more than what was asked, less what
could not be cleared.

`Transcript_proofs` proves, for any number of turns, calls, rounds and
questions, from `TranscriptAssumption`, the types, `RunsOnAYes`,
`RecordedOnlyOnce`, `RanIsNamed` and `UndoAlwaysTakesNoOther`.  The first follows because a yes is kept with the
completion it was asked of, and an Answer resumes the state with that very
completion or nothing.  The second needs that a turn's state is in one place
(`OnePlace`): with its handler, in `paused`, with the turn that abandons it or
with the goroutine that drops it; and that whoever has it has written as many
of its entries as its position says (`Written`).  For the third, a call that
ran is on the list of whoever carries its turn's state, handler, map, the turn
that abandons it or the goroutine that drops it, until the second entry is
written (`RanCarried`); whoever loses the state is excused in the same step.
For the last, while turns do not cross, the transcript is in the order of the
turns, and who may still write to it, the turn under way, the state in the map
or the one being abandoned, is not before what is there (`Alone`, `InOrder`); a
question has a row before it is asked again (`InTurn`), so the second of two
entries of it is no older than its row, and what /undo takes is among the two
newest.  That it takes only what is its own is false: the exchange of a rerun
of an older question is newer than the row /undo takes (above).

Only model-checked: liveness (`PendingSettles`, `EveryMessageMirrored`,
`WindsDown`, `TurnsEnd`, `PausedCallResolved`, `SwitchesOff`, `ComesUp`,
`CallsReturn`), which is out of the prover's reach.  `TypeOK` of the proved
modules other than `Conversation`, `Stream` and `Owui` is not among the
invariants of a run, as the theorem says more.

## Not modelled

The deduplication of transactions (`MarkTxn`) is one statement.  /clear, delete
buttons, notices and progress markers are one row and one redaction each, and a
redaction that fails is logged.  The HTTP API is a thin layer over what is
modelled: its retry, send and reload endpoints are actions of `Outbox`,
`Announce` and `Rooms`.  Configuration, rendering, emoji, reasoning parameters,
room features and the command line parse, validate and format without state
that several actors share.  The webhook adapter is one call.  The WebSocket to
the homeserver, media and the wire formats are pure I/O.

## The plan

1. `Conversation`, `Outbox` with `AtLeastOnce`, `Announce` and `Mirror`,
   `Questions`: done, with their proofs.
2. `Toolsets`, `Rooms`, `Transcript`: done, with their proofs.
3. `Stream` and `Owui`: done, with their proofs.
4. The histories of an owner who waits: done, with their proofs.
5. Every safety invariant and action property of the passing runs: proved.
6. To be added to the models: `AskPoll` of the API, the Allow / Deny polls of
   the tools adapter as polls (`Transcript` has their answers), transactions,
   the markers and notices, a Compact that runs beside a turn.
