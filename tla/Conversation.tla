---------------------------- MODULE Conversation ----------------------------
(***************************************************************************)
(* The agent conversations of one slot (a room's main timeline, or one     *)
(* thread): internal/service/conversation.go with the commands of          *)
(* commands.go, commands_more.go and purge.go that move the same state,    *)
(* over the sessions and turns tables of internal/store/store.go.          *)
(*                                                                         *)
(* A run is one call of handleTurn, in its own goroutine.  Runs are        *)
(* numbered in the order they are spawned.  Everything a run produces is   *)
(* named by its number: the Matrix event that asked (a /retry reuses the   *)
(* event of the run it repeats), the session it creates, which is also the *)
(* backend's conversation, and the exchange it adds to that conversation,  *)
(* which is also its answer in the room.  A job is one command goroutine.  *)
(* Between two calls to the store, the backend or the homeserver any other *)
(* goroutine may run, so each such call is an action.                      *)
(***************************************************************************)
EXTENDS Naturals

CONSTANTS
  N,                   \* how many times handleTurn is called (bound)
  Cmds,                \* command goroutines that may be in flight at once
  MaxTurns,            \* session.max_turns of the agent; 0 is "no ceiling"
  CarrySummary,        \* session.carry_summary of the agent
  NotificationThread,  \* the slot is a thread that hangs under a notification
  Ops,                 \* which of the owner's operations this instance has
  Faults,              \* which calls may fail: "new", "send", "post"
  MaxCrashes,          \* how often the process may be killed (bound)
  Patient              \* the owner waits for everything to settle first

ASSUME ConversationAssumption ==
  /\ N \in Nat \ {0}
  /\ MaxTurns \in Nat
  /\ MaxCrashes \in Nat
  /\ CarrySummary \in BOOLEAN
  /\ NotificationThread \in BOOLEAN
  /\ Patient \in BOOLEAN

Run == 1 .. N

\* A position in a backend's history: 0 is the root, r \in Run the exchange of
\* run r, N + r the first turn that seeded the conversation run r opened.
Node == 0 .. 2 * N
Seed(r) == N + r

Pc == {"idle", "spawned", "lookup", "rotate", "seed", "create", "begin",
       "sending", "post", "advance", "record", "finish", "done", "dead"}

RunRec == [pc : Pc, q : 0 .. N, edits : 0 .. N, held : 0 .. N, from : Node,
           stop : BOOLEAN, recorded : BOOLEAN]

IdleRun == [pc |-> "idle", q |-> 0, edits |-> 0, held |-> 0, from |-> 0,
            stop |-> FALSE, recorded |-> FALSE]

\* A row of sessions: live is closed_at IS NULL, gone a deleted row.
SessRec == [st : {"none", "live", "closed", "gone"}, tip : Node,
            turns : 0 .. N]
NoSession == [st |-> "none", tip |-> 0, turns |-> 0]

\* A row of turns: answer is the run whose answer it lists (its answer_events,
\* and its user_msg_id in the backend), 0 when there is no such row.
Row == [sess : 0 .. N, parent : Node, answer : 0 .. N, at : 0 .. N]
NoRow == [sess |-> 0, parent |-> 0, answer |-> 0, at |-> 0]

\* at: the step a command goroutine is about to take; s and t are the sessions
\* it has read, q and row the turn it has read.
JobRec == [at : {"idle", "new", "undo last", "undo backend", "undo rewind",
                 "undo forget", "undo redact", "taken back", "taken back last",
                 "taken back rewind", "taken back forget", "compact", "compact mark", "resume",
                 "resume close", "resume reopen", "purge", "purge forget"},
           s : 0 .. N, t : 0 .. N, q : 0 .. N, row : Row]
IdleJob == [at |-> "idle", s |-> 0, t |-> 0, q |-> 0, row |-> NoRow]

VARIABLES
  run,       \* the runs: locals of handleTurn and its turnCtx
  reg,       \* Service.turns for this slot: the run registered last, or 0
  sess,      \* table sessions, by the run that created the row
  row,       \* table turns, by event id
  clock,     \* created_at of the next turns row
  compact,   \* the kvCompactRequest marker of this slot
  seeded,    \* conversations whose first turn is a seed
  branch,    \* backend: what was on the branch that ends in a node
  removed,   \* backend: exchanges that have been deleted from it
  room,      \* runs whose answer is visible in the room
  job,       \* the command goroutines
  deleted,   \* questions the owner deleted from the room
  rewound,   \* exchanges a rewind has taken back from their conversation
  cut,       \* answers a crash kept /undo from removing
  crashes

tables == <<sess, row, clock, compact>>
backend == <<seeded, branch, removed>>
ledger == <<deleted, rewound, cut, crashes>>

vars == <<run, reg, sess, row, clock, compact, seeded, branch, removed,
          room, job, deleted, rewound, cut, crashes>>

Running == {"lookup", "rotate", "seed", "create", "begin", "sending", "post",
            "advance", "record", "finish"}
Active(r) == run[r].pc \in Running

Live == {s \in Run : sess[s].st = "live"}
LiveSession == IF Live = {} THEN 0 ELSE CHOOSE s \in Live : TRUE

HasRow(q) == row[q].answer # 0

\* LastTurn: the newest turn of the live conversation, if it has one.
LastTurn ==
  {q \in Run :
     /\ HasRow(q) /\ row[q].sess \in Live
     /\ \A p \in Run : HasRow(p) /\ row[p].sess \in Live
                        => row[p].at <= row[q].at}

Settled ==
  /\ \A r \in Run : run[r].pc \in {"idle", "done", "dead"}
  /\ \A c \in Cmds : job[c].at = "idle"

\* The owner does something: op is one of the operations of this instance, and
\* a patient owner waits until the last one has settled.
MayDo(op) == op \in Ops /\ (Patient => Settled)

-----------------------------------------------------------------------------
(* Updates of the tables, one operator per statement of the store.         *)

CloseSession(s) ==
  [sess EXCEPT ![s].st = IF @ = "live" THEN "closed" ELSE @]

\* Mutant: the index is not there.
NoIndex(s) == FALSE

\* The partial unique index sessions_live: one live row per slot.
SlotTaken(s) == \E o \in Run \ {s} : sess[o].st = "live"

ReopenSession(s) ==
  [sess EXCEPT ![s].st = IF @ = "closed" THEN "live" ELSE @]

Exists(s) == s \in Run /\ sess[s].st \in {"live", "closed"}

\* A run advances once, so N bounds both counters (and never cuts them off).
OneMore(n) == IF n < N THEN n + 1 ELSE N
OneLess(n) == IF n > 0 THEN n - 1 ELSE 0

AdvanceSession(s, to) ==
  IF Exists(s)
  THEN [sess EXCEPT ![s] = [@ EXCEPT !.tip = to,
                                     !.turns = OneMore(sess[s].turns)]]
  ELSE sess

\* Mutant: the turn count without its floor.
RewindWithoutFloor(s, to) ==
  IF Exists(s)
  THEN [sess EXCEPT ![s] = [@ EXCEPT !.tip = to,
                                     !.turns = sess[s].turns - 1]]
  ELSE sess

RewindSession(s, to) ==
  IF Exists(s)
  THEN [sess EXCEPT ![s] = [@ EXCEPT !.tip = to,
                                     !.turns = OneLess(sess[s].turns)]]
  ELSE sess

\* ON CONFLICT keeps the session, the parent and the age of the first answer.
PutTurn(r) ==
  IF HasRow(run[r].q)
  THEN [row EXCEPT ![run[r].q].answer = r]
  ELSE [row EXCEPT ![run[r].q] =
          [sess |-> run[r].held, parent |-> run[r].from, answer |-> r,
           at |-> clock]]

-----------------------------------------------------------------------------
(* The owner's messages: each one spawns a run.                            *)

\* Runs are taken in order; the next one is free when all before it are used.
Next1(r) == run[r].pc = "idle" /\ \A p \in Run : p < r => run[p].pc # "idle"

Spawn(r, q, edits) ==
  /\ Next1(r)
  /\ run' = [run EXCEPT ![r] = [IdleRun EXCEPT !.pc = "spawned",
                                               !.q = q, !.edits = edits]]
  /\ UNCHANGED <<reg, room, job, tables, backend, ledger>>

OnMessage(r) == MayDo("message") /\ Spawn(r, r, 0)

\* An edit is an event of its own that names the event it edits.
OnEdit(r, o) ==
  /\ MayDo("edit")
  /\ run[o].pc # "idle" /\ run[o].q = o /\ run[o].edits = 0
  /\ o \notin deleted
  /\ Spawn(r, r, o)

\* /retry runs the newest turn again, under that turn's own event.
CommandRetry(r) ==
  /\ MayDo("retry")
  /\ \E q \in LastTurn : Spawn(r, q, q)

-----------------------------------------------------------------------------
(* handleTurn and sessionFor.                                              *)

Step(r, from, to) ==
  /\ run[r].pc = from
  /\ run' = [run EXCEPT ![r].pc = to]

\* The registry is overwritten, and whoever was in it is cancelled.
Register(r) ==
  /\ run[r].pc = "spawned"
  /\ run' = [p \in Run |->
               IF p = r THEN [run[p] EXCEPT !.pc = "lookup"]
               ELSE IF p = reg THEN [run[p] EXCEPT !.stop = TRUE]
               ELSE run[p]]
  /\ reg' = r
  /\ UNCHANGED <<room, job, tables, backend, ledger>>

\* Every statement of a cancelled run that takes turnCtx fails.
GiveUp(r) ==
  /\ run[r].stop
  /\ run[r].pc \in {"lookup", "seed", "create", "sending"}
  /\ run' = [run EXCEPT ![r].pc = "finish"]
  /\ UNCHANGED <<reg, room, job, tables, backend, ledger>>

CeilingReached(s) == MaxTurns > 0 /\ sess[s].turns >= MaxTurns

\* The live conversation goes on when no rotation rule says otherwise.
Continue(r) ==
  /\ run[r].pc = "lookup" /\ ~run[r].stop
  /\ LiveSession # 0 /\ ~CeilingReached(LiveSession)
  /\ run' = [run EXCEPT ![r] = [@ EXCEPT !.pc = "begin",
                                         !.held = LiveSession,
                                         !.from = sess[LiveSession].tip]]
  /\ UNCHANGED <<reg, room, job, tables, backend, ledger>>

\* Idle for too long, at the ceiling, or the room's agent has changed.
MustRotate(r) ==
  /\ run[r].pc = "lookup" /\ ~run[r].stop
  /\ LiveSession # 0
  /\ CeilingReached(LiveSession) \/ "idle" \in Ops
  /\ run' = [run EXCEPT ![r] = [@ EXCEPT !.pc = "rotate",
                                         !.held = LiveSession]]
  /\ UNCHANGED <<reg, room, job, tables, backend, ledger>>

NoLiveSession(r) ==
  /\ ~run[r].stop
  /\ LiveSession = 0
  /\ Step(r, "lookup", "seed")
  /\ UNCHANGED <<reg, room, job, tables, backend, ledger>>

\* A failure to close the old conversation is logged and ignored.
Rotate(r) ==
  /\ Step(r, "rotate", "seed")
  /\ sess' = IF run[r].stop THEN sess ELSE CloseSession(run[r].held)
  /\ UNCHANGED <<reg, row, clock, compact, room, job, backend, ledger>>

\* What a new conversation is seeded with: the notification the thread hangs
\* under, or a summary of the conversation before.
WantsSeed(r) ==
  \/ NotificationThread
  \/ compact /\ (\E s \in Run : Exists(s))
  \/ CarrySummary /\ run[r].held # 0

\* seedFor and NewConversation.  The compaction marker is consumed whatever
\* becomes of the summary and of the conversation it was meant for.
NewConversation(r) ==
  /\ \/ ~run[r].stop /\ Step(r, "seed", "create")
     \/ ("new" \in Faults \/ run[r].stop) /\ Step(r, "seed", "finish")
  /\ compact' = (compact /\ NotificationThread)
  /\ \/ seeded' = seeded
     \/ WantsSeed(r) /\ seeded' = seeded \cup {r}
  /\ UNCHANGED <<reg, sess, row, clock, branch, removed, room, job, ledger>>

CreateSession(r) ==
  /\ run[r].pc = "create" /\ ~run[r].stop
  /\ IF SlotTaken(r)
     THEN /\ run' = [run EXCEPT ![r].pc = "finish"]
          /\ UNCHANGED sess
     ELSE /\ run' = [run EXCEPT ![r] = [@ EXCEPT !.pc = "begin",
                                                 !.held = r, !.from = 0]]
          /\ sess' = [sess EXCEPT ![r] = [NoSession EXCEPT !.st = "live"]]
  /\ UNCHANGED <<reg, row, clock, compact, room, job, backend, ledger>>

\* An edit continues from where the edited turn did, when that is on record.
ParentToSend(r) ==
  LET e == run[r].edits
  IN  IF e # 0 /\ HasRow(e) THEN row[e].parent ELSE run[r].from

BeginSend(r) ==
  /\ run[r].pc = "begin"
  /\ run' = [run EXCEPT ![r] = [@ EXCEPT !.pc = "sending",
                                         !.from = ParentToSend(r)]]
  /\ UNCHANGED <<reg, room, job, tables, backend, ledger>>

\* The conversation a node belongs to; the root belongs to every one.
InConversation(n, s) ==
  \/ n \in Run /\ run[n].held = s
  \/ n = Seed(s)

\* The branch of a conversation that ends in n: nothing for the root, or for a
\* parent the conversation has not, or has no longer.
Stored(n, s) ==
  IF InConversation(n, s) /\ n \notin removed THEN branch[n] ELSE {}

\* What its model is shown for a turn under n.  What stood below a deleted
\* exchange hangs below what was above it.
History(n, s) == Stored(n, s) \ removed

\* The backend answers.  A turn that was cancelled too late is answered too.
SendReturns(r) ==
  /\ Step(r, "sending", "post")
  /\ branch' = [branch EXCEPT ![r] =
                   {r} \cup Stored(run[r].from, run[r].held)]
  /\ UNCHANGED <<reg, seeded, removed, room, job, tables, ledger>>

SendFails(r) ==
  /\ "send" \in Faults
  /\ Step(r, "sending", "finish")
  /\ UNCHANGED <<reg, room, job, tables, backend, ledger>>

\* postAnswer does not look at turnCtx: a late cancel does not stop it.
PostAnswer(r) ==
  /\ Step(r, "post", "advance")
  /\ room' = room \cup {r}
  /\ UNCHANGED <<reg, job, tables, backend, ledger>>

\* A later part that will not send ends the run with the first parts visible.
PostFails(r) ==
  /\ "post" \in Faults
  /\ Step(r, "post", "finish")
  /\ room' \in {room, room \cup {r}}
  /\ UNCHANGED <<reg, job, tables, backend, ledger>>

Advance(r) ==
  /\ Step(r, "advance", "record")
  /\ sess' = AdvanceSession(run[r].held, r)
  /\ UNCHANGED <<reg, row, clock, compact, room, job, backend, ledger>>

\* Mutant: the turn is recorded under turnCtx instead of ctx.
RecordUnlessCancelled(r) ==
  /\ run[r].pc = "record"
  /\ run' = [run EXCEPT ![r] = [@ EXCEPT !.pc = "finish",
                                         !.recorded = TRUE]]
  /\ row' = IF run[r].stop THEN row ELSE PutTurn(r)
  /\ clock' = OneMore(clock)
  /\ UNCHANGED <<reg, sess, compact, room, job, backend, ledger>>

Record(r) ==
  /\ run[r].pc = "record"
  /\ run' = [run EXCEPT ![r] = [@ EXCEPT !.pc = "finish",
                                         !.recorded = TRUE]]
  /\ row' = PutTurn(r)
  /\ clock' = OneMore(clock)
  /\ UNCHANGED <<reg, sess, compact, room, job, backend, ledger>>

\* Mutant: the cleanup removes whatever entry it finds.
FinishWhoever(r) ==
  /\ Step(r, "finish", "done")
  /\ reg' = 0
  /\ UNCHANGED <<room, job, tables, backend, ledger>>

\* The deferred cleanup compares event ids, which a /retry shares.
Finish(r) ==
  /\ Step(r, "finish", "done")
  /\ reg' = IF \E p \in Run : reg = p /\ run[p].q = run[r].q THEN 0 ELSE reg
  /\ UNCHANGED <<room, job, tables, backend, ledger>>

TurnStep(r) ==
  \/ Register(r) \/ GiveUp(r) \/ Continue(r) \/ MustRotate(r)
  \/ NoLiveSession(r) \/ Rotate(r) \/ NewConversation(r) \/ CreateSession(r)
  \/ BeginSend(r) \/ SendReturns(r) \/ SendFails(r) \/ PostAnswer(r)
  \/ PostFails(r) \/ Advance(r) \/ Record(r) \/ Finish(r)

-----------------------------------------------------------------------------
(* Commands that stop, take back, close and reopen.                        *)

\* Cancel the registered run and forget it.
CancelRegistered ==
  /\ run' = [run EXCEPT ![reg].stop = TRUE]
  /\ reg' = 0

CommandStop ==
  /\ MayDo("stop")
  /\ reg # 0
  /\ CancelRegistered
  /\ UNCHANGED <<room, job, tables, backend, ledger>>

Start(c, op, j) ==
  /\ MayDo(op)
  /\ job[c].at = "idle"
  /\ job' = [job EXCEPT ![c] = j]

JobStep(c, from, to) ==
  /\ job[c].at = from
  /\ job' = [job EXCEPT ![c] = IF to = "idle" THEN IdleJob
                               ELSE [@ EXCEPT !.at = to]]

\* /new: the live conversation is read, then closed.
CommandNew(c) ==
  /\ LiveSession # 0
  /\ Start(c, "new", [IdleJob EXCEPT !.at = "new", !.s = LiveSession])
  /\ UNCHANGED <<run, reg, room, tables, backend, ledger>>

NewClose(c) ==
  /\ JobStep(c, "new", "idle")
  /\ sess' = CloseSession(job[c].s)
  /\ UNCHANGED <<run, reg, row, clock, compact, room, backend, ledger>>

\* The backend deletes the exchange a command takes back, if s is where it has
\* it; a call that fails, or that this backend does not have, is passed over.
BackendUndo(c, s) ==
  \/ removed' = removed
  \/ /\ run[job[c].row.answer].held = s
     /\ removed' = removed \cup {job[c].row.answer}

\* /undo: the conversation, its last turn, the backend, the rewind, the row,
\* the room.
CommandUndo(c) ==
  /\ LiveSession # 0
  /\ Start(c, "undo", [IdleJob EXCEPT !.at = "undo last", !.s = LiveSession])
  /\ UNCHANGED <<run, reg, room, tables, backend, ledger>>

UndoReadLast(c) ==
  /\ \/ LastTurn = {} /\ JobStep(c, "undo last", "idle")
     \/ /\ job[c].at = "undo last"
        /\ \E q \in LastTurn :
             job' = [job EXCEPT ![c] = [@ EXCEPT !.at = "undo backend",
                                                 !.q = q, !.row = row[q]]]
  /\ UNCHANGED <<run, reg, room, tables, backend, ledger>>

UndoBackend(c) ==
  /\ JobStep(c, "undo backend", "undo rewind")
  /\ BackendUndo(c, job[c].s)
  /\ UNCHANGED <<run, reg, room, tables, seeded, branch, ledger>>

\* Mutant: the parent stays where the undone turn left it.
RewindOnlyTheCount(c, s) ==
  /\ sess' = RewindSession(s, sess[s].tip)
  /\ rewound' = IF Exists(s) /\ run[job[c].row.answer].held = s
                THEN rewound \cup {job[c].row.answer} ELSE rewound

Rewind(c, s) ==
  /\ sess' = RewindSession(s, job[c].row.parent)
  /\ rewound' = IF Exists(s) /\ run[job[c].row.answer].held = s
                THEN rewound \cup {job[c].row.answer} ELSE rewound

\* The tip goes back to the parent the turn has on record, whether or not the
\* backend still has that message.
UndoRewind(c) ==
  /\ JobStep(c, "undo rewind", "undo forget")
  /\ Rewind(c, job[c].s)
  /\ UNCHANGED <<run, reg, row, clock, compact, room, deleted, cut, crashes,
                 backend>>

UndoForget(c) ==
  /\ JobStep(c, "undo forget", "undo redact")
  /\ row' = [row EXCEPT ![job[c].q] = NoRow]
  /\ UNCHANGED <<run, reg, sess, clock, compact, room, backend, ledger>>

UndoRedact(c) ==
  /\ JobStep(c, "undo redact", "idle")
  /\ room' = room \ {job[c].row.answer}
  /\ deleted' = deleted \cup {job[c].q}
  /\ UNCHANGED <<run, reg, rewound, cut, crashes, tables, backend>>

\* The owner deletes a question.  One that is being answered is cancelled and
\* nothing more; one that has been answered is taken back.
Answering(q) == \E r \in Run : reg = r /\ run[r].q = q
Asked(q) == run[q].pc # "idle" /\ run[q].q = q /\ run[q].edits = 0

OnRedactionCancel(q) ==
  /\ MayDo("redact") /\ Asked(q) /\ q \notin deleted
  /\ Answering(q)
  /\ CancelRegistered
  /\ deleted' = deleted \cup {q}
  /\ UNCHANGED <<room, job, rewound, cut, crashes, tables, backend>>

\* The answer the row lists leaves the room at once.
OnRedactionUndo(c, q) ==
  /\ Asked(q) /\ q \notin deleted
  /\ ~Answering(q)
  /\ Start(c, "redact",
           IF HasRow(q)
           THEN [IdleJob EXCEPT !.at = "taken back", !.q = q, !.row = row[q]]
           ELSE IdleJob)
  /\ deleted' = deleted \cup {q}
  /\ room' = room \ {row[q].answer}
  /\ UNCHANGED <<run, reg, rewound, cut, crashes, tables, backend>>

\* Of any conversation that still exists, closed ones too, and of any of its
\* turns: what came after it stays, in the backend as on record.
TakenBackBackend(c) ==
  /\ \/ /\ ~Exists(job[c].row.sess)
        /\ JobStep(c, "taken back", "idle")
        /\ UNCHANGED removed
     \/ /\ Exists(job[c].row.sess)
        /\ JobStep(c, "taken back", "taken back last")
        /\ BackendUndo(c, job[c].row.sess)
  /\ UNCHANGED <<run, reg, room, tables, seeded, branch, ledger>>

\* Mutant: deleting any question rewinds, as if it were the newest.
TakenBackAlwaysRewinds(c) ==
  /\ JobStep(c, "taken back last", "taken back rewind")
  /\ UNCHANGED <<run, reg, room, tables, backend, ledger>>

\* Only the newest turn of the live conversation rewinds it.
TakenBackReadLast(c) ==
  /\ \/ /\ job[c].q \in LastTurn
        /\ JobStep(c, "taken back last", "taken back rewind")
     \/ /\ job[c].q \notin LastTurn
        /\ JobStep(c, "taken back last", "taken back forget")
  /\ UNCHANGED <<run, reg, room, tables, backend, ledger>>

TakenBackRewind(c) ==
  /\ JobStep(c, "taken back rewind", "taken back forget")
  /\ Rewind(c, job[c].row.sess)
  /\ UNCHANGED <<run, reg, row, clock, compact, room, deleted, cut, crashes,
                 backend>>

TakenBackForget(c) ==
  /\ JobStep(c, "taken back forget", "idle")
  /\ row' = [row EXCEPT ![job[c].q] = NoRow]
  /\ UNCHANGED <<run, reg, sess, clock, compact, room, backend, ledger>>

\* /compact of a backend that cannot compact by itself: close the conversation
\* and mark the slot.  (One that can leaves the bridge's state alone.)
CommandCompact(c) ==
  /\ LiveSession # 0
  /\ Start(c, "compact", [IdleJob EXCEPT !.at = "compact", !.s = LiveSession])
  /\ UNCHANGED <<run, reg, room, tables, backend, ledger>>

CompactClose(c) ==
  /\ JobStep(c, "compact", "compact mark")
  /\ sess' = CloseSession(job[c].s)
  /\ UNCHANGED <<run, reg, row, clock, compact, room, backend, ledger>>

CompactMark(c) ==
  /\ JobStep(c, "compact mark", "idle")
  /\ compact' = TRUE
  /\ UNCHANGED <<run, reg, sess, row, clock, room, backend, ledger>>

\* /resume: put the current conversation away, then reopen the one asked for.
CommandResume(c, t) ==
  /\ sess[t].st = "closed"
  /\ Start(c, "resume", [IdleJob EXCEPT !.at = "resume", !.t = t])
  /\ UNCHANGED <<run, reg, room, tables, backend, ledger>>

ResumeReadLive(c) ==
  /\ job[c].at = "resume"
  /\ job' = [job EXCEPT ![c] =
               IF LiveSession \in {0, job[c].t}
               THEN [@ EXCEPT !.at = "resume reopen"]
               ELSE [@ EXCEPT !.at = "resume close", !.s = LiveSession]]
  /\ UNCHANGED <<run, reg, room, tables, backend, ledger>>

ResumeClose(c) ==
  /\ JobStep(c, "resume close", "resume reopen")
  /\ sess' = CloseSession(job[c].s)
  /\ UNCHANGED <<run, reg, row, clock, compact, room, backend, ledger>>

\* The index refuses a second live row, and the command reports it.
ResumeReopen(c) ==
  /\ JobStep(c, "resume reopen", "idle")
  /\ sess' = IF SlotTaken(job[c].t) THEN sess ELSE ReopenSession(job[c].t)
  /\ UNCHANGED <<run, reg, row, clock, compact, room, backend, ledger>>

\* /purge yes: refused while a run is registered, then the room is emptied and
\* the store forgets its conversations in one transaction.
CommandPurge(c) ==
  /\ reg = 0
  /\ Start(c, "purge", [IdleJob EXCEPT !.at = "purge"])
  /\ UNCHANGED <<run, reg, room, tables, backend, ledger>>

PurgeRoom(c) ==
  /\ JobStep(c, "purge", "purge forget")
  /\ room' = {}
  /\ deleted' = deleted \cup {r \in Run : run[r].pc # "idle"}
  /\ UNCHANGED <<run, reg, rewound, cut, crashes, tables, backend>>

PurgeForget(c) ==
  /\ JobStep(c, "purge forget", "idle")
  /\ sess' = [s \in Run |-> IF Exists(s) THEN [sess[s] EXCEPT !.st = "gone"]
                            ELSE sess[s]]
  /\ row' = [q \in Run |-> IF HasRow(q) /\ Exists(row[q].sess) THEN NoRow
                           ELSE row[q]]
  /\ compact' = FALSE
  /\ UNCHANGED <<run, reg, clock, room, backend, ledger>>

JobNext(c) ==
  \/ NewClose(c)
  \/ UndoReadLast(c) \/ UndoBackend(c) \/ UndoRewind(c) \/ UndoForget(c)
  \/ UndoRedact(c)
  \/ TakenBackBackend(c) \/ TakenBackReadLast(c) \/ TakenBackRewind(c) \/ TakenBackForget(c)
  \/ CompactClose(c) \/ CompactMark(c)
  \/ ResumeReadLive(c) \/ ResumeClose(c) \/ ResumeReopen(c)
  \/ PurgeRoom(c) \/ PurgeForget(c)

-----------------------------------------------------------------------------
\* The process is killed.  The registry and the goroutines go, the tables, the
\* backend and the room stay; nothing is picked up again at the next start.
Crash ==
  /\ crashes < MaxCrashes
  /\ crashes' = crashes + 1
  /\ run' = [r \in Run |-> IF run[r].pc = "spawned" \/ Active(r)
                           THEN [run[r] EXCEPT !.pc = "dead"] ELSE run[r]]
  /\ reg' = 0
  /\ job' = [c \in Cmds |-> IdleJob]
  /\ cut' = cut \cup {a \in Run : \E c \in Cmds : /\ job[c].at = "undo redact"
                                               /\ job[c].row.answer = a}
  /\ UNCHANGED <<room, deleted, rewound, tables, backend>>

Init ==
  /\ run = [r \in Run |-> IdleRun]
  /\ reg = 0
  /\ sess = [s \in Run |-> NoSession]
  /\ row = [q \in Run |-> NoRow]
  /\ clock = 0
  /\ compact = FALSE
  /\ seeded = {}
  /\ branch = [n \in Node |-> IF n > N THEN {n} ELSE {}]
  /\ removed = {}
  /\ room = {}
  /\ job = [c \in Cmds |-> IdleJob]
  /\ deleted = {}
  /\ rewound = {}
  /\ cut = {}
  /\ crashes = 0

OwnerNext ==
  \/ \E r \in Run : OnMessage(r) \/ CommandRetry(r)
  \/ \E r, o \in Run : OnEdit(r, o)
  \/ CommandStop
  \/ \E q \in Run : OnRedactionCancel(q)
  \/ \E c \in Cmds : \/ CommandNew(c) \/ CommandUndo(c)
                     \/ CommandCompact(c) \/ CommandPurge(c)
                     \/ \E q \in Run : OnRedactionUndo(c, q)
                     \/ \E t \in Run : CommandResume(c, t)

Next ==
  \/ OwnerNext
  \/ \E r \in Run : TurnStep(r)
  \/ \E c \in Cmds : JobNext(c)
  \/ Crash

Spec == Init /\ [][Next]_vars
-----------------------------------------------------------------------------
(* What must hold.                                                         *)

\* Every variable stays in its set.
TypeOK ==
  /\ run \in [Run -> RunRec]
  /\ reg \in 0 .. N
  /\ sess \in [Run -> SessRec]
  /\ row \in [Run -> Row]
  /\ clock \in 0 .. N
  /\ compact \in BOOLEAN
  /\ seeded \in SUBSET Run
  /\ branch \in [Node -> SUBSET Node]
  /\ removed \in SUBSET (0 .. N)
  /\ room \in SUBSET Run
  /\ job \in [Cmds -> JobRec]
  /\ deleted \in SUBSET (0 .. N)
  /\ rewound \in SUBSET (0 .. N)
  /\ cut \in SUBSET (0 .. N)
  /\ crashes \in 0 .. MaxCrashes

\* However turns, /new, /compact, /resume and rotations interleave, the slot
\* never has two live conversations: LiveSession reads the only one there is.
OneLive == \A s, t \in Live : s = t

\* A run that nobody has cancelled is the one the registry names, so /stop, a
\* deleted question and the next question all reach it, and /purge sees it.
\* A question that has been asked again is exempt: its runs share one event id,
\* and the first to finish removes the other's entry.
RegisteredUnlessRerun ==
  \A r \in Run :
    \/ ~Active(r) \/ run[r].stop \/ reg = r
    \/ \E p \in Run \ {r} : run[p].pc # "idle" /\ run[p].q = run[r].q

\* An answer that a finished run left in the room is listed by its turn, which
\* is the only way /undo and a deletion find it again.  Exempt: the answers of
\* a question asked again (one row, the newest answer), one that an /undo is
\* about to remove, and one whose removal a crash cut short.
AnswersOnRecord ==
  \A r \in room :
    \/ ~run[r].recorded
    \/ row[run[r].q].answer = r
    \/ \E p \in Run \ {r} : run[p].pc # "idle" /\ run[p].q = run[r].q
    \/ \E c \in Cmds : job[c].row.answer = r
    \/ r \in cut

\* A rerun strays when it is answered in another conversation than the one its
\* question is on record in: it takes its parent from the one and its history
\* from the other (conversation.go:219).
Strays(r) ==
  LET o == run[r].edits
  IN  o # 0 /\ run[o].recorded /\ r \in branch[r] /\ run[r].held # run[o].held

\* An exchange that /undo or a deletion rewound is never again part of the
\* history a conversation continues from, whatever is asked, retried, edited,
\* resumed or rotated later, unless a rerun strays.  (Of an owner who waits
\* for each step.)
RewoundStaysOut ==
  Settled /\ (\A r \in Run : ~Strays(r)) =>
    \A s \in Run : Exists(s) => History(sess[s].tip, s) \cap rewound = {}

\* An exchange is orphaned when it was sent under one that its conversation
\* had lost by then: the backend gave it none of what came before.
Orphaned(r) ==
  branch[r] = {r} /\ InConversation(run[r].from, run[r].held)

\* A conversation goes on, or has gone on, from an exchange the backend deleted:
\* an older question's, which a rewind has brought it back to, or the newest of
\* a closed conversation, which no deletion rewinds (conversation.go:783-793).
Severed(s) ==
  \/ sess[s].tip \in removed
  \/ \E r \in Run : run[r].held = s /\ Orphaned(r)

\* Every exchange on record in a conversation is part of the history its next
\* turn is given: what the room shows is what the model knows.  A conversation
\* that was severed has lost what it had; an edit forks the history on purpose,
\* a retry may have moved to a new conversation, and a crash comes between the
\* backend, the rewind or the advance and the row.
HistoryKept ==
  Settled /\ crashes = 0 /\ (\A r \in Run : run[r].edits \in {0, run[r].q}) =>
    \A q \in Run :
      /\ HasRow(q) /\ Exists(row[q].sess)
      /\ run[row[q].answer].held = row[q].sess
      /\ ~Severed(row[q].sess)
      => row[q].answer \in History(sess[row[q].sess].tip, row[q].sess)

=============================================================================
