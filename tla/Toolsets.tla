------------------------------ MODULE Toolsets ------------------------------
(***************************************************************************)
(* A switchable toolset of one conversation slot: internal/service/        *)
(* toolsets.go with the commands that switch it, the part of handleTurn    *)
(* that resolves it, /purge, and its row in table kv.                      *)
(*                                                                         *)
(* Toolsets have a row, a timer and a configuration of their own and never *)
(* read each other's, so one of them is modelled.  Every call to the store *)
(* is a step; turns, commands and timer callbacks run side by side.  Time  *)
(* passes a whole idle period at a time: what was written or armed before  *)
(* is then old or due.  What the room is told of it is left out.           *)
(***************************************************************************)
EXTENDS Naturals

CONSTANTS
  T,          \* turns (bound)
  C,          \* commands (bound)
  Overlap,    \* may one start while another is under way, once (bound)
  Commands,   \* kinds of commands the owner types
  Defaults,   \* values its `default` and
  Idles,      \* its having an `idle` may be configured with
  Restarts,   \* restarts of the process (bound)
  Faults      \* writes that may fail: "set", "expire"

ASSUME ToolsetsAssumption ==
  /\ T \in Nat \ {0} /\ C \in Nat \ {0} /\ Overlap \in BOOLEAN /\ Restarts \in Nat
  /\ Commands \subseteq {"new", "new+", "+", "-", "off", "toggle", "list", "purge"}
  /\ Defaults \subseteq BOOLEAN /\ Idles \subseteq BOOLEAN

Turn == 1 .. T
Command == 1 .. C
Timer == 1 .. T + C         \* named by the turn or the command that arms it
Session == 0 .. T           \* a session is named by the turn that starts it
NextSession == 0            \* toolsetNextSession

\* <session|next>:<on|off>:<enabled ms>; old: that was an idle period ago.
Row == [session : Session, state : {"none", "on", "off"}, old : BOOLEAN]
NoRow == [session |-> 0, state |-> "none", old |-> FALSE]

TurnRec == [pc : {"idle", "open", "adopt", "adopting", "status",
                  "dropping", "touch", "touching", "arming", "done"},
            session : Session, on : BOOLEAN, read : Row]
IdleTurn == [pc |-> "idle", session |-> 0, on |-> FALSE, read |-> NoRow]
DoneTurn == [IdleTurn EXCEPT !.pc = "done"]

CmdRec == [pc : {"idle", "close", "status", "dropping", "set",
                 "arming", "delete", "stop", "done"},
           kind : Commands \cup {"none"}, session : Session, on : BOOLEAN]
IdleCmd == [pc |-> "idle", kind |-> "none", session |-> 0, on |-> FALSE]
DoneCmd == [IdleCmd EXCEPT !.pc = "done"]

VARIABLES
  toolset,   \* config.Toolset: on by default, has an idle timeout
  row,       \* the row of table kv
  live,      \* the live session of the slot, or 0
  turn,      \* the locals of handleTurn
  cmd,       \* the locals of handleCommand
  timer,     \* what became of a time.AfterFunc
  slot,      \* Service.toolsetTimers for this toolset, or 0
  restarts,  \* restarts so far
  switched,  \* per session: did the owner switch it there?  "maybe" when a
             \* countdown has run out since, or was just being acted on
  lapsed,    \* an idle period has passed since it was switched on or used
  crossed    \* turns or commands were under way at once, or cut short

table == <<row, live>>
history == <<switched, lapsed, crossed>>
vars == <<toolset, row, live, turn, cmd, timer, slot, restarts, history>>

TurnBusy(t) == turn[t].pc \notin {"idle", "done"}
CmdBusy(c) == cmd[c].pc \notin {"idle", "done"}
Busy == (\E t \in Turn : TurnBusy(t)) \/ (\E c \in Command : CmdBusy(c))
Room == Busy => Overlap /\ ~crossed

\* One step of a handler; it forgets its locals when it is done.
Step(t, from, to) ==
  /\ turn[t].pc = from
  /\ turn' = [turn EXCEPT ![t] = IF to = "done" THEN DoneTurn ELSE [turn[t] EXCEPT !.pc = to]]

CmdStep(c, from, to) ==
  /\ cmd[c].pc = from
  /\ cmd' = [cmd EXCEPT ![c] = IF to = "done" THEN DoneCmd ELSE [cmd[c] EXCEPT !.pc = to]]

-----------------------------------------------------------------------------
(* The row.                                                                *)

\* Mutant: The session in the row is not compared.
OfEndedSessionNever(s) == FALSE

\* What toolsetStatuses makes of the row for a session.
OfEndedSession(s) == row.session \notin {NextSession, s}

Expired == row.state = "on" /\ toolset.idle /\ row.old
Drops(s) == row.state # "none" /\ (OfEndedSession(s) \/ Expired)
StatusOn(s) ==
  IF row.state = "none" \/ Drops(s) THEN toolset.default ELSE row.state = "on"

\* setToolset: back to the configured state is no row.
SetRow(s, on) ==
  IF on = toolset.default
  THEN NoRow
  ELSE [session |-> s, state |-> IF on THEN "on" ELSE "off", old |-> FALSE]

\* armToolsetTimer.  Stop does nothing for a timer that has fired.
Stopped ==
  IF slot # 0 /\ timer[slot] \in {"armed", "due"}
  THEN [timer EXCEPT ![slot] = "none"]
  ELSE timer

ArmTimer(k, on) ==
  IF on /\ toolset.idle
  THEN /\ timer' = [Stopped EXCEPT ![k] = "armed"]
       /\ slot' = k
  ELSE /\ timer' = Stopped
       /\ slot' = 0

\* A callback is under way, which takes any row that is on for an idle one.
Expiring == \E k \in Timer : timer[k] \in {"fired", "reading", "writing"}
CountdownOver ==
  [s \in Session |-> IF switched[s] = "yes" THEN "maybe" ELSE switched[s]]

-----------------------------------------------------------------------------
(* A turn.                                                                 *)

\* A message starts a turn, which begins with what sessionFor reads.
OnMessage(t) ==
  /\ turn[t].pc = "idle" /\ Room
  /\ \A u \in Turn : u < t => turn[u].pc # "idle"
  /\ crossed' = (crossed \/ Busy)
  /\ UNCHANGED <<toolset, row, cmd, timer, slot, restarts, switched, lapsed>>

\* sessionFor: go on with the live session, or close it when it has gone
\* idle, is at its ceiling or is another agent's.
ContinueSession(t) ==
  /\ OnMessage(t) /\ live # 0
  /\ turn' = [turn EXCEPT ![t].pc = "adopt", ![t].session = live]
  /\ UNCHANGED live

RotateSession(t) ==
  /\ OnMessage(t)
  /\ turn' = [turn EXCEPT ![t].pc = "open"]
  /\ live' = 0

\* CreateSession, which the index on live sessions refuses for a second one.
OpenSession(t) ==
  /\ turn[t].pc = "open" /\ live = 0
  /\ live' = t
  /\ turn' = [turn EXCEPT ![t].pc = "adopt", ![t].session = t]
  /\ switched' = [switched EXCEPT ![t] = switched[NextSession],
                                  ![NextSession] = "no"]
  /\ UNCHANGED <<toolset, row, cmd, timer, slot, restarts, lapsed, crossed>>

OpenRefused(t) ==
  /\ live # 0 /\ Step(t, "open", "done")
  /\ UNCHANGED <<toolset, table, cmd, timer, slot, restarts, history>>

\* adoptToolsets: a row that waits for the next session.
AdoptRead(t) ==
  /\ turn[t].pc = "adopt"
  /\ IF row.state # "none" /\ row.session = NextSession
     THEN turn' = [turn EXCEPT ![t].pc = "adopting", ![t].read = row]
     ELSE turn' = [turn EXCEPT ![t].pc = "status"]
  /\ UNCHANGED <<toolset, table, cmd, timer, slot, restarts, history>>

\* Mutant: Adopting a row writes the time of the adoption.
AdoptWriteNow(t) ==
  /\ turn[t].pc = "adopting"
  /\ turn' = [turn EXCEPT ![t].pc = "status", ![t].read = NoRow]
  /\ row' = [turn[t].read EXCEPT !.session = turn[t].session, !.old = FALSE]
  /\ UNCHANGED <<toolset, live, cmd, timer, slot, restarts, history>>

AdoptWrite(t) ==
  /\ turn[t].pc = "adopting"
  /\ turn' = [turn EXCEPT ![t].pc = "status", ![t].read = NoRow]
  /\ row' = [turn[t].read EXCEPT !.session = turn[t].session]
  /\ UNCHANGED <<toolset, live, cmd, timer, slot, restarts, history>>

\* activeTools: what the turn runs with.
ResolveStatus(t) ==
  /\ turn[t].pc = "status"
  /\ turn' = [turn EXCEPT ![t].pc = IF Drops(turn[t].session)
                                    THEN "dropping" ELSE "touch",
                          ![t].on = StatusOn(turn[t].session)]
  /\ UNCHANGED <<toolset, table, cmd, timer, slot, restarts, history>>

DropRow(t) ==
  /\ Step(t, "dropping", "touch")
  /\ row' = NoRow
  /\ UNCHANGED <<toolset, live, cmd, timer, slot, restarts, history>>

\* touchToolsets: whatever row is on is written again, for this session.
TouchRead(t) ==
  /\ Step(t, "touch", IF toolset.idle /\ row.state = "on" THEN "touching" ELSE "done")
  /\ UNCHANGED <<toolset, table, cmd, timer, slot, restarts, history>>

TouchWrite(t) ==
  /\ Step(t, "touching", "arming")
  /\ row' = [session |-> turn[t].session, state |-> "on", old |-> FALSE]
  /\ lapsed' = FALSE
  /\ UNCHANGED <<toolset, live, cmd, timer, slot, restarts, switched, crossed>>

\* Mutant: A touch renews the row and stops the countdown without a new one.
TouchArmStops(t) ==
  /\ Step(t, "arming", "done")
  /\ ArmTimer(t, FALSE)
  /\ UNCHANGED <<toolset, table, cmd, restarts, history>>

TouchArm(t) ==
  /\ Step(t, "arming", "done")
  /\ ArmTimer(t, TRUE)
  /\ UNCHANGED <<toolset, table, cmd, restarts, history>>

-----------------------------------------------------------------------------
(* Commands.                                                               *)

\* A command begins with the live session it reads.
OnCommand(c) ==
  /\ cmd[c].pc = "idle" /\ Room
  /\ \A d \in Command : d < c => cmd[d].pc # "idle"
  /\ crossed' = (crossed \/ Busy)
  /\ UNCHANGED <<toolset, row, turn, timer, slot, restarts, switched, lapsed>>

Looked(c, kind, to) ==
  cmd' = [cmd EXCEPT ![c] = IF to = "done" THEN DoneCmd
                            ELSE [pc |-> to, kind |-> kind, session |-> live, on |-> FALSE]]

\* commandNew: the rows of the named toolsets wait for the next session.
NewCommand(c, kind) ==
  /\ kind \in {"new", "new+"}
  /\ OnCommand(c) /\ Looked(c, kind, "close")
  /\ UNCHANGED live

NewCloses(c) ==
  /\ cmd[c].pc = "close"
  /\ cmd' = [cmd EXCEPT ![c] = IF cmd[c].kind = "new" THEN DoneCmd
                               ELSE [cmd[c] EXCEPT !.pc = "set", !.session = NextSession,
                                                 !.on = TRUE]]
  /\ live' = IF live = cmd[c].session THEN 0 ELSE live
  /\ UNCHANGED <<toolset, row, turn, timer, slot, restarts, history>>

\* commandTools: the session it is about; `off` skips what is on by default.
ToolsCommand(c, kind) ==
  /\ kind \in {"+", "-", "off", "toggle", "list"}
  /\ OnCommand(c)
  /\ Looked(c, kind, IF kind # "off" THEN "status" ELSE IF toolset.default THEN "done" ELSE "set")
  /\ UNCHANGED live

ToolsStatus(c) ==
  /\ cmd[c].pc = "status"
  /\ LET s == cmd[c].session IN
     cmd' = [cmd EXCEPT ![c] =
               IF cmd[c].kind = "list" /\ ~Drops(s) THEN DoneCmd
               ELSE [cmd[c] EXCEPT !.pc = IF Drops(s) THEN "dropping" ELSE "set",
                                   !.on = CASE cmd[c].kind = "+" -> TRUE
                                            [] cmd[c].kind = "-" -> FALSE
                                            [] OTHER -> ~StatusOn(s)]]
  /\ UNCHANGED <<toolset, table, turn, timer, slot, restarts, history>>

ToolsDrops(c) ==
  /\ CmdStep(c, "dropping", IF cmd[c].kind = "list" THEN "done" ELSE "set")
  /\ row' = NoRow
  /\ UNCHANGED <<toolset, live, turn, timer, slot, restarts, history>>

\* setToolset: the row, then the timer.
SetToolset(c) ==
  /\ CmdStep(c, "set", "arming")
  /\ row' = SetRow(cmd[c].session, cmd[c].on)
  /\ switched' = [switched EXCEPT ![cmd[c].session] =
                    IF cmd[c].on = toolset.default THEN "no"
                    ELSE IF Expiring THEN "maybe" ELSE "yes"]
  /\ lapsed' = (lapsed /\ ~cmd[c].on)
  /\ UNCHANGED <<toolset, live, turn, timer, slot, restarts, crossed>>

SetFails(c) ==
  /\ "set" \in Faults /\ CmdStep(c, "set", "done")
  /\ UNCHANGED <<toolset, table, turn, timer, slot, restarts, history>>

SetArms(c) ==
  /\ CmdStep(c, "arming", "done")
  /\ ArmTimer(T + c, cmd[c].on)
  /\ UNCHANGED <<toolset, table, turn, restarts, history>>

\* /purge, refused while a turn is running: the sessions, the row, the timer.
Purge(c, kind) ==
  /\ kind = "purge"
  /\ OnCommand(c)
  /\ IF \E t \in Turn : TurnBusy(t)
     THEN Looked(c, kind, "done") /\ UNCHANGED live
     ELSE Looked(c, kind, "delete") /\ live' = 0

PurgeDeletes(c) ==
  /\ CmdStep(c, "delete", "stop")
  /\ row' = NoRow
  /\ switched' = [s \in Session |-> "no"]
  /\ UNCHANGED <<toolset, live, turn, timer, slot, restarts, lapsed, crossed>>

PurgeStops(c) ==
  /\ CmdStep(c, "stop", "done")
  /\ timer' = Stopped /\ slot' = 0
  /\ UNCHANGED <<toolset, table, turn, restarts, history>>

-----------------------------------------------------------------------------
(* Time, the timers and restarts.                                          *)

Aged(r) == [r EXCEPT !.old = (r.state # "none")]

IdlePasses ==
  /\ toolset.idle
  /\ row' = Aged(row)
  /\ turn' = [t \in Turn |-> [turn[t] EXCEPT !.read = Aged(turn[t].read)]]
  /\ timer' = [k \in Timer |-> IF timer[k] = "armed" THEN "due" ELSE timer[k]]
  /\ lapsed' = TRUE
  /\ switched' = CountdownOver
  /\ UNCHANGED <<toolset, live, cmd, slot, restarts, crossed>>

TimerStep(k, from, to) ==
  /\ timer[k] = from
  /\ timer' = [timer EXCEPT ![k] = to]

Fire(k) ==
  /\ TimerStep(k, "due", "fired")
  /\ switched' = CountdownOver
  /\ UNCHANGED <<toolset, table, turn, cmd, slot, restarts, lapsed, crossed>>

\* expireToolset removes the entry of the map whichever timer it holds.
ExpireForget(k) ==
  /\ TimerStep(k, "fired", "reading")
  /\ slot' = 0
  /\ UNCHANGED <<toolset, table, turn, cmd, restarts, history>>

ExpireRead(k) ==
  /\ TimerStep(k, "reading", IF row.state = "on" THEN "writing" ELSE "none")
  /\ UNCHANGED <<toolset, table, turn, cmd, slot, restarts, history>>

ExpireWrite(k) ==
  /\ TimerStep(k, "writing", "none")
  /\ row' = NoRow
  /\ UNCHANGED <<toolset, live, turn, cmd, slot, restarts, history>>

ExpireFails(k) ==
  /\ "expire" \in Faults /\ TimerStep(k, "writing", "failed")
  /\ UNCHANGED <<toolset, table, turn, cmd, slot, restarts, history>>

\* The timers and whatever was under way are gone; the tables stay.
Restart ==
  /\ restarts < Restarts
  /\ restarts' = restarts + 1
  /\ turn' = [t \in Turn |-> IF TurnBusy(t) THEN DoneTurn ELSE turn[t]]
  /\ cmd' = [c \in Command |-> IF CmdBusy(c) THEN DoneCmd ELSE cmd[c]]
  /\ timer' = [k \in Timer |-> "none"]
  /\ slot' = 0
  /\ crossed' = (crossed \/ Busy)
  /\ UNCHANGED <<toolset, table, switched, lapsed>>

-----------------------------------------------------------------------------

Init ==
  /\ toolset \in [default : Defaults, idle : Idles]
  /\ row = NoRow /\ live = 0
  /\ turn = [t \in Turn |-> IdleTurn]
  /\ cmd = [c \in Command |-> IdleCmd]
  /\ timer = [k \in Timer |-> "none"] /\ slot = 0
  /\ restarts = 0
  /\ switched = [s \in Session |-> "no"] /\ lapsed = TRUE /\ crossed = FALSE

TurnStep(t) ==
  \/ OpenSession(t) \/ OpenRefused(t)
  \/ AdoptRead(t) \/ AdoptWrite(t) \/ ResolveStatus(t) \/ DropRow(t)
  \/ TouchRead(t) \/ TouchWrite(t) \/ TouchArm(t)

CommandStep(c) ==
  \/ NewCloses(c) \/ ToolsStatus(c)
  \/ ToolsDrops(c) \/ SetToolset(c) \/ SetFails(c) \/ SetArms(c)
  \/ PurgeDeletes(c) \/ PurgeStops(c)

CallbackStep(k) ==
  Fire(k) \/ ExpireForget(k) \/ ExpireRead(k) \/ ExpireWrite(k) \/ ExpireFails(k)

Next ==
  \/ \E t \in Turn : ContinueSession(t) \/ RotateSession(t) \/ TurnStep(t)
  \/ \E c \in Command, kind \in Commands :
       NewCommand(c, kind) \/ ToolsCommand(c, kind) \/ Purge(c, kind)
  \/ \E c \in Command : CommandStep(c)
  \/ \E k \in Timer : CallbackStep(k)
  \/ IdlePasses \/ Restart

\* The owner owes nobody a message; goroutines run, timers run out.
Fairness ==
  /\ \A t \in Turn : WF_vars(TurnStep(t))
  /\ \A c \in Command : WF_vars(CommandStep(c))
  /\ \A k \in Timer : WF_vars(CallbackStep(k))
  /\ WF_vars(IdlePasses)

Spec == Init /\ [][Next]_vars /\ Fairness

-----------------------------------------------------------------------------
(* Properties.                                                             *)

\* Every variable keeps its type, and the timer in the map, the one that
\* switching off and /purge can stop, has yet to run its callback.
TypeOK ==
  /\ toolset \in [default : Defaults, idle : Idles]
  /\ row \in Row /\ live \in Session
  /\ turn \in [Turn -> TurnRec]
  /\ cmd \in [Command -> CmdRec]
  /\ timer \in [Timer -> {"none", "armed", "due", "fired", "reading",
                          "writing", "failed"}]
  /\ slot \in {0} \cup Timer
  /\ slot # 0 => timer[slot] \in {"armed", "due", "fired"}
  /\ restarts \in 0 .. Restarts
  /\ switched \in [Session -> {"no", "yes", "maybe"}]
  /\ lapsed \in BOOLEAN /\ crossed \in BOOLEAN

\* A turn runs with what the owner switched in its own conversation, or for
\* the next one before it began, unless a countdown has run out since; what
\* was switched in another conversation counts for nothing, whatever timers,
\* restarts and rotations come in between (toolsetStatuses, adoptToolsets).
\* It holds as long as no turns or commands have been under way at once.
OwnSwitchOnly ==
  [][\A t \in Turn : ResolveStatus(t) /\ ~crossed =>
       LET mine == switched[turn[t].session] IN
       /\ (turn'[t].on # toolset.default) => mine # "no"
       /\ (mine = "yes") => turn'[t].on # toolset.default]_vars

\* No turn runs with a toolset that has been idle for its timeout, also when
\* the timer was lost in a restart or is late, and whoever else is under way.
IdleIsOff ==
  [][\A t \in Turn : ResolveStatus(t) /\ toolset.idle /\ ~toolset.default /\ turn'[t].on
       => ~lapsed]_vars

\* A toolset that is on goes off by itself, unless a restart has lost the
\* timer, the write has failed or two turns or commands were crossed.
SwitchesOff ==
  (toolset.idle /\ row.state = "on")
    ~> \/ row.state # "on" \/ crossed \/ restarts > 0
       \/ \E k \in Timer : timer[k] = "failed"

=============================================================================
