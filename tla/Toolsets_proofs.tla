--------------------------- MODULE Toolsets_proofs ---------------------------
(***************************************************************************)
(* What holds of Toolsets for any number of turns, commands, timers and    *)
(* restarts, however they overlap: the types with the map of timers, that  *)
(* no turn runs with a toolset that has been idle for its timeout; and     *)
(* that a turn runs with its own switches, until turns or commands overlap.*)
(***************************************************************************)
EXTENDS Toolsets, TLAPS

\* A row that is on and young was switched on or used within the idle period;
\* so was one that a turn is about to write back.
Young(r) == r.state = "on" /\ ~r.old => ~lapsed

Fresh == Young(row) /\ \A t \in Turn : Young(turn[t].read)

\* Session is about numbers; the rest of the proof need not know.
LEMMA Sessions == 0 \in Session /\ Turn \subseteq Session
BY ToolsetsAssumption DEF Session, Turn

LEMMA Timers ==
  /\ 0 \notin Timer /\ Turn \subseteq Timer
  /\ \A c \in Command : T + c \in Timer
BY ToolsetsAssumption DEF Turn, Timer, Command

LEMMA NoRowIsRow == NoRow \in Row /\ NoRow.state = "none"
BY Sessions DEF NoRow, Row

LEMMA TypeInit == Init => TypeOK /\ Fresh
<1> SUFFICES ASSUME Init PROVE TypeOK /\ Fresh
  OBVIOUS
<1>1. turn \in [Turn -> TurnRec] /\ \A t \in Turn : turn[t].read = NoRow
  BY Sessions, NoRowIsRow DEF Init, IdleTurn, TurnRec
<1>2. cmd \in [Command -> CmdRec]
  BY Sessions DEF Init, IdleCmd, CmdRec
<1>3. restarts \in 0 .. Restarts
  BY ToolsetsAssumption DEF Init
<1>4. TypeOK
  BY <1>1, <1>2, <1>3, Sessions, NoRowIsRow DEF Init, TypeOK
<1>5. Fresh
  BY <1>1, NoRowIsRow DEF Init, Fresh, Young
<1> QED BY <1>4, <1>5

\* Arming a timer for whatever reason keeps the map and the timers in order.
LEMMA Arming ==
  ASSUME TypeOK, NEW k \in Timer, NEW on, ArmTimer(k, on)
  PROVE  /\ timer' \in [Timer -> {"none", "armed", "due", "fired", "reading",
                                  "writing", "failed"}]
         /\ slot' \in {0} \cup Timer
         /\ slot' # 0 => timer'[slot'] \in {"armed", "due", "fired"}
BY Timers DEF ArmTimer, Stopped, TypeOK

\* One step of a turn or of a command keeps the records what they are.
LEMMA Stepping ==
  ASSUME TypeOK, NEW t \in Turn, NEW from,
         NEW to \in {"status", "touch", "touching", "arming", "done"},
         Step(t, from, to)
  PROVE  /\ turn' \in [Turn -> TurnRec]
         /\ \A u \in Turn : turn'[u].read = turn[u].read \/ turn'[u].read = NoRow
<1>1. DoneTurn \in TurnRec /\ DoneTurn.read = NoRow
  BY Sessions DEF DoneTurn, IdleTurn, TurnRec, Row, NoRow
<1>2. [turn[t] EXCEPT !.pc = to] \in TurnRec
      /\ [turn[t] EXCEPT !.pc = to].read = turn[t].read
  BY DEF TurnRec, TypeOK
<1> QED BY <1>1, <1>2 DEF Step, TypeOK

LEMMA CmdStepping ==
  ASSUME TypeOK, NEW c \in Command, NEW from,
         NEW to \in {"set", "arming", "stop", "done"},
         CmdStep(c, from, to)
  PROVE  cmd' \in [Command -> CmdRec]
<1>1. DoneCmd \in CmdRec
  BY Sessions DEF DoneCmd, IdleCmd, CmdRec
<1>2. [cmd[c] EXCEPT !.pc = to] \in CmdRec
  BY DEF CmdRec, TypeOK
<1> QED BY <1>1, <1>2 DEF CmdStep, TypeOK

LEMMA Looking ==
  ASSUME TypeOK, NEW c \in Command, NEW kind \in Commands,
         NEW to \in {"close", "status", "set", "delete", "done"},
         Looked(c, kind, to)
  PROVE  cmd' \in [Command -> CmdRec]
<1>1. DoneCmd \in CmdRec
  BY Sessions DEF DoneCmd, IdleCmd, CmdRec
<1>2. [pc |-> to, kind |-> kind, session |-> live, on |-> FALSE] \in CmdRec
  BY DEF CmdRec, TypeOK
<1> QED BY <1>1, <1>2 DEF Looked, TypeOK

\* The actions that leave the rows alone.
LEMMA TurnsKeep ==
  ASSUME TypeOK, Fresh, row' = row, lapsed' = lapsed,
         \A t \in Turn : turn'[t].read = turn[t].read \/ turn'[t].read = NoRow
                        \/ turn'[t].read = row
  PROVE  Fresh'
BY NoRowIsRow DEF Fresh, Young

LEMMA TurnActions ==
  ASSUME TypeOK, Fresh, NEW t \in Turn,
         ContinueSession(t) \/ RotateSession(t) \/ TurnStep(t)
  PROVE  TypeOK' /\ Fresh'
<1> USE Sessions, NoRowIsRow
<1>1. CASE ContinueSession(t)
  <2>1. [turn[t] EXCEPT !.pc = "adopt", !.session = live] \in TurnRec
        /\ [turn[t] EXCEPT !.pc = "adopt", !.session = live].read = turn[t].read
    BY DEF TypeOK, TurnRec
  <2>2. turn' = [turn EXCEPT ![t] = [turn[t] EXCEPT !.pc = "adopt", !.session = live]]
    BY <1>1 DEF ContinueSession
  <2>3. turn' \in [Turn -> TurnRec] /\ \A u \in Turn : turn'[u].read = turn[u].read
    BY <2>1, <2>2 DEF TypeOK
  <2> QED BY <1>1, <2>3, TurnsKeep DEF ContinueSession, OnMessage, TypeOK
<1>2. CASE RotateSession(t)
  <2>1. [turn[t] EXCEPT !.pc = "open"] \in TurnRec
        /\ [turn[t] EXCEPT !.pc = "open"].read = turn[t].read
    BY DEF TypeOK, TurnRec
  <2>2. turn' \in [Turn -> TurnRec] /\ \A u \in Turn : turn'[u].read = turn[u].read
    BY <2>1, <1>2 DEF RotateSession, TypeOK
  <2> QED BY <1>2, <2>2, TurnsKeep DEF RotateSession, OnMessage, TypeOK
<1>3. CASE OpenSession(t)
  <2>1. [turn[t] EXCEPT !.pc = "adopt", !.session = t] \in TurnRec
        /\ [turn[t] EXCEPT !.pc = "adopt", !.session = t].read = turn[t].read
    BY DEF TypeOK, TurnRec
  <2>2. turn' = [turn EXCEPT ![t] = [turn[t] EXCEPT !.pc = "adopt", !.session = t]]
    BY <1>3 DEF OpenSession
  <2>3. turn' \in [Turn -> TurnRec] /\ \A u \in Turn : turn'[u].read = turn[u].read
    BY <2>1, <2>2 DEF TypeOK
  <2>4. switched' \in [Session -> {"no", "yes", "maybe"}]
    BY <1>3 DEF OpenSession, TypeOK, NextSession
  <2> QED BY <1>3, <2>3, <2>4, TurnsKeep DEF OpenSession, TypeOK
<1>4. CASE OpenRefused(t)
  BY <1>4, Stepping, TurnsKeep DEF OpenRefused, TypeOK, table, history
<1>5. CASE AdoptRead(t)
  <2>1. /\ [turn[t] EXCEPT !.pc = "adopting", !.read = row] \in TurnRec
        /\ [turn[t] EXCEPT !.pc = "adopting", !.read = row].read = row
        /\ [turn[t] EXCEPT !.pc = "status"] \in TurnRec
        /\ [turn[t] EXCEPT !.pc = "status"].read = turn[t].read
    BY DEF TypeOK, TurnRec
  <2>2. \/ turn' = [turn EXCEPT ![t] = [turn[t] EXCEPT !.pc = "adopting", !.read = row]]
        \/ turn' = [turn EXCEPT ![t] = [turn[t] EXCEPT !.pc = "status"]]
    BY <1>5 DEF AdoptRead
  <2>3. turn' \in [Turn -> TurnRec]
        /\ \A u \in Turn : turn'[u].read = turn[u].read \/ turn'[u].read = row
    BY <2>1, <2>2 DEF TypeOK
  <2> QED BY <1>5, <2>3, TurnsKeep DEF AdoptRead, TypeOK, table, history
<1>6. CASE AdoptWrite(t)
  <2>1. [turn[t] EXCEPT !.pc = "status", !.read = NoRow] \in TurnRec
        /\ [turn[t] EXCEPT !.pc = "status", !.read = NoRow].read = NoRow
    BY DEF TypeOK, TurnRec
  <2>2. turn' = [turn EXCEPT ![t] = [turn[t] EXCEPT !.pc = "status", !.read = NoRow]]
    BY <1>6 DEF AdoptWrite
  <2>3. turn' \in [Turn -> TurnRec]
        /\ \A u \in Turn : turn'[u].read = turn[u].read \/ turn'[u].read = NoRow
    BY <2>1, <2>2 DEF TypeOK
  <2>4. /\ row' \in Row
        /\ row'.state = turn[t].read.state /\ row'.old = turn[t].read.old
    BY <1>6 DEF AdoptWrite, TypeOK, TurnRec, Row
  <2>5. Fresh'
    BY <1>6, <2>3, <2>4 DEF AdoptWrite, Fresh, Young, history
  <2> QED BY <1>6, <2>3, <2>4, <2>5 DEF AdoptWrite, TypeOK, history
<1>7. CASE ResolveStatus(t)
  <2> DEFINE pc == IF Drops(turn[t].session) THEN "dropping" ELSE "touch"
             on == StatusOn(turn[t].session)
  <2>1. on \in BOOLEAN
    BY ToolsetsAssumption DEF StatusOn, TypeOK
  <2>2. [turn[t] EXCEPT !.pc = pc, !.on = on] \in TurnRec
        /\ [turn[t] EXCEPT !.pc = pc, !.on = on].read = turn[t].read
    BY <2>1 DEF TypeOK, TurnRec
  <2>3. turn' = [turn EXCEPT ![t] = [turn[t] EXCEPT !.pc = pc, !.on = on]]
    BY <1>7 DEF ResolveStatus
  <2>4. turn' \in [Turn -> TurnRec] /\ \A u \in Turn : turn'[u].read = turn[u].read
    BY <2>2, <2>3 DEF TypeOK
  <2> QED BY <1>7, <2>4, TurnsKeep DEF ResolveStatus, TypeOK, table, history
<1>8. CASE DropRow(t)
  <2>1. turn' \in [Turn -> TurnRec]
        /\ \A u \in Turn : turn'[u].read = turn[u].read \/ turn'[u].read = NoRow
    BY <1>8, Stepping DEF DropRow
  <2>2. Fresh'
    BY <1>8, <2>1 DEF DropRow, Fresh, Young, history
  <2> QED BY <1>8, <2>1, <2>2 DEF DropRow, TypeOK, history
<1>9. CASE TouchRead(t)
  BY <1>9, Stepping, TurnsKeep DEF TouchRead, TypeOK, table, history
<1>10. CASE TouchWrite(t)
  <2>1. turn' \in [Turn -> TurnRec]
    BY <1>10, Stepping DEF TouchWrite
  <2>2. row' \in Row
    BY <1>10 DEF TouchWrite, TypeOK, TurnRec, Row
  <2> QED BY <1>10, <2>1, <2>2 DEF TouchWrite, TypeOK, Fresh, Young
<1>11. CASE TouchArm(t)
  <2>1. t \in Timer
    BY Timers
  <2>2. turn' \in [Turn -> TurnRec]
        /\ \A u \in Turn : turn'[u].read = turn[u].read \/ turn'[u].read = NoRow
    BY <1>11, Stepping DEF TouchArm
  <2> QED BY <1>11, <2>1, <2>2, Arming, TurnsKeep DEF TouchArm, TypeOK, table, history
<1> QED BY <1>1, <1>2, <1>3, <1>4, <1>5, <1>6, <1>7, <1>8, <1>9, <1>10, <1>11 DEF TurnStep

LEMMA CommandStarts ==
  ASSUME TypeOK, Fresh, NEW c \in Command, NEW kind \in Commands,
         NewCommand(c, kind) \/ ToolsCommand(c, kind) \/ Purge(c, kind)
  PROVE  TypeOK' /\ Fresh'
<1> USE Sessions, NoRowIsRow
<1>1. CASE NewCommand(c, kind)
  BY <1>1, Looking, TurnsKeep DEF NewCommand, OnCommand, TypeOK
<1>2. CASE ToolsCommand(c, kind)
  BY <1>2, Looking, TurnsKeep DEF ToolsCommand, OnCommand, TypeOK
<1>3. CASE Purge(c, kind)
  BY <1>3, Looking, TurnsKeep DEF Purge, OnCommand, TypeOK
<1> QED BY <1>1, <1>2, <1>3

LEMMA CommandActions ==
  ASSUME TypeOK, Fresh, NEW c \in Command, CommandStep(c)
  PROVE  TypeOK' /\ Fresh'
<1> USE Sessions, NoRowIsRow
<1>1. CASE NewCloses(c)
  <2>1. DoneCmd \in CmdRec
        /\ [cmd[c] EXCEPT !.pc = "set", !.session = NextSession, !.on = TRUE] \in CmdRec
    BY DEF TypeOK, CmdRec, DoneCmd, IdleCmd, NextSession
  <2>2. cmd' \in [Command -> CmdRec]
    BY <1>1, <2>1 DEF NewCloses, TypeOK
  <2> QED BY <1>1, <2>2, TurnsKeep DEF NewCloses, TypeOK, history
<1>2. CASE ToolsStatus(c)
  <2> DEFINE pc == IF Drops(cmd[c].session) THEN "dropping" ELSE "set"
             on == CASE cmd[c].kind = "+" -> TRUE
                     [] cmd[c].kind = "-" -> FALSE
                     [] OTHER -> ~StatusOn(cmd[c].session)
  <2>1. DoneCmd \in CmdRec /\ [cmd[c] EXCEPT !.pc = pc, !.on = on] \in CmdRec
    BY ZenonT(60) DEF TypeOK, CmdRec, DoneCmd, IdleCmd
  <2>2. cmd' \in [Command -> CmdRec]
    BY <1>2, <2>1 DEF ToolsStatus, TypeOK
  <2> QED BY <1>2, <2>2, TurnsKeep DEF ToolsStatus, TypeOK, table, history
<1>3. CASE ToolsDrops(c)
  <2>1. cmd' \in [Command -> CmdRec]
    BY <1>3, CmdStepping DEF ToolsDrops
  <2> QED BY <1>3, <2>1 DEF ToolsDrops, TypeOK, Fresh, Young, history
<1>4. CASE SetToolset(c)
  <2>1. cmd' \in [Command -> CmdRec]
    BY <1>4, CmdStepping DEF SetToolset
  <2>2. /\ cmd[c].session \in Session /\ cmd[c].on \in BOOLEAN
    BY DEF TypeOK, CmdRec
  <2>3. row' \in Row
    BY <1>4, <2>2 DEF SetToolset, SetRow, Row
  <2>4. switched' \in [Session -> {"no", "yes", "maybe"}]
    BY <1>4, <2>2 DEF SetToolset, TypeOK
  <2>5. lapsed' \in BOOLEAN /\ (lapsed' => lapsed /\ ~cmd[c].on)
    BY <1>4, <2>2 DEF SetToolset, TypeOK
  <2>6. row'.state = "on" => cmd[c].on
    BY <1>4, <2>2 DEF SetToolset, SetRow, NoRow
  <2>7. Fresh'
    BY <1>4, <2>5, <2>6 DEF SetToolset, Fresh, Young
  <2> QED BY <1>4, <2>1, <2>3, <2>4, <2>5, <2>7 DEF SetToolset, TypeOK
<1>5. CASE SetFails(c)
  BY <1>5, CmdStepping, TurnsKeep DEF SetFails, TypeOK, table, history
<1>6. CASE SetArms(c)
  <2>1. T + c \in Timer
    BY Timers
  <2>2. cmd' \in [Command -> CmdRec]
    BY <1>6, CmdStepping DEF SetArms
  <2> QED BY <1>6, <2>1, <2>2, Arming, TurnsKeep DEF SetArms, TypeOK, table, history
<1>7. CASE PurgeDeletes(c)
  <2>1. cmd' \in [Command -> CmdRec]
    BY <1>7, CmdStepping DEF PurgeDeletes
  <2> QED BY <1>7, <2>1 DEF PurgeDeletes, TypeOK, Fresh, Young
<1>8. CASE PurgeStops(c)
  <2>1. cmd' \in [Command -> CmdRec]
    BY <1>8, CmdStepping DEF PurgeStops
  <2>2. timer' \in [Timer -> {"none", "armed", "due", "fired", "reading",
                              "writing", "failed"}] /\ slot' = 0
    BY <1>8 DEF PurgeStops, Stopped, TypeOK
  <2> QED BY <1>8, <2>1, <2>2, TurnsKeep DEF PurgeStops, TypeOK, table, history
<1> QED BY <1>1, <1>2, <1>3, <1>4, <1>5, <1>6, <1>7, <1>8 DEF CommandStep

LEMMA TimerActions ==
  ASSUME TypeOK, Fresh, NEW k \in Timer, CallbackStep(k)
  PROVE  TypeOK' /\ Fresh'
<1> USE Timers, NoRowIsRow
<1>1. CASE Fire(k)
  BY <1>1, TurnsKeep DEF Fire, TimerStep, TypeOK, CountdownOver, table
<1>2. CASE ExpireForget(k)
  BY <1>2, TurnsKeep DEF ExpireForget, TimerStep, TypeOK, table, history
<1>3. CASE ExpireRead(k)
  BY <1>3, TurnsKeep DEF ExpireRead, TimerStep, TypeOK, table, history
<1>4. CASE ExpireWrite(k)
  BY <1>4 DEF ExpireWrite, TimerStep, TypeOK, Fresh, Young, history
<1>5. CASE ExpireFails(k)
  BY <1>5, TurnsKeep DEF ExpireFails, TimerStep, TypeOK, table, history
<1> QED BY <1>1, <1>2, <1>3, <1>4, <1>5 DEF CallbackStep

\* When an idle period has passed, no row is young.
LEMMA TimeKeeps ==
  ASSUME TypeOK, Fresh, IdlePasses
  PROVE  TypeOK' /\ Fresh'
<1>1. \A r \in Row : Aged(r) \in Row /\ (Aged(r).state = "on" => Aged(r).old)
  BY DEF Aged, Row
<1>2. \A t \in Turn : turn[t].read \in Row
  BY DEF TypeOK, TurnRec
<1>3. \A t \in Turn, r \in Row : /\ [turn[t] EXCEPT !.read = r] \in TurnRec
                               /\ [turn[t] EXCEPT !.read = r].read = r
  BY DEF TypeOK, TurnRec
<1>4. turn' \in [Turn -> TurnRec]
      /\ \A t \in Turn : turn'[t].read.state = "on" => turn'[t].read.old
  BY <1>1, <1>2, <1>3 DEF IdlePasses
<1>5. /\ timer' \in [Timer -> {"none", "armed", "due", "fired", "reading",
                               "writing", "failed"}]
      /\ slot' \in {0} \cup Timer
      /\ slot' # 0 => timer'[slot'] \in {"armed", "due", "fired"}
  BY DEF IdlePasses, TypeOK
<1>6. switched' \in [Session -> {"no", "yes", "maybe"}]
  BY DEF IdlePasses, CountdownOver, TypeOK
<1>7. row' \in Row /\ (row'.state = "on" => row'.old)
  BY <1>1 DEF IdlePasses, TypeOK
<1>8. Fresh'
  BY <1>4, <1>7 DEF Fresh, Young
<1> QED BY <1>4, <1>5, <1>6, <1>7, <1>8 DEF IdlePasses, TypeOK

LEMMA RestartKeeps ==
  ASSUME TypeOK, Fresh, Restart
  PROVE  TypeOK' /\ Fresh'
<1>1. DoneTurn \in TurnRec /\ DoneTurn.read = NoRow
  BY Sessions, NoRowIsRow DEF DoneTurn, IdleTurn, TurnRec
<1>2. turn' \in [Turn -> TurnRec]
      /\ \A t \in Turn : turn'[t].read = turn[t].read \/ turn'[t].read = NoRow
  BY <1>1 DEF Restart, TypeOK
<1>3. DoneCmd \in CmdRec
  BY Sessions DEF DoneCmd, IdleCmd, CmdRec
<1>4. cmd' \in [Command -> CmdRec]
  BY <1>3 DEF Restart, TypeOK
<1>5. restarts' \in 0 .. Restarts
  BY ToolsetsAssumption DEF Restart, TypeOK
<1>6. Fresh'
  BY <1>2, TurnsKeep DEF Restart, table
<1> QED BY <1>2, <1>4, <1>5, <1>6 DEF Restart, TypeOK, table, Busy

LEMMA Keeps == TypeOK /\ Fresh /\ [Next]_vars => TypeOK' /\ Fresh'
<1> SUFFICES ASSUME TypeOK, Fresh, [Next]_vars PROVE TypeOK' /\ Fresh'
  OBVIOUS
<1>1. CASE Next
  BY <1>1, TurnActions, CommandStarts, CommandActions, TimerActions, TimeKeeps, RestartKeeps DEF Next
<1>2. CASE UNCHANGED vars
  BY <1>2 DEF vars, table, history, TypeOK, Fresh, Young
<1> QED BY <1>1, <1>2

\* Every variable keeps its type, and the map never holds a timer whose
\* callback has begun its work, for any number of turns, commands and timers.
THEOREM TypeCorrect == Spec => []TypeOK
<1>1. Spec => [](TypeOK /\ Fresh)
  BY TypeInit, Keeps, PTL DEF Spec
<1> QED BY <1>1, PTL

\* However turns, commands, late timers and restarts overlap, no turn runs
\* with a toolset whose idle period has passed since it was switched on or
\* used.
THEOREM IdleIsAlwaysOff == Spec => IdleIsOff
<1> DEFINE A == \A t \in Turn : ResolveStatus(t) /\ toolset.idle /\ ~toolset.default /\ turn'[t].on
                 => ~lapsed
<1>1. TypeOK /\ Fresh /\ [Next]_vars => A
  <2> SUFFICES ASSUME Fresh, TypeOK, NEW t \in Turn, ResolveStatus(t),
                      toolset.idle, ~toolset.default, turn'[t].on
               PROVE  ~lapsed
    BY DEF A
  <2>1. StatusOn(turn[t].session)
    BY DEF ResolveStatus, TypeOK, TurnRec
  <2>2. row.state = "on" /\ ~row.old
    BY <2>1 DEF StatusOn, Drops, Expired, TypeOK, Row
  <2> QED BY <2>2 DEF Fresh, Young
<1> QED BY <1>1, TypeInit, Keeps, PTL DEF Spec, IdleIsOff, A
-----------------------------------------------------------------------------
(* What the owner switched.  Until turns or commands have overlapped, a    *)
(* row is there because of a switch in its session, or of one for the next *)
(* session that is still to be adopted; a switch that counts has its row;  *)
(* and whoever is between two steps has read what is still true.           *)

Alone ==
  /\ \A t, u \in Turn : TurnBusy(t) /\ TurnBusy(u) => t = u
  /\ \A c, d \in Command : CmdBusy(c) /\ CmdBusy(d) => c = d
  /\ \A t \in Turn, c \in Command : ~(TurnBusy(t) /\ CmdBusy(c))

\* The turn that names the session has opened it.
Began(s) == s = NextSession \/ turn[s].pc \notin {"idle", "open"}

Adopting == \E t \in Turn : turn[t].pc \in {"adopt", "adopting"}
Counts(r) == (r.state = "on") # toolset.default
Lapses(r) == r.state = "on" /\ toolset.idle /\ r.old

RowMeant == row.state # "none" =>
  /\ Counts(row) /\ Began(row.session)
  /\ \/ switched[row.session] # "no"
     \/ row.session = NextSession /\ switched[live] # "no" /\ Adopting

YesKept == switched[live] = "yes" =>
  /\ row.state # "none" /\ ~Lapses(row)
  /\ row.session = live \/ (row.session = NextSession /\ Adopting)

NextSpent == live # 0 => switched[NextSession] = "no"

TurnMeant(t) ==
  /\ turn[t].pc = "open" => live = 0
  /\ turn[t].pc \notin {"idle", "open", "done"} => live # 0 /\ turn[t].session = live
  /\ turn[t].pc = "adopting" =>
       /\ turn[t].read.state # "none" /\ Counts(turn[t].read)
       /\ switched[live] # "no"
       /\ switched[live] = "yes" => ~Lapses(turn[t].read)
  /\ turn[t].pc = "dropping" => switched[live] # "yes"
  /\ turn[t].pc = "touch" => row.state = "none" \/ row.session = live
  /\ turn[t].pc = "touching" => ~toolset.default /\ switched[live] # "no"

CmdMeant(c) ==
  /\ cmd[c].pc \in {"close", "status", "dropping", "set", "arming"} => cmd[c].session = live
  /\ cmd[c].pc = "dropping" => switched[live] # "yes"

\* A callback under way spares no row that is on.
CountsOut == Expiring => \A s \in Session : switched[s] # "yes"

Ordered ==
  /\ Alone /\ Began(live) /\ RowMeant /\ YesKept /\ NextSpent
  /\ \A t \in Turn : TurnMeant(t)
  /\ \A c \in Command : CmdMeant(c)

Meant == CountsOut /\ (~crossed => Ordered)

LEMMA Busying ==
  /\ \A t \in Turn : TurnBusy(t) <=> turn[t].pc \notin {"idle", "done"}
  /\ \A c \in Command : CmdBusy(c) <=> cmd[c].pc \notin {"idle", "done"}
BY DEF TurnBusy, CmdBusy

\* Only the one that has just taken a step has anything to answer for.
LEMMA AfterTurnStep ==
  ASSUME Alone, NEW t \in Turn, TurnBusy(t), cmd' = cmd,
         \A u \in Turn : u # t => turn'[u] = turn[u],
         TurnMeant(t)'
  PROVE  /\ Alone'
         /\ \A u \in Turn : TurnMeant(u)'
         /\ \A c \in Command : CmdMeant(c)'
         /\ Adopting <=> turn[t].pc \in {"adopt", "adopting"}
         /\ Adopting' <=> turn'[t].pc \in {"adopt", "adopting"}
<1>1. /\ \A u \in Turn : u # t => turn[u].pc \in {"idle", "done"}
      /\ \A c \in Command : cmd[c].pc \in {"idle", "done"}
  BY DEF Alone, TurnBusy, CmdBusy
<1>2. /\ \A u \in Turn : u # t => turn'[u].pc \in {"idle", "done"}
      /\ \A c \in Command : cmd'[c].pc \in {"idle", "done"}
  BY <1>1
<1>3. Alone'
  BY <1>2 DEF Alone, TurnBusy, CmdBusy
<1>4. \A u \in Turn : u # t => TurnMeant(u)'
  BY <1>2 DEF TurnMeant
<1>5. \A c \in Command : CmdMeant(c)'
  BY <1>2 DEF CmdMeant
<1> QED BY <1>1, <1>2, <1>3, <1>4, <1>5 DEF Adopting

LEMMA AfterCmdStep ==
  ASSUME Alone, NEW c \in Command, CmdBusy(c), turn' = turn,
         \A d \in Command : d # c => cmd'[d] = cmd[d],
         CmdMeant(c)'
  PROVE  /\ Alone'
         /\ \A t \in Turn : TurnMeant(t)'
         /\ \A d \in Command : CmdMeant(d)'
         /\ ~Adopting /\ ~Adopting'
<1>1. /\ \A d \in Command : d # c => cmd'[d].pc \in {"idle", "done"}
      /\ \A t \in Turn : turn[t].pc \in {"idle", "done"}
  BY DEF Alone, TurnBusy, CmdBusy
<1>2. Alone'
  BY <1>1 DEF Alone, TurnBusy, CmdBusy
<1>3. \A t \in Turn : TurnMeant(t)'
  BY <1>1 DEF TurnMeant
<1>4. \A d \in Command : d # c => CmdMeant(d)'
  BY <1>1 DEF CmdMeant
<1> QED BY <1>1, <1>2, <1>3, <1>4 DEF Adopting

\* A turn or a command that starts when nothing else is under way.
LEMMA AfterTurnStart ==
  ASSUME ~Busy, NEW t \in Turn, cmd' = cmd,
         \A u \in Turn : u # t => turn'[u] = turn[u],
         TurnMeant(t)'
  PROVE  /\ Alone'
         /\ \A u \in Turn : TurnMeant(u)'
         /\ \A c \in Command : CmdMeant(c)'
         /\ ~Adopting
         /\ Adopting' <=> turn'[t].pc \in {"adopt", "adopting"}
<1>1. /\ \A u \in Turn : turn[u].pc \in {"idle", "done"}
      /\ \A c \in Command : cmd[c].pc \in {"idle", "done"}
  BY DEF Busy, TurnBusy, CmdBusy
<1>2. Alone'
  BY <1>1 DEF Alone, TurnBusy, CmdBusy
<1>3. \A u \in Turn : u # t => TurnMeant(u)'
  BY <1>1 DEF TurnMeant
<1>4. \A c \in Command : CmdMeant(c)'
  BY <1>1 DEF CmdMeant
<1> QED BY <1>1, <1>2, <1>3, <1>4 DEF Adopting

LEMMA AfterCmdStart ==
  ASSUME ~Busy, NEW c \in Command, turn' = turn,
         \A d \in Command : d # c => cmd'[d] = cmd[d],
         CmdMeant(c)'
  PROVE  /\ Alone'
         /\ \A t \in Turn : TurnMeant(t)'
         /\ \A d \in Command : CmdMeant(d)'
         /\ ~Adopting /\ ~Adopting'
<1>1. /\ \A t \in Turn : turn[t].pc \in {"idle", "done"}
      /\ \A d \in Command : cmd[d].pc \in {"idle", "done"}
  BY DEF Busy, TurnBusy, CmdBusy
<1>2. Alone'
  BY <1>1 DEF Alone, TurnBusy, CmdBusy
<1>3. \A t \in Turn : TurnMeant(t)'
  BY <1>1 DEF TurnMeant
<1>4. \A d \in Command : d # c => CmdMeant(d)'
  BY <1>1 DEF CmdMeant
<1> QED BY <1>1, <1>2, <1>3, <1>4 DEF Adopting

\* The types the rest of the proof needs.
LEMMA MeantTypes ==
  ASSUME TypeOK
  PROVE  /\ row.session \in Session /\ row.state \in {"none", "on", "off"}
         /\ live \in Session /\ toolset.default \in BOOLEAN /\ toolset.idle \in BOOLEAN
         /\ \A t \in Turn : turn[t].session \in Session /\ turn[t].read \in Row
         /\ \A c \in Command : cmd[c].session \in Session /\ cmd[c].on \in BOOLEAN
         /\ \A s \in Session : switched[s] \in {"no", "yes", "maybe"}
BY ToolsetsAssumption DEF TypeOK, Row, TurnRec, CmdRec

\* A turn that has opened its session has opened it for good.
LEMMA BeganStays ==
  ASSUME NEW t \in Turn, \A u \in Turn : u # t => turn'[u] = turn[u],
         turn'[t].pc \notin {"idle", "open"} \/ turn[t].pc \in {"idle", "open"}
  PROVE  \A s \in Session : Began(s) => s = NextSession \/ turn'[s].pc \notin {"idle", "open"}
<1>1. \A s \in Session : s = NextSession \/ s \in Turn
  BY ToolsetsAssumption DEF Session, NextSession, Turn
<1> QED BY <1>1 DEF Began

LEMMA Starting ==
  ASSUME Meant, ~crossed', crossed' = (crossed \/ Busy)
  PROVE  ~Busy /\ Ordered
BY DEF Meant

LEMMA MeantInit == Init => Meant
<1> SUFFICES ASSUME Init PROVE Meant
  OBVIOUS
<1>1. /\ ~Expiring /\ ~Adopting
      /\ row.state = "none" /\ switched[live] = "no" /\ switched[NextSession] = "no" /\ live = 0
  BY Sessions, NoRowIsRow DEF Init, Expiring, Adopting, IdleTurn, NextSession
<1>2. Alone /\ (\A t \in Turn : TurnMeant(t)) /\ \A c \in Command : CmdMeant(c)
  BY DEF Init, Alone, TurnBusy, CmdBusy, TurnMeant, CmdMeant, IdleTurn, IdleCmd
<1> QED BY <1>1, <1>2 DEF Meant, Ordered, CountsOut, RowMeant, YesKept, NextSpent, Began, NextSession

LEMMA TurnStartsMeant ==
  ASSUME TypeOK, Meant, ~crossed', NEW t \in Turn,
         ContinueSession(t) \/ RotateSession(t)
  PROVE  Ordered'
<1> USE Sessions, MeantTypes DEF NextSession
<1>1. /\ ~Busy /\ Ordered /\ turn[t].pc = "idle" /\ t # 0
      /\ cmd' = cmd /\ row' = row /\ switched' = switched /\ toolset' = toolset
  BY Starting, ToolsetsAssumption DEF ContinueSession, RotateSession, OnMessage, Turn
<1>2. /\ RowMeant /\ YesKept /\ NextSpent /\ Began(live)
  BY <1>1 DEF Ordered
<1>3. CASE ContinueSession(t)
  <2>1. /\ \A u \in Turn : u # t => turn'[u] = turn[u]
        /\ turn'[t].pc = "adopt" /\ turn'[t].session = live /\ live # 0 /\ live' = live
    BY <1>3 DEF ContinueSession, TypeOK, TurnRec
  <2>2. TurnMeant(t)'
    BY <2>1 DEF TurnMeant
  <2>3. /\ Alone' /\ (\A u \in Turn : TurnMeant(u)') /\ \A c \in Command : CmdMeant(c)'
        /\ ~Adopting
    BY <1>1, <2>1, <2>2, AfterTurnStart
  <2>4. Began(live)' /\ RowMeant' /\ YesKept' /\ NextSpent'
    BY <1>1, <1>2, <2>1, <2>3, BeganStays
       DEF Began, RowMeant, YesKept, NextSpent, Counts, Lapses
  <2> QED BY <2>3, <2>4 DEF Ordered
<1>4. CASE RotateSession(t)
  <2>1. /\ \A u \in Turn : u # t => turn'[u] = turn[u]
        /\ turn'[t].pc = "open" /\ live' = 0
    BY <1>4 DEF RotateSession, TypeOK, TurnRec
  <2>2. TurnMeant(t)'
    BY <2>1 DEF TurnMeant
  <2>3. /\ Alone' /\ (\A u \in Turn : TurnMeant(u)') /\ \A c \in Command : CmdMeant(c)'
        /\ ~Adopting
    BY <1>1, <2>1, <2>2, AfterTurnStart
  <2>4. Began(live)' /\ RowMeant' /\ YesKept' /\ NextSpent'
    BY <1>1, <1>2, <2>1, <2>3, BeganStays
       DEF Began, RowMeant, YesKept, NextSpent, Counts, Lapses
  <2> QED BY <2>3, <2>4 DEF Ordered
<1> QED BY <1>3, <1>4

LEMMA OpenMeant ==
  ASSUME TypeOK, Ordered, NEW t \in Turn, OpenSession(t)
  PROVE  Ordered'
<1> USE Sessions, MeantTypes DEF NextSession
<1>1. /\ turn[t].pc = "open" /\ t # 0 /\ live = 0 /\ live' = t
      /\ cmd' = cmd /\ row' = row /\ toolset' = toolset
      /\ switched'[t] = switched[0] /\ switched'[0] = "no"
      /\ \A s \in Session : s \notin {0, t} => switched'[s] = switched[s]
      /\ \A u \in Turn : u # t => turn'[u] = turn[u]
      /\ turn'[t].pc = "adopt" /\ turn'[t].session = t
  BY ToolsetsAssumption DEF OpenSession, TypeOK, TurnRec, Turn
<1>2. TurnBusy(t) /\ Alone /\ RowMeant /\ YesKept
  BY <1>1 DEF TurnBusy, Ordered
<1>3. TurnMeant(t)'
  BY <1>1 DEF TurnMeant
<1>4. /\ Alone' /\ (\A u \in Turn : TurnMeant(u)') /\ \A c \in Command : CmdMeant(c)'
      /\ ~Adopting /\ Adopting'
  BY <1>1, <1>2, <1>3, AfterTurnStep
<1>5. RowMeant'
  BY <1>1, <1>2, <1>4, BeganStays DEF RowMeant, Counts, Began
<1>6. YesKept'
  BY <1>1, <1>2, <1>4 DEF YesKept, Lapses
<1>7. Began(live)' /\ NextSpent'
  BY <1>1 DEF Began, NextSpent
<1> QED BY <1>4, <1>5, <1>6, <1>7 DEF Ordered

\* A turn in the middle of its work.
LEMMA InTurn ==
  ASSUME TypeOK, Ordered, NEW t \in Turn, turn[t].pc \notin {"idle", "open", "done"}
  PROVE  /\ TurnBusy(t) /\ Alone /\ live # 0 /\ turn[t].session = live
         /\ Began(live) /\ switched[NextSession] = "no" /\ RowMeant /\ YesKept
         /\ TurnMeant(t)
         /\ Adopting <=> turn[t].pc \in {"adopt", "adopting"}
<1>1. TurnBusy(t) /\ Alone /\ TurnMeant(t)
  BY DEF TurnBusy, Ordered
<1>2. Adopting <=> turn[t].pc \in {"adopt", "adopting"}
  BY <1>1 DEF Alone, TurnBusy, Adopting
<1> QED BY <1>1, <1>2 DEF Ordered, TurnMeant, NextSpent

\* Its row is of its own session, once it has adopted what waited.
LEMMA OwnRow ==
  ASSUME TypeOK, Ordered, live # 0, ~Adopting,
         row.state # "none", row.session \in {NextSession, live}
  PROVE  row.session = live /\ switched[live] # "no"
BY DEF Ordered, RowMeant, NextSpent, NextSession

\* A switch that counts is never dropped.
LEMMA KeptRow ==
  ASSUME TypeOK, Ordered, ~Adopting, switched[live] = "yes"
  PROVE  /\ ~Drops(live) /\ row.state # "none" /\ row.session = live
         /\ Counts(row) /\ StatusOn(live) # toolset.default
BY MeantTypes DEF Ordered, RowMeant, YesKept, Drops, OfEndedSession, Expired, Lapses, StatusOn, Counts

LEMMA AdoptMeant ==
  ASSUME TypeOK, Ordered, NEW t \in Turn, AdoptRead(t) \/ AdoptWrite(t)
  PROVE  Ordered'
<1> USE Sessions, MeantTypes
<1>1. /\ turn[t].pc \in {"adopt", "adopting"} /\ cmd' = cmd /\ live' = live
      /\ switched' = switched /\ toolset' = toolset
  BY DEF AdoptRead, AdoptWrite, table, history
<1>2. /\ TurnBusy(t) /\ Alone /\ live # 0 /\ turn[t].session = live
      /\ Began(live) /\ switched[NextSession] = "no" /\ RowMeant /\ YesKept
      /\ TurnMeant(t) /\ Adopting
  BY <1>1, InTurn
<1>3. /\ \A u \in Turn : u # t => turn'[u] = turn[u]
      /\ turn'[t].session = live
  BY <1>2 DEF AdoptRead, AdoptWrite, TypeOK, TurnRec
<1>4. Began(live)' /\ NextSpent'
  <2>1. turn'[t].pc \notin {"idle", "open"}
    BY DEF AdoptRead, AdoptWrite, TypeOK, TurnRec
  <2> QED BY <1>1, <1>2, <1>3, <2>1, BeganStays DEF Began, NextSpent
<1>5. CASE AdoptRead(t)
  <2>1. /\ row' = row
        /\ \/ turn'[t].pc = "adopting" /\ turn'[t].read = row
              /\ row.state # "none" /\ row.session = NextSession
           \/ turn'[t].pc = "status" /\ (row.state = "none" \/ row.session # NextSession)
    BY <1>5 DEF AdoptRead, TypeOK, TurnRec, table
  <2>2. TurnMeant(t)'
    BY <1>1, <1>2, <1>3, <2>1 DEF TurnMeant, RowMeant, YesKept, Counts, Lapses
  <2>3. /\ Alone' /\ (\A u \in Turn : TurnMeant(u)') /\ (\A c \in Command : CmdMeant(c)')
        /\ Adopting' <=> turn'[t].pc \in {"adopt", "adopting"}
    BY <1>1, <1>2, <1>3, <2>2, AfterTurnStep
  <2>4. RowMeant' /\ YesKept'
    BY <1>1, <1>2, <1>3, <2>1, <2>3, BeganStays DEF RowMeant, YesKept, Counts, Lapses, Began
  <2> QED BY <1>4, <2>3, <2>4 DEF Ordered
<1>6. CASE AdoptWrite(t)
  <2>1. /\ turn'[t].pc = "status" /\ turn[t].pc = "adopting"
        /\ row'.state = turn[t].read.state /\ row'.old = turn[t].read.old
        /\ row'.session = live
    BY <1>2, <1>6 DEF AdoptWrite, TypeOK, TurnRec, Row
  <2>2. TurnMeant(t)'
    BY <1>1, <1>2, <1>3, <2>1 DEF TurnMeant
  <2>3. /\ Alone' /\ (\A u \in Turn : TurnMeant(u)') /\ (\A c \in Command : CmdMeant(c)')
    BY <1>1, <1>2, <1>3, <2>2, AfterTurnStep
  <2>4. RowMeant' /\ YesKept'
    BY <1>1, <1>2, <1>4, <2>1 DEF RowMeant, YesKept, Counts, Lapses, TurnMeant
  <2> QED BY <1>4, <2>3, <2>4 DEF Ordered
<1> QED BY <1>5, <1>6

\* The steps of a turn that no longer adopts.
LEMMA WorkMeant ==
  ASSUME TypeOK, Ordered, NEW t \in Turn,
         \/ ResolveStatus(t) \/ DropRow(t) \/ TouchRead(t) \/ TouchWrite(t) \/ TouchArm(t)
  PROVE  Ordered'
<1> USE Sessions, MeantTypes
<1> DEFINE from == turn[t].pc
           to == turn'[t].pc
<1>1. /\ from \in {"status", "dropping", "touch", "touching", "arming"}
      /\ cmd' = cmd /\ live' = live /\ switched' = switched /\ toolset' = toolset
  BY DEF ResolveStatus, DropRow, TouchRead, TouchWrite, TouchArm, Step, table, history
<1>2. /\ TurnBusy(t) /\ Alone /\ live # 0 /\ turn[t].session = live
      /\ Began(live) /\ switched[NextSession] = "no" /\ RowMeant /\ YesKept
      /\ TurnMeant(t) /\ ~Adopting
  BY <1>1, InTurn
<1>3. /\ \A u \in Turn : u # t => turn'[u] = turn[u]
      /\ to # "done" => turn'[t].session = live
      /\ to \in {"dropping", "touch", "touching", "arming", "done"}
  <2>1. ASSUME NEW pc \in {"dropping", "touch", "touching", "arming", "done"},
               Step(t, from, pc)
        PROVE  /\ \A u \in Turn : u # t => turn'[u] = turn[u]
               /\ to = pc /\ (pc # "done" => turn'[t].session = live)
    BY <1>2, <2>1 DEF Step, DoneTurn, IdleTurn, TypeOK, TurnRec
  <2>2. CASE ResolveStatus(t)
    BY <1>2, <2>2 DEF ResolveStatus, TypeOK, TurnRec
  <2>3. CASE DropRow(t) \/ TouchRead(t) \/ TouchWrite(t) \/ TouchArm(t)
    <3>1. \E pc \in {"dropping", "touch", "touching", "arming", "done"} : Step(t, from, pc)
      BY <2>3 DEF DropRow, TouchRead, TouchWrite, TouchArm, Step
    <3> QED BY <3>1, <2>1
  <2> QED BY <2>2, <2>3
<1>4. Began(live)' /\ NextSpent'
  BY <1>1, <1>2, <1>3, BeganStays DEF Began, NextSpent
<1>5. CASE ResolveStatus(t)
  <2>1. /\ row' = row
        /\ Drops(live) => to = "dropping"
        /\ ~Drops(live) => to = "touch"
    BY <1>2, <1>5 DEF ResolveStatus, TypeOK, TurnRec, table
  <2>2. switched[live] = "yes" => ~Drops(live)
    BY <1>2, KeptRow
  <2>3. ~Drops(live) => row.state = "none" \/ row.session = live
    BY <1>2, OwnRow DEF Drops, OfEndedSession
  <2>4. TurnMeant(t)'
    BY <1>1, <1>2, <1>3, <2>1, <2>2, <2>3 DEF TurnMeant
  <2>5. /\ Alone' /\ (\A u \in Turn : TurnMeant(u)') /\ \A c \in Command : CmdMeant(c)'
    BY <1>1, <1>2, <1>3, <2>4, AfterTurnStep
  <2>6. RowMeant' /\ YesKept'
    BY <1>1, <1>2, <1>3, <2>1, BeganStays DEF RowMeant, YesKept, Counts, Lapses, Began
  <2> QED BY <1>4, <2>5, <2>6 DEF Ordered
<1>6. CASE DropRow(t)
  <2>1. row'.state = "none" /\ switched[live] # "yes" /\ to = "touch"
    BY <1>2, <1>6, NoRowIsRow DEF DropRow, Step, TurnMeant, TypeOK, TurnRec
  <2>2. TurnMeant(t)'
    BY <1>1, <1>2, <1>3, <2>1 DEF TurnMeant
  <2>3. /\ Alone' /\ (\A u \in Turn : TurnMeant(u)') /\ \A c \in Command : CmdMeant(c)'
    BY <1>1, <1>2, <1>3, <2>2, AfterTurnStep
  <2>4. RowMeant' /\ YesKept'
    BY <1>1, <2>1 DEF RowMeant, YesKept
  <2> QED BY <1>4, <2>3, <2>4 DEF Ordered
<1>7. CASE TouchRead(t)
  <2>1. /\ row' = row /\ from = "touch"
        /\ to = "done" \/ (to = "touching" /\ row.state = "on")
    BY <1>7 DEF TouchRead, Step, DoneTurn, IdleTurn, TypeOK, TurnRec, table
  <2>2. to = "touching" => ~toolset.default /\ switched[live] # "no"
    BY <1>2, <2>1, OwnRow DEF RowMeant, Counts, TurnMeant
  <2>3. TurnMeant(t)'
    BY <1>1, <1>2, <1>3, <2>1, <2>2 DEF TurnMeant
  <2>4. /\ Alone' /\ (\A u \in Turn : TurnMeant(u)') /\ \A c \in Command : CmdMeant(c)'
    BY <1>1, <1>2, <1>3, <2>3, AfterTurnStep
  <2>5. RowMeant' /\ YesKept'
    BY <1>1, <1>2, <1>3, <2>1, BeganStays DEF RowMeant, YesKept, Counts, Lapses, Began
  <2> QED BY <1>4, <2>4, <2>5 DEF Ordered
<1>8. CASE TouchWrite(t)
  <2>1. /\ row'.state = "on" /\ row'.session = live /\ ~row'.old
        /\ ~toolset.default /\ switched[live] # "no" /\ to = "arming"
    BY <1>2, <1>8 DEF TouchWrite, Step, TurnMeant, TypeOK, TurnRec
  <2>2. TurnMeant(t)'
    BY <1>1, <1>2, <1>3, <2>1 DEF TurnMeant
  <2>3. /\ Alone' /\ (\A u \in Turn : TurnMeant(u)') /\ \A c \in Command : CmdMeant(c)'
    BY <1>1, <1>2, <1>3, <2>2, AfterTurnStep
  <2>4. RowMeant' /\ YesKept'
    BY <1>1, <1>2, <1>4, <2>1 DEF RowMeant, YesKept, Counts, Lapses
  <2> QED BY <1>4, <2>3, <2>4 DEF Ordered
<1>9. CASE TouchArm(t)
  <2>1. row' = row /\ to = "done"
    BY <1>9 DEF TouchArm, Step, DoneTurn, IdleTurn, TypeOK, table
  <2>2. TurnMeant(t)'
    BY <2>1 DEF TurnMeant
  <2>3. /\ Alone' /\ (\A u \in Turn : TurnMeant(u)') /\ \A c \in Command : CmdMeant(c)'
    BY <1>1, <1>2, <1>3, <2>2, AfterTurnStep
  <2>4. RowMeant' /\ YesKept'
    BY <1>1, <1>2, <1>3, <2>1, BeganStays DEF RowMeant, YesKept, Counts, Lapses, Began
  <2> QED BY <1>4, <2>3, <2>4 DEF Ordered
<1> QED BY <1>5, <1>6, <1>7, <1>8, <1>9

\* Without a turn under way the row and the switch are of one session.
LEMMA CommandStartsMeant ==
  ASSUME TypeOK, Meant, ~crossed', NEW c \in Command, NEW kind \in Commands,
         NewCommand(c, kind) \/ ToolsCommand(c, kind) \/ Purge(c, kind)
  PROVE  Ordered'
<1> USE Sessions, MeantTypes DEF NextSession
<1>1. /\ ~Busy /\ Ordered
      /\ turn' = turn /\ row' = row /\ switched' = switched /\ toolset' = toolset
  BY Starting DEF NewCommand, ToolsCommand, Purge, OnCommand
<1>2. /\ RowMeant /\ YesKept /\ NextSpent /\ Began(live)
  BY <1>1 DEF Ordered
<1>3. /\ \A d \in Command : d # c => cmd'[d] = cmd[d]
      /\ \/ cmd'[c].session = live /\ cmd'[c].pc \in {"close", "status", "set"} /\ live' = live
         \/ cmd'[c].pc = "done" /\ live' = live
         \/ cmd'[c].pc = "delete" /\ live' = 0
  BY DEF NewCommand, ToolsCommand, Purge, Looked, DoneCmd, IdleCmd, TypeOK
<1>4. CmdMeant(c)'
  BY <1>3 DEF CmdMeant
<1>5. /\ Alone' /\ (\A t \in Turn : TurnMeant(t)') /\ (\A d \in Command : CmdMeant(d)')
      /\ ~Adopting /\ ~Adopting'
  BY <1>1, <1>3, <1>4, AfterCmdStart
<1>6. Began(live)' /\ RowMeant' /\ YesKept' /\ NextSpent'
  BY <1>1, <1>2, <1>3, <1>5 DEF Began, RowMeant, YesKept, NextSpent, Counts, Lapses
<1> QED BY <1>5, <1>6 DEF Ordered

LEMMA CommandMeant ==
  ASSUME TypeOK, CountsOut, Ordered, NEW c \in Command, CommandStep(c)
  PROVE  Ordered'
<1> USE Sessions, MeantTypes DEF NextSession
<1> DEFINE from == cmd[c].pc
           to == cmd'[c].pc
<1>1. /\ from \notin {"idle", "done"} /\ turn' = turn /\ toolset' = toolset
      /\ \A d \in Command : d # c => cmd'[d] = cmd[d]
  BY DEF CommandStep, NewCloses, ToolsStatus, ToolsDrops, SetToolset, SetFails, SetArms,
         PurgeDeletes, PurgeStops, CmdStep, TypeOK
<1>2. CmdBusy(c) /\ Alone /\ Began(live) /\ RowMeant /\ YesKept /\ NextSpent /\ CmdMeant(c)
  BY <1>1 DEF CmdBusy, Ordered
<1>3. ASSUME CmdMeant(c)'
      PROVE  /\ Alone' /\ (\A t \in Turn : TurnMeant(t)') /\ (\A d \in Command : CmdMeant(d)')
             /\ ~Adopting /\ ~Adopting'
  BY <1>1, <1>2, <1>3, AfterCmdStep
<1>4. ~Adopting
  BY <1>2 DEF Adopting, Alone, TurnBusy
<1>5. CASE NewCloses(c)
  <2>1. /\ row' = row /\ switched' = switched
        /\ live' = 0
        /\ to = "done" \/ cmd'[c].session = 0
    BY <1>2, <1>5 DEF NewCloses, CmdMeant, history, DoneCmd, IdleCmd, TypeOK, CmdRec
  <2>2. CmdMeant(c)'
    <3>1. to \in {"done", "set"}
      BY <1>5 DEF NewCloses, DoneCmd, IdleCmd, TypeOK, CmdRec
    <3> QED BY <2>1, <3>1 DEF CmdMeant
  <2>3. Began(live)' /\ RowMeant' /\ YesKept' /\ NextSpent'
    BY <1>1, <1>2, <1>3, <2>1, <2>2 DEF Began, RowMeant, YesKept, NextSpent, Counts, Lapses
  <2> QED BY <1>3, <2>2, <2>3 DEF Ordered
<1>6. CASE ToolsStatus(c)
  <2>1. /\ row' = row /\ live' = live /\ switched' = switched
        /\ cmd[c].session = live
        /\ \/ to = "done"
           \/ to = "dropping" /\ Drops(live) /\ cmd'[c].session = live
           \/ to = "set" /\ cmd'[c].session = live
    BY <1>2, <1>6 DEF ToolsStatus, CmdMeant, history, table, DoneCmd, IdleCmd, TypeOK, CmdRec
  <2>2. switched[live] = "yes" => ~Drops(live)
    BY <1>4, KeptRow
  <2>3. CmdMeant(c)'
    BY <2>1, <2>2 DEF CmdMeant
  <2>4. Began(live)' /\ RowMeant' /\ YesKept' /\ NextSpent'
    BY <1>1, <1>2, <1>3, <2>1, <2>3 DEF Began, RowMeant, YesKept, NextSpent, Counts, Lapses
  <2> QED BY <1>3, <2>3, <2>4 DEF Ordered
<1>7. CASE ToolsDrops(c)
  <2>1. /\ row'.state = "none" /\ live' = live /\ switched' = switched
        /\ switched[live] # "yes"
        /\ to = "done" \/ (to = "set" /\ cmd'[c].session = live)
    <3>1. CmdStep(c, "dropping", "done") \/ CmdStep(c, "dropping", "set")
      BY <1>7 DEF ToolsDrops
    <3>2. /\ cmd[c].session = live /\ switched[live] # "yes"
          /\ to = "done" \/ (to = "set" /\ cmd'[c].session = live)
      BY <1>2, <3>1 DEF CmdStep, CmdMeant, DoneCmd, IdleCmd, TypeOK, CmdRec
    <3>3. row' = NoRow /\ live' = live /\ switched' = switched
      BY <1>7 DEF ToolsDrops, history
    <3> QED BY <3>2, <3>3, NoRowIsRow
  <2>2. CmdMeant(c)'
    BY <2>1 DEF CmdMeant
  <2>3. Began(live)' /\ RowMeant' /\ YesKept' /\ NextSpent'
    BY <1>1, <1>2, <2>1 DEF Began, RowMeant, YesKept, NextSpent
  <2> QED BY <1>3, <2>2, <2>3 DEF Ordered
<1>8. CASE SetToolset(c)
  <2>1. /\ live' = live /\ cmd[c].session = live
        /\ to = "arming" /\ cmd'[c].session = live
        /\ row' = SetRow(live, cmd[c].on)
        /\ \A s \in Session : s # live => switched'[s] = switched[s]
        /\ cmd[c].on = toolset.default => switched'[live] = "no"
        /\ cmd[c].on # toolset.default => switched'[live] \in {"yes", "maybe"}
    BY <1>2, <1>8 DEF SetToolset, CmdStep, CmdMeant, TypeOK, CmdRec
  <2>2. CmdMeant(c)'
    BY <2>1 DEF CmdMeant
  <2>3. CASE cmd[c].on = toolset.default
    <3>1. row'.state = "none"
      BY <2>1, <2>3, NoRowIsRow DEF SetRow
    <3> QED BY <1>1, <1>2, <1>3, <2>1, <2>2, <2>3, <3>1
            DEF Began, RowMeant, YesKept, NextSpent, Ordered
  <2>4. CASE cmd[c].on # toolset.default
    <3>1. /\ row'.state # "none" /\ row'.session = live /\ ~row'.old
          /\ (row'.state = "on") # toolset.default
      BY <2>1, <2>4 DEF SetRow
    <3> QED BY <1>1, <1>2, <1>3, <2>1, <2>2, <2>4, <3>1
            DEF Began, RowMeant, YesKept, NextSpent, Ordered, Counts, Lapses
  <2> QED BY <2>3, <2>4
<1>9. CASE SetFails(c) \/ SetArms(c) \/ PurgeStops(c)
  <2>1. /\ row' = row /\ live' = live /\ switched' = switched /\ to = "done"
    BY <1>9 DEF SetFails, SetArms, PurgeStops, CmdStep, history, table, DoneCmd, IdleCmd, TypeOK
  <2>2. CmdMeant(c)'
    BY <2>1 DEF CmdMeant
  <2>3. Began(live)' /\ RowMeant' /\ YesKept' /\ NextSpent'
    BY <1>1, <1>2, <1>3, <2>1, <2>2 DEF Began, RowMeant, YesKept, NextSpent, Counts, Lapses
  <2> QED BY <1>3, <2>2, <2>3 DEF Ordered
<1>10. CASE PurgeDeletes(c)
  <2>1. /\ row'.state = "none" /\ live' = live /\ to = "stop"
        /\ \A s \in Session : switched'[s] = "no"
    BY <1>10, NoRowIsRow DEF PurgeDeletes, CmdStep, TypeOK, CmdRec
  <2>2. CmdMeant(c)'
    BY <2>1 DEF CmdMeant
  <2>3. Began(live)' /\ RowMeant' /\ YesKept' /\ NextSpent'
    BY <1>1, <1>2, <2>1 DEF Began, RowMeant, YesKept, NextSpent
  <2> QED BY <1>3, <2>2, <2>3 DEF Ordered
<1> QED BY <1>5, <1>6, <1>7, <1>8, <1>9, <1>10 DEF CommandStep

\* Time and the callbacks: a countdown that runs out excuses every session,
\* and a row that goes has been excused.
LEMMA CountdownMeant ==
  ASSUME TypeOK, Meant, IdlePasses \/ \E k \in Timer : CallbackStep(k)
  PROVE  Meant'
<1> USE Sessions, MeantTypes DEF NextSession
<1>1. CASE IdlePasses
  <2>1. /\ live' = live /\ cmd' = cmd /\ toolset' = toolset /\ crossed' = crossed
        /\ row'.state = row.state /\ row'.session = row.session
        /\ \A t \in Turn : /\ turn'[t].pc = turn[t].pc /\ turn'[t].session = turn[t].session
                           /\ turn'[t].read.state = turn[t].read.state
    BY <1>1 DEF IdlePasses, Aged, TypeOK, TurnRec, Row
  <2>2. \A s \in Session : switched'[s] # "yes" /\ (switched'[s] = "no" <=> switched[s] = "no")
    BY <1>1 DEF IdlePasses, CountdownOver
  <2>3. CountsOut'
    BY <2>2 DEF CountsOut
  <2>4. ASSUME Ordered PROVE Ordered'
    <3>1. Alone'
      BY <2>1, <2>4 DEF Ordered, Alone, TurnBusy, CmdBusy
    <3>2. \A t \in Turn : TurnMeant(t)'
      BY <2>1, <2>2, <2>4 DEF Ordered, TurnMeant, Counts
    <3>3. \A c \in Command : CmdMeant(c)'
      BY <2>1, <2>2, <2>4 DEF Ordered, CmdMeant
    <3>4. \A s \in Session : s = 0 \/ s \in Turn
      BY ToolsetsAssumption DEF Session, Turn
    <3>5. (Adopting <=> Adopting') /\ (\A s \in Session : Began(s) => Began(s)')
      BY <2>1, <3>4 DEF Adopting, Began
    <3>6. Began(live)' /\ (Began(row.session) => Began(row.session)')
      BY <2>1, <2>4, <3>4 DEF Ordered, Began
    <3>7. RowMeant' /\ YesKept' /\ NextSpent'
      BY <2>1, <2>2, <2>4, <3>5, <3>6 DEF Ordered, RowMeant, YesKept, NextSpent, Counts
    <3> QED BY <3>1, <3>2, <3>3, <3>6, <3>7 DEF Ordered
  <2> QED BY <2>1, <2>3, <2>4 DEF Meant
<1>2. ASSUME NEW k \in Timer, CallbackStep(k)
      PROVE  Meant'
  <2>1. /\ live' = live /\ cmd' = cmd /\ turn' = turn /\ toolset' = toolset
        /\ crossed' = crossed
        /\ row' = row \/ (row'.state = "none" /\ Expiring)
        /\ Fire(k) \/ Expiring
    <3>1. CASE Fire(k)
      BY <3>1 DEF Fire, table
    <3>2. CASE ExpireForget(k) \/ ExpireRead(k) \/ ExpireFails(k)
      BY <3>2 DEF ExpireForget, ExpireRead, ExpireFails, TimerStep, table, history, Expiring
    <3>3. CASE ExpireWrite(k)
      BY <3>3, NoRowIsRow DEF ExpireWrite, TimerStep, history, Expiring
    <3> QED BY <1>2, <3>1, <3>2, <3>3 DEF CallbackStep
  <2>2. /\ \A s \in Session : switched'[s] # "yes"
        /\ \A s \in Session : switched'[s] = "no" <=> switched[s] = "no"
    <3>1. CASE Fire(k)
      BY <3>1 DEF Fire, CountdownOver
    <3>2. CASE ~Fire(k)
      <4>1. switched' = switched /\ Expiring
        BY <1>2, <2>1, <3>2 DEF CallbackStep, ExpireForget, ExpireRead, ExpireWrite, ExpireFails, history
      <4> QED BY <4>1 DEF Meant, CountsOut
    <3> QED BY <3>1, <3>2
  <2>3. CountsOut'
    BY <2>2 DEF CountsOut
  <2>4. ASSUME Ordered PROVE Ordered'
    <3>1. Alone' /\ (Adopting <=> Adopting') /\ Began(live)'
      BY <2>1, <2>4 DEF Ordered, Alone, TurnBusy, CmdBusy, Adopting, Began
    <3>2. \A t \in Turn : TurnMeant(t)'
      BY <2>1, <2>2, <2>4 DEF Ordered, TurnMeant, Counts, Lapses
    <3>3. \A c \in Command : CmdMeant(c)'
      BY <2>1, <2>2, <2>4 DEF Ordered, CmdMeant
    <3>4. RowMeant'
      BY <2>1, <2>2, <2>4, <3>1 DEF Ordered, RowMeant, Counts, Began
    <3>5. YesKept' /\ NextSpent'
      BY <2>1, <2>2, <2>4 DEF Ordered, YesKept, NextSpent
    <3> QED BY <3>1, <3>2, <3>3, <3>4, <3>5 DEF Ordered
  <2> QED BY <2>1, <2>3, <2>4 DEF Meant
<1> QED BY <1>1, <1>2

\* A restart cuts short what is under way, if anything is.
LEMMA RestartMeant ==
  ASSUME TypeOK, Meant, Restart
  PROVE  Meant'
<1>1. ~Expiring'
  BY DEF Restart, Expiring
<1>2. ASSUME ~crossed' PROVE Ordered'
  <2>1. Ordered /\ ~Busy
    BY <1>2 DEF Restart, Meant
  <2>2. \A t \in Turn : turn'[t] = turn[t]
    BY <2>1 DEF Restart, Busy, TypeOK
  <2>3. \A c \in Command : cmd'[c] = cmd[c]
    BY <2>1 DEF Restart, Busy, TypeOK
  <2>4. row' = row /\ live' = live /\ toolset' = toolset /\ switched' = switched
    BY DEF Restart, table
  <2>5. \A s \in Session : s = NextSession \/ s \in Turn
    BY ToolsetsAssumption DEF Session, Turn, NextSession
  <2>6. Alone' /\ (Adopting <=> Adopting') /\ Began(live)'
    BY <2>1, <2>2, <2>3, <2>4, <2>5, MeantTypes
       DEF Ordered, Alone, TurnBusy, CmdBusy, Adopting, Began
  <2>7. (\A t \in Turn : TurnMeant(t)') /\ \A c \in Command : CmdMeant(c)'
    BY <2>1, <2>2, <2>3, <2>4 DEF Ordered, TurnMeant, CmdMeant, Counts, Lapses
  <2>8. RowMeant'
    BY <2>1, <2>2, <2>4, <2>5, <2>6, MeantTypes DEF Ordered, RowMeant, Counts, Began
  <2>9. YesKept' /\ NextSpent'
    BY <2>1, <2>4, <2>6 DEF Ordered, YesKept, NextSpent, Lapses
  <2> QED BY <2>6, <2>7, <2>8, <2>9 DEF Ordered
<1> QED BY <1>1, <1>2 DEF Meant, CountsOut

\* Arming or stopping a timer puts no callback under way.
LEMMA ArmingWakesNone ==
  ASSUME TypeOK, NEW k \in Timer, NEW on,
         \/ ArmTimer(k, on)
         \/ timer' = Stopped
         \/ timer' = timer
  PROVE  Expiring' => Expiring
BY DEF ArmTimer, Stopped, Expiring, TypeOK

LEMMA CountsOutKept ==
  ASSUME TypeOK, CountsOut, Expiring' => Expiring,
         \A s \in Session : switched'[s] = "yes" =>
            switched[s] = "yes" \/ switched[NextSession] = "yes" \/ ~Expiring
  PROVE  CountsOut'
BY Sessions DEF CountsOut, NextSession

LEMMA HandlersCountOut ==
  ASSUME TypeOK, CountsOut,
         \/ \E t \in Turn : ContinueSession(t) \/ RotateSession(t) \/ TurnStep(t)
         \/ \E c \in Command, kind \in Commands :
              NewCommand(c, kind) \/ ToolsCommand(c, kind) \/ Purge(c, kind)
         \/ \E c \in Command : CommandStep(c)
  PROVE  CountsOut'
<1> USE Sessions, MeantTypes, Timers
<1>1. ASSUME NEW t \in Turn, ContinueSession(t) \/ RotateSession(t) \/ TurnStep(t)
      PROVE  CountsOut'
  <2>1. Expiring' => Expiring
    BY <1>1, ArmingWakesNone
       DEF ContinueSession, RotateSession, OnMessage, TurnStep, OpenSession, OpenRefused, AdoptRead,
           AdoptWrite, ResolveStatus, DropRow, TouchRead, TouchWrite, TouchArm
  <2>2. \A s \in Session : switched'[s] = "yes" =>
           switched[s] = "yes" \/ switched[NextSession] = "yes"
    BY <1>1
       DEF ContinueSession, RotateSession, OnMessage, TurnStep, OpenSession, OpenRefused, AdoptRead,
           AdoptWrite, ResolveStatus, DropRow, TouchRead, TouchWrite, TouchArm, history, TypeOK,
           NextSession
  <2> QED BY <2>1, <2>2, CountsOutKept
<1>2. ASSUME NEW c \in Command, NEW kind \in Commands,
             NewCommand(c, kind) \/ ToolsCommand(c, kind) \/ Purge(c, kind)
      PROVE  CountsOut'
  BY <1>2 DEF NewCommand, ToolsCommand, Purge, OnCommand, CountsOut, Expiring
<1>3. ASSUME NEW c \in Command, CommandStep(c)
      PROVE  CountsOut'
  <2>1. Expiring' => Expiring
    BY <1>3, ArmingWakesNone
       DEF CommandStep, NewCloses, ToolsStatus, ToolsDrops, SetToolset, SetFails, SetArms,
           PurgeDeletes, PurgeStops
  <2>2. \A s \in Session : switched'[s] = "yes" => switched[s] = "yes" \/ ~Expiring
    BY <1>3
       DEF CommandStep, NewCloses, ToolsStatus, ToolsDrops, SetToolset, SetFails, SetArms,
           PurgeDeletes, PurgeStops, history, TypeOK
  <2> QED BY <2>1, <2>2, CountsOutKept
<1> QED BY <1>1, <1>2, <1>3

LEMMA MeantKeeps == TypeOK /\ Meant /\ [Next]_vars => Meant'
<1> SUFFICES ASSUME TypeOK, Meant, [Next]_vars PROVE Meant'
  OBVIOUS
<1>1. ASSUME NEW t \in Turn, ContinueSession(t) \/ RotateSession(t) \/ TurnStep(t)
      PROVE  Meant'
  <2>1. CountsOut'
    BY <1>1, HandlersCountOut DEF Meant
  <2>2. ASSUME ~crossed', ContinueSession(t) \/ RotateSession(t)
        PROVE  Ordered'
    BY <2>2, TurnStartsMeant
  <2>3. ASSUME ~crossed', TurnStep(t)
        PROVE  Ordered'
    <3>1. Ordered
      <4>1. crossed' = crossed
        BY <2>3 DEF TurnStep, OpenSession, OpenRefused, AdoptRead, AdoptWrite, ResolveStatus,
                    DropRow, TouchRead, TouchWrite, TouchArm, history
      <4> QED BY <2>3, <4>1 DEF Meant
    <3>2. ~OpenRefused(t)
      BY <3>1 DEF OpenRefused, Step, Ordered, TurnMeant
    <3> QED BY <2>3, <3>1, <3>2, OpenMeant, AdoptMeant, WorkMeant DEF TurnStep
  <2> QED BY <1>1, <2>1, <2>2, <2>3 DEF Meant
<1>2. ASSUME NEW c \in Command, NEW kind \in Commands,
             NewCommand(c, kind) \/ ToolsCommand(c, kind) \/ Purge(c, kind)
      PROVE  Meant'
  BY <1>2, HandlersCountOut, CommandStartsMeant DEF Meant
<1>3. ASSUME NEW c \in Command, CommandStep(c)
      PROVE  Meant'
  <2>1. crossed' = crossed
    BY <1>3 DEF CommandStep, NewCloses, ToolsStatus, ToolsDrops, SetToolset, SetFails, SetArms,
                PurgeDeletes, PurgeStops, history
  <2> QED BY <1>3, <2>1, HandlersCountOut, CommandMeant DEF Meant
<1>4. CASE IdlePasses \/ \E k \in Timer : CallbackStep(k)
  BY <1>4, CountdownMeant
<1>5. CASE Restart
  BY <1>5, RestartMeant
<1>6. CASE UNCHANGED vars
  <2>1. \A s \in Session : Began(s) <=> Began(s)'
    BY <1>6 DEF vars, Began
  <2> QED BY <1>6
    DEF vars, table, history, Meant, CountsOut, Expiring, Ordered, Alone, TurnBusy,
                  CmdBusy, Began, RowMeant, YesKept, NextSpent, TurnMeant, CmdMeant, Adopting,
                  Counts, Lapses
<1> QED BY <1>1, <1>2, <1>3, <1>4, <1>5, <1>6 DEF Next

\* A turn runs with what its own conversation has switched, and with nothing
\* that another has, through any number of sessions, switches, late timers
\* and restarts, as long as no turns or commands have been under way at once.
THEOREM OnlyItsOwnSwitch == Spec => OwnSwitchOnly
<1> DEFINE A == \A t \in Turn : ResolveStatus(t) /\ ~crossed =>
                  LET mine == switched[turn[t].session] IN
                  /\ (turn'[t].on # toolset.default) => mine # "no"
                  /\ (mine = "yes") => turn'[t].on # toolset.default
<1>1. TypeOK /\ Meant /\ [Next]_vars => A
  <2> SUFFICES ASSUME TypeOK, Meant, NEW t \in Turn, ResolveStatus(t), ~crossed
               PROVE  /\ (turn'[t].on # toolset.default) => switched[turn[t].session] # "no"
                      /\ (switched[turn[t].session] = "yes") => turn'[t].on # toolset.default
    BY DEF A
  <2>1. Ordered /\ turn[t].pc = "status"
    BY DEF Meant, ResolveStatus
  <2>2. live # 0 /\ turn[t].session = live /\ ~Adopting
    BY <2>1, InTurn
  <2>3. turn'[t].on = StatusOn(live)
    BY <2>2 DEF ResolveStatus, TypeOK, TurnRec
  <2>4. ASSUME StatusOn(live) # toolset.default PROVE switched[live] # "no"
    <3>1. row.state # "none" /\ row.session \in {NextSession, live}
      BY <2>4 DEF StatusOn, Drops, OfEndedSession
    <3> QED BY <2>1, <2>2, <3>1, OwnRow
  <2>5. switched[live] = "yes" => StatusOn(live) # toolset.default
    BY <2>1, <2>2, KeptRow
  <2> QED BY <2>2, <2>3, <2>4, <2>5
<1>2. Spec => [](TypeOK /\ Fresh /\ Meant)
  BY TypeInit, Keeps, MeantInit, MeantKeeps, PTL DEF Spec
<1>3. TypeOK /\ Fresh /\ Meant /\ [Next]_vars => A
  BY <1>1
<1> QED BY <1>3, TypeInit, Keeps, MeantInit, MeantKeeps, PTL DEF Spec, OwnSwitchOnly, A
=============================================================================
