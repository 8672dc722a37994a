------------------------- MODULE Conversation_proofs -------------------------
(***************************************************************************)
(* What holds of Conversation for every number of runs, of command         *)
(* goroutines and of crashes, and for every choice of operations, faults   *)
(* and policies.                                                           *)
(***************************************************************************)
EXTENDS Conversation, TLAPS

\* LiveSession is 0 or the session of a live row.
LEMMA LiveSessionType ==
  /\ LiveSession \in 0 .. N
  /\ LiveSession # 0 => LiveSession \in Live
<1>1. CASE Live = {}
  BY <1>1, ConversationAssumption DEF LiveSession
<1>2. CASE Live # {}
  <2>1. LiveSession \in Live
    BY <1>2, Zenon DEF LiveSession
  <2>2. QED BY <2>1, ConversationAssumption DEF Live, Run
<1>3. QED BY <1>1, <1>2

\* The records everything starts from, and the counters.
LEMMA NullRecords == NoRow \in Row /\ IdleJob \in JobRec /\ IdleRun \in RunRec
<1>1. NoRow \in Row
  BY ConversationAssumption DEF NoRow, Row, Node
<1>2. IdleJob \in JobRec
  BY <1>1, ConversationAssumption DEF IdleJob, JobRec
<1>3. IdleRun \in RunRec
  BY ConversationAssumption DEF IdleRun, RunRec, Pc, Node
<1>4. QED BY <1>1, <1>2, <1>3

\* A run's number also names its session, its exchange and its event.
LEMMA RunNumbers == \A r \in Run : r \in 0 .. N /\ r \in Node
BY ConversationAssumption DEF Run, Node

\* Counting up or down by one stays within the bound.
LEMMA Counters ==
  \A n \in 0 .. N : OneMore(n) \in 0 .. N /\ OneLess(n) \in 0 .. N
BY ConversationAssumption DEF OneMore, OneLess

\* One field of a run, a job or a row at a time.
LEMMA FieldTypes ==
  /\ \A x \in RunRec : /\ \A p \in Pc : [x EXCEPT !.pc = p] \in RunRec
                      /\ [x EXCEPT !.stop = TRUE] \in RunRec
  /\ \A x \in Row, r \in Run : [x EXCEPT !.answer = r] \in Row
<1>1. \A x \in RunRec : /\ \A p \in Pc : [x EXCEPT !.pc = p] \in RunRec
                      /\ [x EXCEPT !.stop = TRUE] \in RunRec
  BY DEF RunRec
<1>2. \A x \in Row, r \in Run : [x EXCEPT !.answer = r] \in Row
  BY ConversationAssumption DEF Row, Run
<1>3. QED BY <1>1, <1>2

\* The updates of several fields at once that the steps of handleTurn make.
LEMMA RunUpdates ==
  \A x \in RunRec, p \in Pc :
    /\ [x EXCEPT !.pc = p, !.recorded = TRUE] \in RunRec
    /\ \A s \in 0 .. N : [x EXCEPT !.pc = p, !.held = s] \in RunRec
    /\ \A n \in Node :
         /\ [x EXCEPT !.pc = p, !.from = n] \in RunRec
         /\ \A s \in 0 .. N :
              [x EXCEPT !.pc = p, !.held = s, !.from = n] \in RunRec
BY DEF RunRec

\* handleTurn going from one step to the next.
LEMMA StepType ==
  ASSUME TypeOK, NEW r \in Run, NEW from, NEW to \in Pc, Step(r, from, to)
  PROVE  run' \in [Run -> RunRec]
BY FieldTypes DEF TypeOK, Step

\* The statements of the store keep a well-formed table well formed.
LEMMA StoreType ==
  ASSUME TypeOK
  PROVE  /\ \A s \in 0 .. N : CloseSession(s) \in [Run -> SessRec]
         /\ \A s \in 0 .. N : ReopenSession(s) \in [Run -> SessRec]
         /\ \A s \in 0 .. N, n \in Node :
              /\ AdvanceSession(s, n) \in [Run -> SessRec]
              /\ RewindSession(s, n) \in [Run -> SessRec]
         /\ \A r \in Run : PutTurn(r) \in [Run -> Row]
<1>1. \A s \in 0 .. N : CloseSession(s) \in [Run -> SessRec]
  BY DEF TypeOK, CloseSession, SessRec
<1>2. \A s \in 0 .. N : ReopenSession(s) \in [Run -> SessRec]
  BY ZenonT(60) DEF TypeOK, ReopenSession, SessRec
<1>3. ASSUME NEW s \in 0 .. N, NEW n \in Node
      PROVE  /\ AdvanceSession(s, n) \in [Run -> SessRec]
             /\ RewindSession(s, n) \in [Run -> SessRec]
  <2>1. CASE ~Exists(s)
    BY <2>1 DEF TypeOK, AdvanceSession, RewindSession
  <2>2. CASE Exists(s)
    <3>1. sess[s].turns \in 0 .. N
      BY <2>2 DEF TypeOK, Exists, SessRec
    <3>2. /\ OneMore(sess[s].turns) \in 0 .. N
          /\ OneLess(sess[s].turns) \in 0 .. N
      BY <3>1, Counters
    <3>3. AdvanceSession(s, n) \in [Run -> SessRec]
      BY <2>2, <3>2 DEF TypeOK, AdvanceSession, SessRec
    <3>4. RewindSession(s, n) \in [Run -> SessRec]
      BY <2>2, <3>2 DEF TypeOK, RewindSession, SessRec
    <3>5. QED BY <3>3, <3>4
  <2>3. QED BY <2>1, <2>2
<1>4. ASSUME NEW r \in Run PROVE PutTurn(r) \in [Run -> Row]
  <2>1. CASE HasRow(run[r].q)
    BY <2>1, FieldTypes DEF TypeOK, PutTurn
  <2>2. CASE ~HasRow(run[r].q)
    <3>1. [sess |-> run[r].held, parent |-> run[r].from, answer |-> r,
           at |-> clock] \in Row
      BY ConversationAssumption DEF TypeOK, RunRec, Row, Run
    <3>2. QED BY <2>2, <3>1 DEF TypeOK, PutTurn
  <2>3. QED BY <2>1, <2>2
<1>5. QED BY <1>1, <1>2, <1>3, <1>4

\* A command goroutine that goes on, or returns, is well formed.
LEMMA JobStepType ==
  ASSUME TypeOK, NEW c \in Cmds, NEW from, NEW to, JobStep(c, from, to),
         \A j \in JobRec : [j EXCEPT !.at = to] \in JobRec \/ to = "idle"
  PROVE  job' \in [Cmds -> JobRec]
BY NullRecords DEF TypeOK, JobStep

\* A command that starts a goroutine.
LEMMA StartType ==
  ASSUME TypeOK, NEW c \in Cmds, NEW op, NEW j \in JobRec, Start(c, op, j)
  PROVE  job' \in [Cmds -> JobRec]
BY DEF TypeOK, Start

\* A message, an edit and a /retry all spawn a well-formed run.
LEMMA SpawnType ==
  ASSUME TypeOK, NEW r \in Run, NEW q \in 0 .. N, NEW e \in 0 .. N,
         Spawn(r, q, e)
  PROVE  TypeOK'
<1>1. [IdleRun EXCEPT !.pc = "spawned", !.q = q, !.edits = e] \in RunRec
  BY NullRecords DEF RunRec, Pc
<1>2. run' \in [Run -> RunRec]
  BY <1>1 DEF TypeOK, Spawn
<1>3. QED BY <1>2 DEF TypeOK, Spawn, tables, backend, ledger

\* The state of a new database.
LEMMA TypeInit == Init => TypeOK
<1> SUFFICES ASSUME Init PROVE TypeOK
  OBVIOUS
<1>1. /\ run \in [Run -> RunRec]
      /\ row \in [Run -> Row]
      /\ job \in [Cmds -> JobRec]
  BY NullRecords DEF Init
<1>2. sess \in [Run -> SessRec]
  BY ConversationAssumption DEF Init, SessRec, NoSession, Node
<1>3. branch \in [Node -> SUBSET Node]
  BY DEF Init
<1>4. /\ reg \in 0 .. N
      /\ clock \in 0 .. N
      /\ crashes \in 0 .. MaxCrashes
  <2>1. reg = 0 /\ clock = 0 /\ crashes = 0
    BY Zenon DEF Init
  <2>2. QED BY <2>1, ConversationAssumption
<1>5. /\ compact \in BOOLEAN
      /\ seeded = {} /\ room = {} /\ deleted = {} /\ rewound = {} /\ cut = {}
      /\ removed = {}
  BY Zenon DEF Init
<1>6. QED BY <1>1, <1>2, <1>3, <1>4, <1>5 DEF TypeOK

\* Every action keeps every variable in its set.
LEMMA TypeStep == TypeOK /\ [Next]_vars => TypeOK'
<1> SUFFICES ASSUME TypeOK, [Next]_vars PROVE TypeOK'
  OBVIOUS
<1> USE ConversationAssumption
<1>1. ASSUME NEW r \in Run, OnMessage(r) PROVE TypeOK'
  BY <1>1, SpawnType DEF OnMessage, Run
<1>2. ASSUME NEW r \in Run, NEW o \in Run, OnEdit(r, o) PROVE TypeOK'
  BY <1>2, SpawnType DEF OnEdit, Run
<1>3. ASSUME NEW r \in Run, CommandRetry(r) PROVE TypeOK'
  BY <1>3, SpawnType DEF CommandRetry, Run, LastTurn
<1>4. ASSUME NEW r \in Run, Register(r) PROVE TypeOK'
  <2>1. run' \in [Run -> RunRec]
    BY <1>4, FieldTypes DEF TypeOK, Pc, Register
  <2>2. reg' \in 0 .. N
    BY <1>4 DEF TypeOK, Run, Register
  <2>3. QED
    BY <1>4, <2>1, <2>2 DEF TypeOK, Register, tables, backend, ledger
<1>5. ASSUME NEW r \in Run, GiveUp(r) PROVE TypeOK'
  <2>1. run' \in [Run -> RunRec]
    BY <1>5, FieldTypes DEF TypeOK, Pc, GiveUp
  <2>2. QED
    BY <1>5, <2>1 DEF TypeOK, GiveUp, tables, backend, ledger
<1>6. ASSUME NEW r \in Run, Continue(r) PROVE TypeOK'
  <2>1. sess[LiveSession].tip \in Node
    BY <1>6, LiveSessionType DEF TypeOK, Live, SessRec, Continue
  <2>2. /\ run[r] \in RunRec
        /\ [run[r] EXCEPT !.pc = "begin",
                          !.held = LiveSession,
                          !.from = sess[LiveSession].tip] \in RunRec
    BY <1>6, <2>1, RunUpdates, LiveSessionType DEF TypeOK, Pc
  <2>3. run' \in [Run -> RunRec]
    BY <1>6, <2>1, <2>2 DEF TypeOK, Continue
  <2>4. QED
    BY <1>6, <2>1, <2>2, <2>3 DEF TypeOK, Continue, tables, backend, ledger
<1>7. ASSUME NEW r \in Run, MustRotate(r) PROVE TypeOK'
  <2>1. /\ run[r] \in RunRec
        /\ [run[r] EXCEPT !.pc = "rotate", !.held = LiveSession] \in RunRec
    BY <1>7, RunUpdates, LiveSessionType DEF TypeOK, Pc
  <2>2. run' \in [Run -> RunRec]
    BY <1>7, <2>1 DEF TypeOK, MustRotate
  <2>3. QED
    BY <1>7, <2>1, <2>2, SMTT(30) DEF TypeOK, MustRotate, tables, backend, ledger
<1>8. ASSUME NEW r \in Run, NoLiveSession(r) PROVE TypeOK'
  <2>1. run' \in [Run -> RunRec]
    BY <1>8, FieldTypes DEF TypeOK, Pc, Step, NoLiveSession
  <2>2. QED
    BY <1>8, <2>1 DEF TypeOK, NoLiveSession, Step, tables, backend, ledger
<1>9. ASSUME NEW r \in Run, Rotate(r) PROVE TypeOK'
  <2>1. run' \in [Run -> RunRec]
    BY <1>9, FieldTypes DEF TypeOK, Pc, Step, Rotate
  <2>2. sess' \in [Run -> SessRec]
    BY <1>9, StoreType DEF TypeOK, RunRec, Rotate
  <2>3. QED
    BY <1>9, <2>1, <2>2 DEF TypeOK, Rotate, Step, tables, backend, ledger
<1>10. ASSUME NEW r \in Run, NewConversation(r) PROVE TypeOK'
  <2>1. \/ Step(r, "seed", "create")
         \/ Step(r, "seed", "finish")
    BY <1>10 DEF NewConversation
  <2>2. run' \in [Run -> RunRec]
    BY <1>10, <2>1, StepType DEF Pc
  <2>3. compact' \in BOOLEAN /\ seeded' \in SUBSET Run
    BY <1>10 DEF TypeOK, NewConversation
  <2>4. QED
    BY <1>10, <2>1, <2>2, <2>3 DEF TypeOK, NewConversation, Step, tables,
       backend, ledger
<1>11. ASSUME NEW r \in Run, CreateSession(r) PROVE TypeOK'
  <2>1. 0 \in Node
    BY <1>11, SMTT(30) DEF Node, CreateSession
  <2>2. /\ run[r] \in RunRec
        /\ [run[r] EXCEPT !.pc = "begin", !.held = r, !.from = 0] \in RunRec
    BY <1>11, <2>1, RunUpdates, RunNumbers DEF TypeOK, Pc
  <2>3. \/ run' = [run EXCEPT ![r].pc = "finish"]
         \/ run' = [run EXCEPT ![r] = [@ EXCEPT !.pc = "begin",
                                            !.held = r, !.from = 0]]
    BY <1>11 DEF CreateSession
  <2>4. run' \in [Run -> RunRec]
    BY <1>11, <2>1, <2>2, <2>3, FieldTypes DEF TypeOK, Pc
  <2>5. [NoSession EXCEPT !.st = "live"] \in SessRec
    BY <1>11 DEF SessRec, NoSession, Node, CreateSession
  <2>6. sess' \in [Run -> SessRec]
    BY <1>11, <2>1, <2>2, <2>3, <2>4, <2>5 DEF TypeOK, CreateSession
  <2>7. QED
    BY <1>11, <2>1, <2>2, <2>3, <2>4, <2>5, <2>6 DEF TypeOK, CreateSession,
       tables, backend, ledger
<1>12. ASSUME NEW r \in Run, BeginSend(r) PROVE TypeOK'
  <2>1. ParentToSend(r) \in Node
    BY <1>12, SMTT(30) DEF TypeOK, ParentToSend, Row, RunRec, Run, BeginSend
  <2>2. /\ run[r] \in RunRec
        /\ [run[r] EXCEPT !.pc = "sending",
                          !.from = ParentToSend(r)] \in RunRec
    BY <1>12, <2>1, RunUpdates DEF TypeOK, Pc
  <2>3. run' \in [Run -> RunRec]
    BY <1>12, <2>1, <2>2 DEF TypeOK, BeginSend
  <2>4. QED
    BY <1>12, <2>1, <2>2, <2>3 DEF TypeOK, BeginSend, tables, backend, ledger
<1>13. ASSUME NEW r \in Run, SendReturns(r) PROVE TypeOK'
  <2>1. run' \in [Run -> RunRec]
    BY <1>13, FieldTypes DEF TypeOK, Pc, Step, SendReturns
  <2>2. Stored(run[r].from, run[r].held) \in SUBSET Node
    BY <1>13 DEF TypeOK, Stored, RunRec, SendReturns
  <2>3. branch' \in [Node -> SUBSET Node]
    BY <1>13, <2>1, <2>2 DEF TypeOK, Run, Node, SendReturns
  <2>4. QED
    BY <1>13, <2>1, <2>2, <2>3 DEF TypeOK, SendReturns, Step, tables, backend,
       ledger
<1>14. ASSUME NEW r \in Run, SendFails(r) PROVE TypeOK'
  <2>1. run' \in [Run -> RunRec]
    BY <1>14, FieldTypes DEF TypeOK, Pc, Step, SendFails
  <2>2. QED
    BY <1>14, <2>1 DEF TypeOK, SendFails, Step, tables, backend, ledger
<1>15. ASSUME NEW r \in Run, PostAnswer(r) PROVE TypeOK'
  <2>1. run' \in [Run -> RunRec]
    BY <1>15, FieldTypes DEF TypeOK, Pc, Step, PostAnswer
  <2>2. room' \in SUBSET Run
    BY <1>15 DEF TypeOK, PostAnswer
  <2>3. QED
    BY <1>15, <2>1, <2>2 DEF TypeOK, PostAnswer, Step, tables, backend,
       ledger
<1>16. ASSUME NEW r \in Run, PostFails(r) PROVE TypeOK'
  <2>1. run' \in [Run -> RunRec]
    BY <1>16, FieldTypes DEF TypeOK, Pc, Step, PostFails
  <2>2. room' \in SUBSET Run
    BY <1>16 DEF TypeOK, PostFails
  <2>3. QED
    BY <1>16, <2>1, <2>2 DEF TypeOK, PostFails, Step, tables, backend, ledger
<1>17. ASSUME NEW r \in Run, Advance(r) PROVE TypeOK'
  <2>1. run' \in [Run -> RunRec]
    BY <1>17, FieldTypes DEF TypeOK, Pc, Step, Advance
  <2>2. run[r].held \in 0 .. N /\ r \in Node
    BY <1>17, RunNumbers DEF TypeOK, RunRec, Advance
  <2>3. sess' \in [Run -> SessRec]
    BY <1>17, <2>1, <2>2, StoreType DEF Advance
  <2>4. QED
    BY <1>17, <2>1, <2>2, <2>3 DEF TypeOK, Advance, Step, tables, backend,
       ledger
<1>18. ASSUME NEW r \in Run, Record(r) PROVE TypeOK'
  <2>1. /\ run[r] \in RunRec
        /\ [run[r] EXCEPT !.pc = "finish", !.recorded = TRUE] \in RunRec
    BY <1>18, RunUpdates DEF TypeOK, Pc
  <2>2. run' \in [Run -> RunRec]
    BY <1>18, <2>1 DEF TypeOK, Record
  <2>3. row' \in [Run -> Row]
    BY <1>18, StoreType DEF Record
  <2>4. clock' \in 0 .. N
    BY <1>18, Counters DEF TypeOK, Record
  <2>5. QED
    BY <1>18, <2>1, <2>2, <2>3, <2>4 DEF TypeOK, Record, tables, backend,
       ledger
<1>19. ASSUME NEW r \in Run, Finish(r) PROVE TypeOK'
  <2>1. run' \in [Run -> RunRec]
    BY <1>19, FieldTypes DEF TypeOK, Pc, Step, Finish
  <2>2. reg' \in 0 .. N
    BY <1>19 DEF TypeOK, Finish
  <2>3. QED
    BY <1>19, <2>1, <2>2 DEF TypeOK, Finish, Step, tables, backend, ledger
<1>20. ASSUME CommandStop PROVE TypeOK'
  <2>1. run' \in [Run -> RunRec]
    BY <1>20, FieldTypes DEF TypeOK, Pc, CancelRegistered, CommandStop
  <2>2. reg' \in 0 .. N
    BY <1>20 DEF CancelRegistered, CommandStop
  <2>3. QED
    BY <1>20, <2>1, <2>2 DEF TypeOK, CommandStop, tables, backend, ledger
<1>21. ASSUME NEW q \in Run, OnRedactionCancel(q) PROVE TypeOK'
  <2>1. run' \in [Run -> RunRec]
    BY <1>21, FieldTypes DEF TypeOK, Pc, CancelRegistered, OnRedactionCancel
  <2>2. reg' \in 0 .. N /\ deleted' \in SUBSET (0 .. N)
    BY <1>21, RunNumbers DEF TypeOK, CancelRegistered, OnRedactionCancel
  <2>3. QED
    BY <1>21, <2>1, <2>2 DEF TypeOK, OnRedactionCancel, tables, backend,
       ledger
<1>22. ASSUME NEW c \in Cmds, CommandNew(c) PROVE TypeOK'
  <2>1. [IdleJob EXCEPT !.at = "new", !.s = LiveSession] \in JobRec
    BY <1>22, NullRecords, LiveSessionType DEF JobRec, CommandNew
  <2>2. job' \in [Cmds -> JobRec]
    BY <1>22, <2>1, StartType, NullRecords DEF CommandNew
  <2>3. QED
    BY <1>22, <2>1, <2>2 DEF TypeOK, CommandNew, tables, backend, ledger
<1>23. ASSUME NEW c \in Cmds, CommandUndo(c) PROVE TypeOK'
  <2>1. [IdleJob EXCEPT !.at = "undo last", !.s = LiveSession] \in JobRec
    BY <1>23, NullRecords, LiveSessionType DEF JobRec, CommandUndo
  <2>2. job' \in [Cmds -> JobRec]
    BY <1>23, <2>1, StartType, NullRecords DEF CommandUndo
  <2>3. QED
    BY <1>23, <2>1, <2>2 DEF TypeOK, CommandUndo, tables, backend, ledger
<1>24. ASSUME NEW c \in Cmds, CommandCompact(c) PROVE TypeOK'
  <2>1. [IdleJob EXCEPT !.at = "compact", !.s = LiveSession] \in JobRec
    BY <1>24, NullRecords, LiveSessionType DEF JobRec, CommandCompact
  <2>2. job' \in [Cmds -> JobRec]
    BY <1>24, <2>1, StartType, NullRecords DEF CommandCompact
  <2>3. QED
    BY <1>24, <2>1, <2>2 DEF TypeOK, CommandCompact, tables, backend, ledger
<1>25. ASSUME NEW c \in Cmds, CommandPurge(c) PROVE TypeOK'
  <2>1. [IdleJob EXCEPT !.at = "purge"] \in JobRec
    BY <1>25, NullRecords, LiveSessionType DEF JobRec, CommandPurge
  <2>2. job' \in [Cmds -> JobRec]
    BY <1>25, <2>1, StartType, NullRecords DEF CommandPurge
  <2>3. QED
    BY <1>25, <2>1, <2>2 DEF TypeOK, CommandPurge, tables, backend, ledger
<1>26. ASSUME NEW c \in Cmds, NEW q \in Run, OnRedactionUndo(c, q) PROVE TypeOK'
  <2>1. row[q] \in Row
    BY <1>26 DEF TypeOK, OnRedactionUndo
  <2>2. [IdleJob EXCEPT !.at = "taken back",
                        !.q = q, !.row = row[q]] \in JobRec
    BY <1>26, <2>1, NullRecords, RunNumbers DEF JobRec, OnRedactionUndo
  <2>3. job' \in [Cmds -> JobRec]
    BY <1>26, <2>1, <2>2, StartType, NullRecords DEF OnRedactionUndo
  <2>4. deleted' \in SUBSET (0 .. N) /\ room' \in SUBSET Run
    BY <1>26, RunNumbers DEF TypeOK, OnRedactionUndo
  <2>5. QED
    BY <1>26, <2>1, <2>2, <2>3, <2>4 DEF TypeOK, OnRedactionUndo, tables,
       backend, ledger
<1>27. ASSUME NEW c \in Cmds, NEW t \in Run, CommandResume(c, t) PROVE TypeOK'
  <2>1. [IdleJob EXCEPT !.at = "resume", !.t = t] \in JobRec
    BY <1>27, NullRecords, RunNumbers DEF JobRec, CommandResume
  <2>2. job' \in [Cmds -> JobRec]
    BY <1>27, <2>1, StartType DEF CommandResume
  <2>3. QED
    BY <1>27, <2>1, <2>2 DEF TypeOK, CommandResume, tables, backend, ledger
<1>28. ASSUME NEW c \in Cmds, NewClose(c) PROVE TypeOK'
  <2>1. job' \in [Cmds -> JobRec]
    BY <1>28, JobStepType DEF JobRec, NewClose
  <2>2. sess' \in [Run -> SessRec]
    BY <1>28, StoreType DEF TypeOK, JobRec, NewClose
  <2>3. QED
    BY <1>28, <2>1, <2>2 DEF TypeOK, NewClose, JobStep, tables, backend,
       ledger
<1>29. ASSUME NEW c \in Cmds, UndoReadLast(c) PROVE TypeOK'
  <2>1. \A q \in LastTurn : q \in 0 .. N /\ row[q] \in Row
    BY <1>29, RunNumbers DEF TypeOK, LastTurn
  <2>2. \A q \in LastTurn :
         [job[c] EXCEPT !.at = "undo backend",
                        !.q = q, !.row = row[q]] \in JobRec
    BY <1>29, <2>1 DEF TypeOK, JobRec
  <2>3. job' \in [Cmds -> JobRec]
    BY <1>29, <2>1, <2>2, NullRecords DEF TypeOK, JobStep, UndoReadLast
  <2>4. QED
    BY <1>29, <2>1, <2>2, <2>3 DEF TypeOK, UndoReadLast, tables, backend,
       ledger
<1>30. ASSUME NEW c \in Cmds, UndoRewind(c) PROVE TypeOK'
  <2>1. job' \in [Cmds -> JobRec]
    BY <1>30, JobStepType DEF JobRec, UndoRewind
  <2>2. /\ job[c].row.parent \in Node
        /\ job[c].row.sess \in 0 .. N
        /\ job[c].s \in 0 .. N
        /\ job[c].row.answer \in 0 .. N
    BY <1>30 DEF TypeOK, JobRec, Row, UndoRewind
  <2>3. sess' \in [Run -> SessRec] /\ rewound' \in SUBSET (0 .. N)
    BY <1>30, <2>1, <2>2, StoreType DEF TypeOK, Rewind, UndoRewind
  <2>4. QED
    BY <1>30, <2>1, <2>2, <2>3 DEF TypeOK, UndoRewind, JobStep, tables,
       backend, ledger
<1>31. ASSUME NEW c \in Cmds, UndoForget(c) PROVE TypeOK'
  <2>1. job' \in [Cmds -> JobRec]
    BY <1>31, JobStepType DEF JobRec, UndoForget
  <2>2. row' \in [Run -> Row]
    BY <1>31, NullRecords DEF TypeOK, UndoForget
  <2>3. QED
    BY <1>31, <2>1, <2>2 DEF TypeOK, UndoForget, tables, backend, ledger
<1>32. ASSUME NEW c \in Cmds, UndoRedact(c) PROVE TypeOK'
  <2>1. job' \in [Cmds -> JobRec]
    BY <1>32, JobStepType DEF JobRec, UndoRedact
  <2>2. job[c].q \in 0 .. N
    BY <1>32 DEF TypeOK, JobRec, UndoRedact
  <2>3. room' \in SUBSET Run /\ deleted' \in SUBSET (0 .. N)
    BY <1>32, <2>1, <2>2 DEF TypeOK, UndoRedact
  <2>4. QED
    BY <1>32, <2>1, <2>2, <2>3 DEF TypeOK, UndoRedact, tables, backend,
       ledger
<1>33. ASSUME NEW c \in Cmds, TakenBackReadLast(c) PROVE TypeOK'
  <2>1. job' \in [Cmds -> JobRec]
    BY <1>33, JobStepType DEF JobRec, TakenBackReadLast
  <2>2. QED
    BY <1>33, <2>1 DEF TypeOK, TakenBackReadLast, tables, backend, ledger
<1>34. ASSUME NEW c \in Cmds, TakenBackRewind(c) PROVE TypeOK'
  <2>1. job' \in [Cmds -> JobRec]
    BY <1>34, JobStepType DEF JobRec, TakenBackRewind
  <2>2. /\ job[c].row.parent \in Node
        /\ job[c].row.sess \in 0 .. N
        /\ job[c].s \in 0 .. N
        /\ job[c].row.answer \in 0 .. N
    BY <1>34 DEF TypeOK, JobRec, Row, TakenBackRewind
  <2>3. sess' \in [Run -> SessRec] /\ rewound' \in SUBSET (0 .. N)
    BY <1>34, <2>1, <2>2, StoreType DEF TypeOK, Rewind, TakenBackRewind
  <2>4. QED
    BY <1>34, <2>1, <2>2, <2>3 DEF TypeOK, TakenBackRewind, tables, backend,
       ledger
<1>35. ASSUME NEW c \in Cmds, TakenBackForget(c) PROVE TypeOK'
  <2>1. job' \in [Cmds -> JobRec]
    BY <1>35, JobStepType DEF JobRec, TakenBackForget
  <2>2. row' \in [Run -> Row]
    BY <1>35, NullRecords DEF TypeOK, TakenBackForget
  <2>3. QED
    BY <1>35, <2>1, <2>2 DEF TypeOK, TakenBackForget, tables, backend, ledger
<1>36. ASSUME NEW c \in Cmds, CompactClose(c) PROVE TypeOK'
  <2>1. job' \in [Cmds -> JobRec]
    BY <1>36, JobStepType DEF JobRec, CompactClose
  <2>2. sess' \in [Run -> SessRec]
    BY <1>36, StoreType DEF TypeOK, JobRec, CompactClose
  <2>3. QED
    BY <1>36, <2>1, <2>2 DEF TypeOK, CompactClose, tables, backend, ledger
<1>37. ASSUME NEW c \in Cmds, CompactMark(c) PROVE TypeOK'
  <2>1. job' \in [Cmds -> JobRec]
    BY <1>37, JobStepType DEF JobRec, CompactMark
  <2>2. compact' \in BOOLEAN
    BY <1>37 DEF CompactMark
  <2>3. QED
    BY <1>37, <2>1, <2>2 DEF TypeOK, CompactMark, tables, backend, ledger
<1>38. ASSUME NEW c \in Cmds, ResumeReadLive(c) PROVE TypeOK'
  <2>1. [job[c] EXCEPT !.at = "resume reopen"] \in JobRec
    BY <1>38 DEF TypeOK, JobRec, ResumeReadLive
  <2>2. [job[c] EXCEPT !.at = "resume close", !.s = LiveSession] \in JobRec
    BY <1>38, LiveSessionType DEF TypeOK, JobRec, ResumeReadLive
  <2>3. job' \in [Cmds -> JobRec]
    BY <1>38, <2>1, <2>2 DEF TypeOK, ResumeReadLive
  <2>4. QED
    BY <1>38, <2>1, <2>2, <2>3 DEF TypeOK, ResumeReadLive, tables, backend,
       ledger
<1>39. ASSUME NEW c \in Cmds, ResumeClose(c) PROVE TypeOK'
  <2>1. job' \in [Cmds -> JobRec]
    BY <1>39, JobStepType DEF JobRec, ResumeClose
  <2>2. sess' \in [Run -> SessRec]
    BY <1>39, StoreType DEF TypeOK, JobRec, ResumeClose
  <2>3. QED
    BY <1>39, <2>1, <2>2 DEF TypeOK, ResumeClose, tables, backend, ledger
<1>40. ASSUME NEW c \in Cmds, ResumeReopen(c) PROVE TypeOK'
  <2>1. job' \in [Cmds -> JobRec]
    BY <1>40, JobStepType DEF JobRec, ResumeReopen
  <2>2. sess' \in [Run -> SessRec]
    BY <1>40, StoreType DEF TypeOK, JobRec, ResumeReopen
  <2>3. QED
    BY <1>40, <2>1, <2>2 DEF TypeOK, ResumeReopen, tables, backend, ledger
<1>41. ASSUME NEW c \in Cmds, PurgeRoom(c) PROVE TypeOK'
  <2>1. job' \in [Cmds -> JobRec]
    BY <1>41, JobStepType DEF JobRec, PurgeRoom
  <2>2. room' \in SUBSET Run /\ deleted' \in SUBSET (0 .. N)
    BY <1>41, RunNumbers DEF TypeOK, PurgeRoom
  <2>3. QED
    BY <1>41, <2>1, <2>2 DEF TypeOK, PurgeRoom, tables, backend, ledger
<1>42. ASSUME NEW c \in Cmds, PurgeForget(c) PROVE TypeOK'
  <2>1. job' \in [Cmds -> JobRec]
    BY <1>42, JobStepType DEF JobRec, PurgeForget
  <2>2. sess' \in [Run -> SessRec]
    BY <1>42 DEF TypeOK, SessRec, PurgeForget
  <2>3. row' \in [Run -> Row]
    BY <1>42, NullRecords DEF TypeOK, PurgeForget
  <2>4. compact' \in BOOLEAN
    BY <1>42 DEF PurgeForget
  <2>5. QED
    BY <1>42, <2>1, <2>2, <2>3, <2>4 DEF TypeOK, PurgeForget, tables, backend,
       ledger
<1>43. ASSUME Crash PROVE TypeOK'
  <2>1. run' \in [Run -> RunRec]
    BY <1>43, FieldTypes DEF TypeOK, Pc, Crash
  <2>2. reg' = 0 /\ crashes' = crashes + 1 /\ crashes < MaxCrashes
    BY <1>43, Zenon DEF Crash
  <2>3. reg' \in 0 .. N /\ crashes' \in 0 .. MaxCrashes
    BY <1>43, <2>2 DEF TypeOK
  <2>4. job' \in [Cmds -> JobRec]
    BY <1>43, NullRecords DEF Crash
  <2>5. cut' \in SUBSET (0 .. N)
    BY <1>43, RunNumbers DEF TypeOK, Crash
  <2>6. QED
    BY <1>43, <2>1, <2>2, <2>3, <2>4, <2>5 DEF TypeOK, Crash, tables, backend,
       ledger
<1>44. ASSUME NEW c \in Cmds, UndoBackend(c) \/ TakenBackBackend(c)
       PROVE  TypeOK'
  <2>1. /\ \/ JobStep(c, "undo backend", "undo rewind")
           \/ JobStep(c, "taken back", "idle")
           \/ JobStep(c, "taken back", "taken back last")
        /\ UNCHANGED <<run, reg, room, tables, seeded, branch, ledger>>
    BY <1>44 DEF UndoBackend, TakenBackBackend
  <2>2. job' \in [Cmds -> JobRec]
    BY <2>1, JobStepType DEF JobRec
  <2>3. job[c].row.answer \in 0 .. N
    BY DEF TypeOK, JobRec, Row
  <2>4. removed' \in SUBSET (0 .. N)
    BY <1>44, <2>3 DEF TypeOK, UndoBackend, TakenBackBackend, BackendUndo
  <2>5. QED
    BY <2>1, <2>2, <2>4 DEF TypeOK, tables, ledger
<1>45. CASE UNCHANGED vars
  BY <1>45 DEF TypeOK, vars
<1>46. QED
  BY <1>1, <1>2, <1>3, <1>4, <1>5, <1>6, <1>7, <1>8, <1>9, <1>10, <1>11,
     <1>12, <1>13, <1>14, <1>15, <1>16, <1>17, <1>18, <1>19, <1>20, <1>21,
     <1>22, <1>23, <1>24, <1>25, <1>26, <1>27, <1>28, <1>29, <1>30, <1>31,
     <1>32, <1>33, <1>34, <1>35, <1>36, <1>37, <1>38, <1>39, <1>40, <1>41,
     <1>42, <1>43, <1>44, <1>45
  DEF Next, OwnerNext, TurnStep, JobNext

\* Every variable stays in its set, in every behaviour.
THEOREM TypeCorrect == Spec => []TypeOK
BY TypeInit, TypeStep, PTL DEF Spec

-----------------------------------------------------------------------------
(* One live conversation.                                                  *)

\* The root of a history is a node.
LEMMA RootNode == 0 \in Node
BY ConversationAssumption DEF Node

\* A step that makes no session live keeps the slot at one live conversation.
LEMMA NoneMadeLive ==
  ASSUME OneLive,
         \A s \in Run : sess'[s].st = "live" => sess[s].st = "live"
  PROVE  OneLive'
BY DEF OneLive, Live

\* No statement of the store makes a session live but the two that are guarded.
LEMMA StoreLive ==
  ASSUME TypeOK, NEW s \in 0 .. N, NEW n \in Node, NEW t \in Run
  PROVE  /\ CloseSession(s)[t].st = "live" => sess[t].st = "live"
         /\ AdvanceSession(s, n)[t].st = "live" => sess[t].st = "live"
         /\ RewindSession(s, n)[t].st = "live" => sess[t].st = "live"
         /\ ReopenSession(s)[t].st = "live" => t = s \/ sess[t].st = "live"
<1>1. CloseSession(s)[t].st = "live" => sess[t].st = "live"
  BY DEF TypeOK, CloseSession, SessRec
<1>2. AdvanceSession(s, n)[t].st = "live" => sess[t].st = "live"
  BY DEF TypeOK, AdvanceSession, SessRec
<1>3. RewindSession(s, n)[t].st = "live" => sess[t].st = "live"
  BY DEF TypeOK, RewindSession, SessRec
<1>4. ReopenSession(s)[t].st = "live" => t = s \/ sess[t].st = "live"
  BY DEF TypeOK, ReopenSession, SessRec
<1>5. QED BY <1>1, <1>2, <1>3, <1>4

\* TypeOK /\ OneLive is inductive: only CreateSession and ResumeReopen make a
\* session live, and the unique index guards both.
LEMMA OneLiveStep == TypeOK /\ OneLive /\ [Next]_vars => OneLive'
<1> SUFFICES ASSUME TypeOK, OneLive, [Next]_vars PROVE OneLive'
  OBVIOUS
<1>1. CASE sess' = sess
  BY <1>1, NoneMadeLive
<1>2. ASSUME NEW r \in Run, Rotate(r) PROVE OneLive'
  <2>1. run[r].held \in 0 .. N
    BY DEF TypeOK, RunRec
  <2>3. CASE run[r].stop
    BY <1>1, <1>2, <2>3 DEF Rotate
  <2>4. CASE ~run[r].stop
    <3>1. sess' = CloseSession(run[r].held)
      BY <1>2, <2>4 DEF Rotate
    <3>2. QED BY <2>1, <3>1, RootNode, StoreLive, NoneMadeLive
  <2>5. QED BY <2>3, <2>4
<1>3. ASSUME NEW r \in Run, CreateSession(r) PROVE OneLive'
  <2>1. CASE SlotTaken(r)
    BY <1>1, <1>3, <2>1 DEF CreateSession
  <2>2. CASE ~SlotTaken(r)
    <3>1. \A t \in Run \ {r} : sess'[t].st # "live"
      BY <1>3, <2>2 DEF CreateSession, SlotTaken, TypeOK
    <3>2. QED BY <3>1 DEF OneLive, Live
  <2>3. QED BY <2>1, <2>2
<1>4. ASSUME NEW r \in Run, Advance(r) PROVE OneLive'
  <2>1. run[r].held \in 0 .. N /\ r \in Node
    BY RunNumbers DEF TypeOK, RunRec
  <2>2. sess' = AdvanceSession(run[r].held, r)
    BY <1>4 DEF Advance
  <2>3. QED BY <2>1, <2>2, StoreLive, NoneMadeLive
<1>5. ASSUME NEW c \in Cmds, NewClose(c) \/ CompactClose(c) \/ ResumeClose(c)
      PROVE  OneLive'
  <2>1. job[c].s \in 0 .. N
    BY DEF TypeOK, JobRec
  <2>2. sess' = CloseSession(job[c].s)
    BY <1>5 DEF NewClose, CompactClose, ResumeClose
  <2>3. QED BY <2>1, <2>2, RootNode, StoreLive, NoneMadeLive
<1>6. ASSUME NEW c \in Cmds, UndoRewind(c) \/ TakenBackRewind(c)
      PROVE  OneLive'
  <2>1. /\ job[c].row.parent \in Node
        /\ job[c].s \in 0 .. N /\ job[c].row.sess \in 0 .. N
    BY DEF TypeOK, JobRec, Row
  <2>2. \E s \in 0 .. N : sess' = RewindSession(s, job[c].row.parent)
    BY <1>6, <2>1 DEF UndoRewind, TakenBackRewind, Rewind
  <2>3. QED BY <2>1, <2>2, StoreLive, NoneMadeLive
<1>7. ASSUME NEW c \in Cmds, ResumeReopen(c) PROVE OneLive'
  <2>1. CASE SlotTaken(job[c].t)
    BY <1>1, <1>7, <2>1 DEF ResumeReopen
  <2>2. CASE ~SlotTaken(job[c].t)
    <3>1. sess' = ReopenSession(job[c].t)
      BY <1>7, <2>2 DEF ResumeReopen
    <3>2. job[c].t \in 0 .. N
      BY DEF TypeOK, JobRec
    <3>3. \A t \in Run \ {job[c].t} : sess'[t].st # "live"
      BY <2>2, <3>1, <3>2, RootNode, StoreLive DEF SlotTaken
    <3>4. QED BY <3>3 DEF OneLive, Live
  <2>3. QED BY <2>1, <2>2
<1>8. ASSUME NEW c \in Cmds, PurgeForget(c) PROVE OneLive'
  <2>1. \A t \in Run : sess'[t].st = "live" => sess[t].st = "live"
    BY <1>8 DEF PurgeForget, Exists, TypeOK, SessRec
  <2>2. QED BY <2>1, NoneMadeLive
<1>9. ASSUME NEW r \in Run,
             \/ OnMessage(r) \/ CommandRetry(r) \/ \E o \in Run : OnEdit(r, o)
             \/ OnRedactionCancel(r)
             \/ Register(r) \/ GiveUp(r) \/ Continue(r) \/ MustRotate(r)
             \/ NoLiveSession(r) \/ NewConversation(r) \/ BeginSend(r)
             \/ SendReturns(r) \/ SendFails(r) \/ PostAnswer(r)
             \/ PostFails(r) \/ Record(r) \/ Finish(r)
      PROVE  sess' = sess
  BY <1>9, Zenon
  DEF OnMessage, CommandRetry, OnEdit, Spawn, OnRedactionCancel, Register,
      GiveUp, Continue, MustRotate, NoLiveSession, NewConversation, BeginSend,
      SendReturns, SendFails, PostAnswer, PostFails, Record, Finish, tables
<1>10. ASSUME NEW c \in Cmds,
              \/ CommandNew(c) \/ CommandUndo(c) \/ CommandCompact(c)
              \/ CommandPurge(c) \/ \E q \in Run : OnRedactionUndo(c, q)
              \/ \E t \in Run : CommandResume(c, t)
              \/ UndoReadLast(c) \/ UndoBackend(c) \/ UndoForget(c)
              \/ UndoRedact(c) \/ TakenBackBackend(c) \/ TakenBackReadLast(c) \/ TakenBackForget(c) \/ CompactMark(c)
              \/ ResumeReadLive(c) \/ PurgeRoom(c)
       PROVE  sess' = sess
  BY <1>10, Zenon
  DEF CommandNew, CommandUndo, CommandCompact, CommandPurge, OnRedactionUndo,
      CommandResume, UndoReadLast, UndoBackend, UndoForget, UndoRedact,
      TakenBackBackend, TakenBackReadLast, TakenBackForget, CompactMark, ResumeReadLive, PurgeRoom, tables
<1>11. ASSUME CommandStop \/ Crash \/ UNCHANGED vars PROVE sess' = sess
  BY <1>11, Zenon DEF CommandStop, Crash, tables, vars
<1>12. QED
  BY <1>1, <1>2, <1>3, <1>4, <1>5, <1>6, <1>7, <1>8, <1>9, <1>10, <1>11
  DEF Next, OwnerNext, TurnStep, JobNext

\* However runs, commands and crashes interleave, the slot never has two live
\* conversations, so that LiveSession reads the only one there is.
THEOREM OneLiveAlways == Spec => []OneLive
<1>1. Init => OneLive
  BY DEF Init, OneLive, Live, NoSession
<1>2. QED BY <1>1, TypeInit, TypeStep, OneLiveStep, PTL DEF Spec

-----------------------------------------------------------------------------
(* Whoever runs uncancelled is registered.                                 *)

\* A step that starts no run, and keeps the registry and what runs answer.
LEMMA Undisturbed ==
  ASSUME RegisteredUnlessRerun, reg' = reg,
         \A p \in Run :
           /\ Active(p)' => Active(p)
           /\ run'[p].q = run[p].q
           /\ run'[p].stop = run[p].stop
           /\ run[p].pc # "idle" => run'[p].pc # "idle"
  PROVE  RegisteredUnlessRerun'
BY DEF RegisteredUnlessRerun

\* A registered or cancelled run that goes on.
LEMMA RunMoves ==
  ASSUME TypeOK, RegisteredUnlessRerun, NEW r \in Run, Active(r), reg' = reg,
         NEW x, run' = [run EXCEPT ![r] = x],
         x.q = run[r].q, x.stop = run[r].stop, x.pc # "idle"
  PROVE  RegisteredUnlessRerun'
<1>1. \A p \in Run : run'[p] = IF p = r THEN x ELSE run[p]
  BY DEF TypeOK
<1>2. \A p \in Run : /\ Active(p)' => Active(p)
                     /\ run'[p].q = run[p].q
                     /\ run'[p].stop = run[p].stop
                     /\ run[p].pc # "idle" => run'[p].pc # "idle"
  BY <1>1 DEF Active
<1>3. QED BY <1>2, Undisturbed

\* The steps of handleTurn that change nothing of a run but where it is.
LEMMA RunSteps ==
  ASSUME TypeOK, RegisteredUnlessRerun, NEW r \in Run, reg' = reg,
         NEW from \in Running, NEW to \in Pc, to # "idle", Step(r, from, to)
  PROVE  RegisteredUnlessRerun'
<1>1. run[r] \in RunRec
  BY DEF TypeOK
<1>2. /\ run' = [run EXCEPT ![r] = [run[r] EXCEPT !.pc = to]]
      /\ Active(r)
  BY DEF TypeOK, Step, Active
<1>3. /\ [run[r] EXCEPT !.pc = to].q = run[r].q
      /\ [run[r] EXCEPT !.pc = to].stop = run[r].stop
      /\ [run[r] EXCEPT !.pc = to].pc # "idle"
  BY <1>1 DEF RunRec
<1>4. QED BY <1>2, <1>3, RunMoves

\* A new run is not registered before its first step.
LEMMA SpawnKeeps ==
  ASSUME TypeOK, RegisteredUnlessRerun, NEW r \in Run, NEW q, NEW e,
         Spawn(r, q, e)
  PROVE  RegisteredUnlessRerun'
<1>1. /\ reg' = reg
      /\ run[r].pc = "idle"
      /\ run' = [run EXCEPT ![r] = [IdleRun EXCEPT !.pc = "spawned",
                                                   !.q = q, !.edits = e]]
  BY DEF Spawn, Next1
<1>2. ~Active(r)'
  BY <1>1 DEF TypeOK, Active, IdleRun, Running
<1>3. \A p \in Run \ {r} : run'[p] = run[p]
  BY <1>1 DEF TypeOK
<1>4. QED BY <1>1, <1>2, <1>3 DEF RegisteredUnlessRerun, Active

\* /stop, or a deletion, cancels the registered run before it forgets it.
LEMMA CancelKeeps ==
  ASSUME TypeOK, RegisteredUnlessRerun, CancelRegistered
  PROVE  RegisteredUnlessRerun'
<1>1. \A p \in Run : run'[p] = IF p = reg THEN [run[p] EXCEPT !.stop = TRUE]
                               ELSE run[p]
  BY DEF TypeOK, CancelRegistered
<1>2. \A p \in Run : /\ run'[p].q = run[p].q
                     /\ run'[p].pc = run[p].pc
                     /\ p = reg => run'[p].stop
                     /\ p # reg => run'[p].stop = run[p].stop
  BY <1>1 DEF TypeOK, RunRec
<1>3. QED BY <1>2 DEF RegisteredUnlessRerun, Active

\* TypeOK /\ RegisteredUnlessRerun is inductive.
LEMMA RegisteredStep ==
  TypeOK /\ RegisteredUnlessRerun /\ [Next]_vars => RegisteredUnlessRerun'
<1> SUFFICES ASSUME TypeOK, RegisteredUnlessRerun, [Next]_vars
             PROVE  RegisteredUnlessRerun'
  OBVIOUS
<1>1. CASE UNCHANGED <<run, reg>>
  BY <1>1 DEF RegisteredUnlessRerun, Active
<1>2. ASSUME NEW r \in Run,
             OnMessage(r) \/ CommandRetry(r) \/ \E o \in Run : OnEdit(r, o)
      PROVE  RegisteredUnlessRerun'
  BY <1>2, SpawnKeeps DEF OnMessage, CommandRetry, OnEdit
<1>3. ASSUME CommandStop \/ \E q \in Run : OnRedactionCancel(q)
      PROVE  RegisteredUnlessRerun'
  BY <1>3, CancelKeeps DEF CommandStop, OnRedactionCancel
<1>4. ASSUME NEW r \in Run, Register(r) PROVE RegisteredUnlessRerun'
  <2>1. /\ reg' = r
        /\ run[r].pc = "spawned"
        /\ \A p \in Run :
             run'[p] = IF p = r THEN [run[p] EXCEPT !.pc = "lookup"]
                       ELSE IF p = reg THEN [run[p] EXCEPT !.stop = TRUE]
                       ELSE run[p]
    BY <1>4 DEF Register
  <2>2. \A p \in Run :
          /\ run'[p].q = run[p].q
          /\ p # r => /\ run'[p].pc = run[p].pc
                      /\ p = reg => run'[p].stop
                      /\ p # reg => run'[p].stop = run[p].stop
          /\ p = r => run'[p].pc = "lookup"
    BY <2>1 DEF TypeOK, RunRec
  <2>3. QED BY <2>1, <2>2 DEF RegisteredUnlessRerun, Active
<1>5. ASSUME NEW r \in Run, GiveUp(r) PROVE RegisteredUnlessRerun'
  BY <1>5, RunSteps DEF GiveUp, Step, Running, Pc
<1>6. ASSUME NEW r \in Run,
             \/ Continue(r) \/ MustRotate(r) \/ BeginSend(r) \/ Record(r)
      PROVE  RegisteredUnlessRerun'
  <2>1. run[r] \in RunRec
    BY DEF TypeOK
  <2>2. Active(r) /\ reg' = reg
    BY <1>6 DEF Continue, MustRotate, BeginSend, Record, Active, Running
  <2>3. CASE Continue(r)
    <3> DEFINE x == [run[r] EXCEPT !.pc = "begin", !.held = LiveSession,
                                   !.from = sess[LiveSession].tip]
    <3>1. run' = [run EXCEPT ![r] = x]
      BY <2>3 DEF Continue, TypeOK
    <3>2. x.q = run[r].q /\ x.stop = run[r].stop /\ x.pc # "idle"
      BY <2>1 DEF RunRec
    <3> HIDE DEF x
    <3>3. QED BY <2>2, <3>1, <3>2, RunMoves
  <2>4. CASE MustRotate(r)
    <3> DEFINE x == [run[r] EXCEPT !.pc = "rotate", !.held = LiveSession]
    <3>1. run' = [run EXCEPT ![r] = x]
      BY <2>4 DEF MustRotate, TypeOK
    <3>2. x.q = run[r].q /\ x.stop = run[r].stop /\ x.pc # "idle"
      BY <2>1 DEF RunRec
    <3> HIDE DEF x
    <3>3. QED BY <2>2, <3>1, <3>2, RunMoves
  <2>5. CASE BeginSend(r)
    <3> DEFINE x == [run[r] EXCEPT !.pc = "sending", !.from = ParentToSend(r)]
    <3>1. run' = [run EXCEPT ![r] = x]
      BY <2>5 DEF BeginSend, TypeOK
    <3>2. x.q = run[r].q /\ x.stop = run[r].stop /\ x.pc # "idle"
      BY <2>1 DEF RunRec
    <3> HIDE DEF x
    <3>3. QED BY <2>2, <3>1, <3>2, RunMoves
  <2>6. CASE Record(r)
    <3> DEFINE x == [run[r] EXCEPT !.pc = "finish", !.recorded = TRUE]
    <3>1. run' = [run EXCEPT ![r] = x]
      BY <2>6 DEF Record, TypeOK
    <3>2. x.q = run[r].q /\ x.stop = run[r].stop /\ x.pc # "idle"
      BY <2>1 DEF RunRec
    <3> HIDE DEF x
    <3>3. QED BY <2>2, <3>1, <3>2, RunMoves
  <2>7. QED BY <1>6, <2>3, <2>4, <2>5, <2>6
<1>7. ASSUME NEW r \in Run,
             \/ NoLiveSession(r) \/ Rotate(r) \/ SendReturns(r)
             \/ SendFails(r) \/ PostAnswer(r) \/ PostFails(r) \/ Advance(r)
      PROVE  RegisteredUnlessRerun'
  <2>1. /\ reg' = reg
        /\ \E from \in Running, to \in Pc \ {"idle"} : Step(r, from, to)
    BY <1>7 DEF NoLiveSession, Rotate, SendReturns, SendFails, PostAnswer,
                PostFails, Advance, Running, Pc
  <2>2. QED BY <2>1, RunSteps
<1>8. ASSUME NEW r \in Run, NewConversation(r) PROVE RegisteredUnlessRerun'
  <2>1. /\ reg' = reg
        /\ Step(r, "seed", "create") \/ Step(r, "seed", "finish")
    BY <1>8 DEF NewConversation
  <2>2. QED BY <2>1, RunSteps DEF Running, Pc
<1>9. ASSUME NEW r \in Run, CreateSession(r) PROVE RegisteredUnlessRerun'
  <2>1. run[r] \in RunRec
    BY DEF TypeOK
  <2>2. Active(r) /\ reg' = reg
    BY <1>9 DEF CreateSession, Active, Running
  <2>3. CASE SlotTaken(r)
    <3>1. Step(r, "create", "finish")
      BY <1>9, <2>3 DEF CreateSession, Step
    <3>2. QED BY <2>2, <3>1, RunSteps DEF Running, Pc
  <2>4. CASE ~SlotTaken(r)
    <3> DEFINE x == [run[r] EXCEPT !.pc = "begin", !.held = r, !.from = 0]
    <3>1. run' = [run EXCEPT ![r] = x]
      BY <1>9, <2>4 DEF CreateSession, TypeOK
    <3>2. x.q = run[r].q /\ x.stop = run[r].stop /\ x.pc # "idle"
      BY <2>1 DEF RunRec
    <3> HIDE DEF x
    <3>3. QED BY <2>2, <3>1, <3>2, RunMoves
  <2>5. QED BY <2>3, <2>4
<1>10. ASSUME NEW r \in Run, Finish(r) PROVE RegisteredUnlessRerun'
  <2>1. \A p \in Run : run'[p] = IF p = r THEN [run[p] EXCEPT !.pc = "done"]
                                 ELSE run[p]
    BY <1>10 DEF Finish, Step, TypeOK
  <2>2. \A p \in Run : /\ run'[p].q = run[p].q
                       /\ run'[p].stop = run[p].stop
                       /\ p # r => run'[p].pc = run[p].pc
                       /\ p = r => run'[p].pc = "done"
    BY <2>1 DEF TypeOK, RunRec
  <2>3. run[r].pc = "finish"
    BY <1>10 DEF Finish, Step
  <2>4. CASE \E p \in Run : reg = p /\ run[p].q = run[r].q
    <3>1. \A p \in Run : reg = p => run[p].q = run[r].q
      BY <2>4
    <3>2. QED BY <2>2, <2>3, <3>1 DEF RegisteredUnlessRerun, Active, Running
  <2>5. CASE ~\E p \in Run : reg = p /\ run[p].q = run[r].q
    <3>1. reg' = reg
      BY <1>10, <2>5 DEF Finish
    <3>2. QED BY <2>2, <2>3, <3>1 DEF RegisteredUnlessRerun, Active, Running
  <2>6. QED BY <2>4, <2>5
<1>11. ASSUME Crash PROVE RegisteredUnlessRerun'
  <2>1. \A p \in Run : run'[p] = IF run[p].pc = "spawned" \/ Active(p)
                                 THEN [run[p] EXCEPT !.pc = "dead"]
                                 ELSE run[p]
    BY <1>11 DEF Crash
  <2>2. \A p \in Run : ~Active(p)'
    BY <2>1 DEF TypeOK, RunRec, Active, Running
  <2>3. QED BY <2>2 DEF RegisteredUnlessRerun
<1>12. ASSUME NEW c \in Cmds,
              \/ CommandNew(c) \/ CommandUndo(c) \/ CommandCompact(c)
              \/ CommandPurge(c) \/ \E q \in Run : OnRedactionUndo(c, q)
              \/ \E t \in Run : CommandResume(c, t)
              \/ JobNext(c)
       PROVE  UNCHANGED <<run, reg>>
  BY <1>12, Zenon
  DEF CommandNew, CommandUndo, CommandCompact, CommandPurge, OnRedactionUndo,
      CommandResume, JobNext, NewClose, UndoReadLast, UndoBackend, UndoRewind,
      UndoForget, UndoRedact, TakenBackBackend, TakenBackReadLast, TakenBackRewind, TakenBackForget,
      CompactClose, CompactMark, ResumeReadLive, ResumeClose, ResumeReopen,
      PurgeRoom, PurgeForget
<1>13. ASSUME UNCHANGED vars PROVE UNCHANGED <<run, reg>>
  BY <1>13 DEF vars
<1>14. QED
  BY <1>1, <1>2, <1>3, <1>4, <1>5, <1>6, <1>7, <1>8, <1>9, <1>10, <1>11,
     <1>12, <1>13
  DEF Next, OwnerNext, TurnStep

\* A run that nobody has cancelled is the one the registry names, unless its
\* question has been asked again: /stop, a deletion and the next question
\* reach every other run for as long as it lives.
THEOREM RegisteredAlways == Spec => []RegisteredUnlessRerun
<1>1. Init => RegisteredUnlessRerun
  BY DEF Init, RegisteredUnlessRerun, Active, IdleRun, Running
<1>2. QED BY <1>1, TypeInit, TypeStep, RegisteredStep, PTL DEF Spec

-----------------------------------------------------------------------------
(* An answer in the room is on record.  What makes that inductive: a row   *)
(* lists an answer its question really got, a command that takes a turn    *)
(* back carries the answer that the row listed, and an answer that no row  *)
(* lists any more is about to leave the room.  A /purge has to find every  *)
(* run at rest, because the code looks for one only before it begins       *)
(* (purge.go:64): either there is no /purge, or its owner is patient.      *)

Resting(r) == run[r].pc \in {"idle", "done", "dead"}
Over == {"finish", "done", "dead"}
Undoing == {"undo backend", "undo rewind", "undo forget", "undo redact"}
TakingBack == {"taken back", "taken back last", "taken back rewind",
               "taken back forget"}
Purging == {"purge", "purge forget"}

\* The run a answered q and recorded that.
AnsweredBy(a, q) == a \in Run /\ run[a].recorded /\ run[a].q = q

RunsOnRecord ==
  /\ \A r \in Run : /\ run[r].pc # "idle" => run[r].q \in Run
                    /\ run[r].recorded => run[r].pc \in Over
  /\ \A q \in Run : HasRow(q) => AnsweredBy(row[q].answer, q)

\* What a command goroutine carries, when the room shows the answers in shown.
CarriesIts(j, shown) ==
  /\ j.at \in Undoing \cup TakingBack
     => j.q \in Run /\ AnsweredBy(j.row.answer, j.q)
  /\ j.at \notin Undoing \cup TakingBack => j.row = NoRow
  /\ j.at \in TakingBack => j.row.answer \notin shown
  /\ j.at \in Purging => "purge" \in Ops /\ \A r \in Run : Resting(r)
  /\ j.at = "purge forget" => shown = {}

JobOnRecord(j) == CarriesIts(j, room)

JobsOnRecord == \A c \in Cmds : JobOnRecord(job[c])

AskedAgain(r) == \E p \in Run \ {r} : run[p].pc # "idle" /\ run[p].q = run[r].q

Listed ==
  \A r \in room :
    \/ ~run[r].recorded
    \/ row[run[r].q].answer = r
    \/ AskedAgain(r)
    \/ \E c \in Cmds : job[c].at = "undo redact" /\ job[c].row.answer = r
    \/ r \in cut

OnRecord == RunsOnRecord /\ JobsOnRecord /\ Listed

\* What the code does not see to by itself.
NoPurgeUnderARun == "purge" \notin Ops \/ Patient

\* The invariant says what the property says, with fewer excuses.
LEMMA ListedIsOnRecord == Listed => AnswersOnRecord
BY DEF Listed, AnswersOnRecord, AskedAgain

\* A null job and a null row list nothing.
LEMMA NullJob == NoRow.answer = 0 /\ IdleJob.at = "idle" /\ IdleJob.row = NoRow
BY DEF NoRow, IdleJob

\* An idle command goroutine carries nothing.
LEMMA IdleOnRecord == JobOnRecord(IdleJob)
BY NullJob DEF JobOnRecord, CarriesIts, Undoing, TakingBack, Purging

\* Runs that go on without recording anything leave the record as it is.
LEMMA RunsGoOn ==
  ASSUME TypeOK, OnRecord, UNCHANGED <<row, room, job, cut>>,
         \A p \in Run : /\ run'[p].recorded = run[p].recorded
                        /\ run'[p].q = run[p].q
                        /\ run'[p].pc = "idle" <=> run[p].pc = "idle"
                        /\ run[p].pc \in Over => run'[p].pc \in Over
                        /\ Resting(p) => run'[p].pc \in {"idle", "done", "dead"}
  PROVE  OnRecord'
<1>1. \A a, q : AnsweredBy(a, q) => a \in Run /\ run'[a].recorded /\ run'[a].q = q
  BY DEF AnsweredBy
<1>2. RunsOnRecord'
  BY <1>1 DEF OnRecord, RunsOnRecord, HasRow, AnsweredBy
<1>3. JobsOnRecord'
  <2> SUFFICES ASSUME NEW c \in Cmds PROVE JobOnRecord(job[c])'
    BY DEF JobsOnRecord
  <2>1. JobOnRecord(job[c])
    BY DEF OnRecord, JobsOnRecord
  <2>2. QED BY <1>1, <2>1 DEF JobOnRecord, CarriesIts, AnsweredBy, Resting
<1>4. Listed'
  BY ZenonT(60) DEF OnRecord, Listed, AskedAgain, TypeOK
<1>5. QED BY <1>2, <1>3, <1>4 DEF OnRecord

\* One run that goes on.
LEMMA RunGoesOn ==
  ASSUME TypeOK, OnRecord, UNCHANGED <<row, room, job, cut>>,
         NEW r \in Run, ~Resting(r), NEW x, run' = [run EXCEPT ![r] = x],
         x.recorded = run[r].recorded, x.q = run[r].q, x.pc # "idle",
         run[r].pc \in Over => x.pc \in Over
  PROVE  OnRecord'
<1>1. \A p \in Run : run'[p] = IF p = r THEN x ELSE run[p]
  BY DEF TypeOK
<1>2. run[r].pc # "idle"
  BY DEF Resting
<1>3. QED BY <1>1, <1>2, RunsGoOn DEF Resting

\* One run that goes on and changes nothing of itself but where it is.
LEMMA RunStepsOn ==
  ASSUME TypeOK, OnRecord, UNCHANGED <<row, room, job, cut>>,
         NEW r \in Run, NEW from, NEW to \in Pc \ {"idle"}, Step(r, from, to),
         from \notin {"idle", "done", "dead"}, from \in Over => to \in Over
  PROVE  OnRecord'
<1>1. run[r] \in RunRec
  BY DEF TypeOK
<1> DEFINE x == [run[r] EXCEPT !.pc = to]
<1>2. run' = [run EXCEPT ![r] = x] /\ run[r].pc = from
  BY DEF Step, TypeOK
<1>3. x.recorded = run[r].recorded /\ x.q = run[r].q /\ x.pc = to
  BY <1>1 DEF RunRec
<1> HIDE DEF x
<1>4. QED BY <1>2, <1>3, RunGoesOn DEF Resting

\* A run that is cancelled is still where it was.
LEMMA CancelOnRecord ==
  ASSUME TypeOK, OnRecord, UNCHANGED <<row, room, job, cut>>, CancelRegistered
  PROVE  OnRecord'
<1>1. \A p \in Run : run'[p] = IF p = reg THEN [run[p] EXCEPT !.stop = TRUE]
                               ELSE run[p]
  BY DEF TypeOK, CancelRegistered
<1>2. \A p \in Run : /\ run'[p].recorded = run[p].recorded
                     /\ run'[p].q = run[p].q /\ run'[p].pc = run[p].pc
  BY <1>1 DEF TypeOK, RunRec
<1>3. QED BY <1>2, RunsGoOn DEF Resting

\* A new run has answered nothing, and a /purge keeps it waiting.
LEMMA SpawnOnRecord ==
  ASSUME TypeOK, OnRecord, NoPurgeUnderARun, NEW op, MayDo(op),
         NEW r \in Run, NEW q \in Run, NEW e, Spawn(r, q, e)
  PROVE  OnRecord'
<1>1. /\ run[r].pc = "idle"
      /\ UNCHANGED <<row, room, job, cut>>
      /\ \A p \in Run \ {r} : run'[p] = run[p]
      /\ run'[r].pc = "spawned" /\ run'[r].q = q /\ ~run'[r].recorded
  BY DEF Spawn, Next1, TypeOK, IdleRun, tables, ledger
<1>2. \A a, b : AnsweredBy(a, b) => a # r /\ a \in Run /\ run'[a].recorded
                                    /\ run'[a].q = b
  BY <1>1 DEF AnsweredBy, OnRecord, RunsOnRecord, Over
<1>3. RunsOnRecord'
  BY <1>1, <1>2 DEF OnRecord, RunsOnRecord, HasRow, AnsweredBy
<1>4. \A c \in Cmds : job[c].at \notin Purging
  BY DEF MayDo, Settled, OnRecord, JobsOnRecord, JobOnRecord, CarriesIts,
         NoPurgeUnderARun, Purging
<1>5. JobsOnRecord'
  <2> SUFFICES ASSUME NEW c \in Cmds PROVE JobOnRecord(job[c])'
    BY DEF JobsOnRecord
  <2>1. JobOnRecord(job[c])
    BY DEF OnRecord, JobsOnRecord
  <2>2. QED BY <1>1, <1>2, <1>4, <2>1 DEF JobOnRecord, CarriesIts, AnsweredBy, Purging
<1>6. Listed'
  <2>1. \A p \in Run \ {r} : AskedAgain(p) => AskedAgain(p)'
    BY <1>1 DEF AskedAgain
  <2>2. QED BY <1>1, <2>1 DEF OnRecord, Listed, TypeOK
<1>7. QED BY <1>3, <1>5, <1>6 DEF OnRecord

\* An answer is posted before its run records it.
LEMMA PostOnRecord ==
  ASSUME TypeOK, OnRecord, UNCHANGED <<row, job, cut>>,
         NEW r \in Run, NEW to \in {"advance", "finish"}, Step(r, "post", to),
         room' = room \/ room' = room \cup {r}
  PROVE  OnRecord'
<1>1. /\ run[r].pc = "post" /\ ~run[r].recorded
      /\ \A p \in Run : /\ run'[p].recorded = run[p].recorded
                        /\ run'[p].q = run[p].q
                        /\ p # r => run'[p].pc = run[p].pc
                        /\ p = r => run'[p].pc = to
  BY DEF Step, TypeOK, RunRec, OnRecord, RunsOnRecord, Over
<1>2. \A a, q : AnsweredBy(a, q) => a # r /\ a \in Run /\ run'[a].recorded
                                    /\ run'[a].q = q
  BY <1>1 DEF AnsweredBy
<1>3. RunsOnRecord'
  BY <1>1, <1>2 DEF OnRecord, RunsOnRecord, HasRow, AnsweredBy
<1>4. \A c \in Cmds : job[c].at \notin Purging
  BY <1>1 DEF OnRecord, JobsOnRecord, JobOnRecord,
     CarriesIts, Resting
<1>5. JobsOnRecord'
  <2> SUFFICES ASSUME NEW c \in Cmds PROVE JobOnRecord(job[c])'
    BY DEF JobsOnRecord
  <2>1. JobOnRecord(job[c])
    BY DEF OnRecord, JobsOnRecord
  <2>2. job[c].at \in TakingBack => job[c].row.answer # r
    BY <1>2, <2>1 DEF JobOnRecord, CarriesIts
  <2>3. QED BY <1>2, <1>4, <2>1, <2>2 DEF JobOnRecord, CarriesIts, AnsweredBy, Purging
<1>6. Listed'
  <2>1. \A p \in Run : AskedAgain(p) => AskedAgain(p)'
    BY <1>1 DEF AskedAgain
  <2>2. QED BY <1>1, <2>1 DEF OnRecord, Listed, TypeOK
<1>7. QED BY <1>3, <1>5, <1>6 DEF OnRecord

\* Recording an answer lists it; the answer listed before was to the same
\* question, which has then been asked again.
LEMMA RecordOnRecord ==
  ASSUME TypeOK, OnRecord, NEW r \in Run, Record(r)
  PROVE  OnRecord'
<1>1. /\ run[r].pc = "record" /\ run[r].q \in Run
      /\ UNCHANGED <<room, job, cut>>
  BY DEF Record, OnRecord, RunsOnRecord, ledger
<1>2. /\ run'[r].recorded /\ run'[r].pc = "finish"
      /\ \A p \in Run : /\ run'[p].q = run[p].q
                        /\ p # r => run'[p] = run[p]
  BY DEF Record, TypeOK, RunRec
<1>3. \A q \in Run : row'[q].answer = IF q = run[r].q THEN r ELSE row[q].answer
  <2>1. row' = PutTurn(r) /\ row \in [Run -> Row]
    BY DEF Record, TypeOK
  <2>2. QED BY <1>1, <2>1 DEF PutTurn, Row
<1>4. \A a, q : AnsweredBy(a, q) => a \in Run /\ run'[a].recorded /\ run'[a].q = q
  BY <1>2 DEF AnsweredBy
<1>5. RunsOnRecord'
  BY <1>1, <1>2, <1>3, <1>4 DEF OnRecord, RunsOnRecord, HasRow, AnsweredBy, Over
<1>6. JobsOnRecord'
  <2> SUFFICES ASSUME NEW c \in Cmds PROVE JobOnRecord(job[c])'
    BY DEF JobsOnRecord
  <2>1. JobOnRecord(job[c])
    BY DEF OnRecord, JobsOnRecord
  <2>2. job[c].at \notin Purging
    BY <1>1, <2>1 DEF JobOnRecord, CarriesIts, Resting
  <2>3. QED BY <1>1, <1>4, <2>1, <2>2 DEF JobOnRecord, CarriesIts, AnsweredBy, Purging
<1>7. Listed'
  <2> SUFFICES ASSUME NEW p \in room, p # r, run[p].recorded
               PROVE  \/ row'[run[p].q].answer = p
                      \/ AskedAgain(p)'
                      \/ \E c \in Cmds : /\ job[c].at = "undo redact"
                                         /\ job[c].row.answer = p
                      \/ p \in cut
    BY <1>1, <1>2, <1>3, ZenonT(60) DEF Listed, TypeOK
  <2>1. p \in Run /\ run[p].q \in Run
    BY DEF TypeOK, OnRecord, RunsOnRecord, Over
  <2>2. CASE run[p].q = run[r].q
    BY <1>1, <1>2, <2>1, <2>2 DEF AskedAgain
  <2>3. CASE run[p].q # run[r].q
    <3>1. AskedAgain(p) => AskedAgain(p)'
      BY <1>1, <1>2, <2>1 DEF AskedAgain
    <3>2. row'[run[p].q].answer = row[run[p].q].answer
      BY <1>3, <2>1, <2>3
    <3>3. QED BY <3>1, <3>2 DEF OnRecord, Listed
  <2>4. QED BY <2>2, <2>3
<1>8. QED BY <1>5, <1>6, <1>7 DEF OnRecord

\* A command goroutine that goes on, and drops nothing it was about to remove.
LEMMA JobGoesOn ==
  ASSUME TypeOK, OnRecord, UNCHANGED <<run, row, cut, room>>,
         NEW c \in Cmds, NEW x, job' = [job EXCEPT ![c] = x],
         JobOnRecord(x), job[c].at # "undo redact"
  PROVE  OnRecord'
<1>1. \A d \in Cmds : job'[d] = IF d = c THEN x ELSE job[d]
  BY DEF TypeOK
<1>2. RunsOnRecord'
  BY DEF OnRecord, RunsOnRecord, HasRow, AnsweredBy
<1>3. JobsOnRecord'
  <2> SUFFICES ASSUME NEW d \in Cmds PROVE JobOnRecord(job[d])'
    BY DEF JobsOnRecord
  <2>1. JobOnRecord(job'[d])
    BY <1>1 DEF OnRecord, JobsOnRecord
  <2>2. QED BY <2>1 DEF JobOnRecord, CarriesIts, AnsweredBy, Resting
<1>4. Listed'
  BY <1>1 DEF OnRecord, Listed, AskedAgain, TypeOK
<1>5. QED BY <1>2, <1>3, <1>4 DEF OnRecord

\* The steps of a command goroutine that carries no turn, and those that carry
\* one and go on doing so.
LEMMA JobStepOn ==
  ASSUME TypeOK, OnRecord, UNCHANGED <<run, row, cut, room>>,
         NEW c \in Cmds, NEW from, NEW to, JobStep(c, from, to),
         from \notin {"purge", "purge forget", "undo redact"},
         to \notin Purging,
         from \in Undoing <=> to \in Undoing,
         from \in TakingBack <=> to \in TakingBack
  PROVE  OnRecord'
<1>1. job[c] \in JobRec /\ job[c].at = from /\ JobOnRecord(job[c])
  BY DEF TypeOK, JobStep, OnRecord, JobsOnRecord
<1>2. CASE to = "idle"
  BY <1>1, <1>2, IdleOnRecord, JobGoesOn DEF JobStep
<1>3. CASE to # "idle"
  <2> DEFINE x == [job[c] EXCEPT !.at = to]
  <2>1. x.at = to /\ x.q = job[c].q /\ x.row = job[c].row
    BY <1>1 DEF JobRec
  <2>2. job' = [job EXCEPT ![c] = x]
    BY <1>3 DEF JobStep, TypeOK
  <2> HIDE DEF x
  <2>3. JobOnRecord(x)
    BY <1>1, <2>1 DEF JobOnRecord, CarriesIts, Purging
  <2>4. QED BY <1>1, <2>2, <2>3, JobGoesOn
<1>4. QED BY <1>2, <1>3

\* A command goroutine may end at any step before it has forgotten a row.
LEMMA JobStops ==
  ASSUME TypeOK, OnRecord, UNCHANGED <<run, row, cut, room>>,
         NEW c \in Cmds, NEW from, JobStep(c, from, "idle"),
         from # "undo redact"
  PROVE  OnRecord'
BY IdleOnRecord, JobGoesOn DEF JobStep

\* A command that starts without a turn in its hands.
LEMMA StartOnRecord ==
  ASSUME TypeOK, OnRecord, UNCHANGED <<run, row, cut, room>>,
         NEW c \in Cmds, NEW op, NEW j, Start(c, op, j), JobOnRecord(j)
  PROVE  OnRecord'
BY JobGoesOn DEF Start

\* /purge begins when nothing runs, if its owner is patient.
LEMMA PurgeOnRecord ==
  ASSUME TypeOK, OnRecord, NoPurgeUnderARun, NEW c \in Cmds, CommandPurge(c)
  PROVE  OnRecord'
<1> DEFINE j == [IdleJob EXCEPT !.at = "purge"]
<1>1. /\ UNCHANGED <<run, row, cut, room>>
      /\ Start(c, "purge", j)
  BY DEF CommandPurge, tables, ledger
<1>2. "purge" \in Ops /\ \A r \in Run : Resting(r)
  BY <1>1 DEF Start, MayDo, Settled, Resting, NoPurgeUnderARun
<1>3. j.at = "purge" /\ j.row = NoRow
  BY DEF IdleJob
<1> HIDE DEF j
<1>4. JobOnRecord(j)
  BY <1>2, <1>3 DEF JobOnRecord, CarriesIts, Undoing, TakingBack
<1>5. QED BY <1>1, <1>4, StartOnRecord

\* /undo reads a row, with the answer that the row lists.
LEMMA UndoReadOnRecord ==
  ASSUME TypeOK, OnRecord, NEW c \in Cmds, UndoReadLast(c)
  PROVE  OnRecord'
<1>1. UNCHANGED <<run, row, cut, room>>
  BY DEF UndoReadLast, tables, ledger
<1>2. CASE JobStep(c, "undo last", "idle")
  BY <1>1, <1>2, JobStops
<1>3. CASE ~JobStep(c, "undo last", "idle")
  <2>1. PICK q \in LastTurn :
          job' = [job EXCEPT ![c] = [@ EXCEPT !.at = "undo backend",
                                              !.q = q, !.row = row[q]]]
    BY <1>3 DEF UndoReadLast
  <2> DEFINE x == [job[c] EXCEPT !.at = "undo backend", !.q = q, !.row = row[q]]
  <2>2. job' = [job EXCEPT ![c] = x] /\ job[c].at = "undo last"
    BY <1>3, <2>1 DEF UndoReadLast, TypeOK
  <2>3. x.at = "undo backend" /\ x.q = q /\ x.row = row[q]
    BY DEF TypeOK, JobRec
  <2>4. q \in Run /\ AnsweredBy(row[q].answer, q)
    BY DEF LastTurn, OnRecord, RunsOnRecord
  <2> HIDE DEF x
  <2>5. JobOnRecord(x)
    BY <2>3, <2>4 DEF JobOnRecord, CarriesIts, Undoing, TakingBack, Purging
  <2>6. QED BY <1>1, <2>2, <2>5, JobGoesOn
<1>4. QED BY <1>2, <1>3

\* A row is forgotten by whoever has read it: the answer it lists is that
\* goroutine's, and no longer needs the row.
LEMMA ForgetOnRecord ==
  ASSUME TypeOK, OnRecord, UNCHANGED <<run, cut, room>>,
         NEW c \in Cmds, NEW x, job' = [job EXCEPT ![c] = x],
         row' = [row EXCEPT ![job[c].q] = NoRow],
         job[c].at \in Undoing \cup TakingBack, job[c].at # "undo redact",
         JobOnRecord(x),
         \/ job[c].at \in TakingBack
         \/ x.at = "undo redact" /\ x.row = job[c].row
  PROVE  OnRecord'
<1> DEFINE q == job[c].q
           a == job[c].row.answer
<1>1. JobOnRecord(job[c])
  BY DEF OnRecord, JobsOnRecord
<1>2. q \in Run /\ AnsweredBy(a, q)
  BY <1>1 DEF JobOnRecord, CarriesIts
<1>3. \A d \in Cmds : job'[d] = IF d = c THEN x ELSE job[d]
  BY DEF TypeOK
<1>4. \A b \in Run : row'[b] = IF b = q THEN NoRow ELSE row[b]
  BY DEF TypeOK
<1>5. RunsOnRecord'
  <2>1. \A b \in Run : HasRow(b)' => HasRow(b) /\ row'[b] = row[b]
    BY <1>4, NullJob DEF HasRow
  <2>2. QED BY <2>1 DEF OnRecord, RunsOnRecord, AnsweredBy
<1>6. JobsOnRecord'
  <2> SUFFICES ASSUME NEW d \in Cmds PROVE JobOnRecord(job[d])'
    BY DEF JobsOnRecord
  <2>1. JobOnRecord(job'[d])
    BY <1>3 DEF OnRecord, JobsOnRecord
  <2>2. QED BY <2>1 DEF JobOnRecord, CarriesIts, AnsweredBy, Resting
<1>7. Listed'
  <2> SUFFICES ASSUME NEW p \in room, run[p].recorded
               PROVE  \/ row'[run[p].q].answer = p
                      \/ AskedAgain(p)'
                      \/ \E d \in Cmds : /\ job'[d].at = "undo redact"
                                         /\ job'[d].row.answer = p
                      \/ p \in cut
    BY DEF Listed, TypeOK
  <2>1. p \in Run /\ run[p].q \in Run
    BY DEF TypeOK, OnRecord, RunsOnRecord, Over
  <2>2. CASE run[p].q # q
    <3>1. row'[run[p].q].answer = row[run[p].q].answer
      BY <1>4, <2>1, <2>2
    <3>2. AskedAgain(p) => AskedAgain(p)'
      BY DEF AskedAgain
    <3>3. \A d \in Cmds : job[d].at = "undo redact" => job'[d] = job[d]
      BY <1>3
    <3>4. QED BY <3>1, <3>2, <3>3 DEF OnRecord, Listed
  <2>3. CASE run[p].q = q /\ a # p
    <3>1. a \in Run \ {p} /\ run[a].q = run[p].q /\ run[a].pc # "idle"
      BY <1>2, <2>3 DEF AnsweredBy, OnRecord, RunsOnRecord, Over
    <3>2. QED BY <3>1 DEF AskedAgain
  <2>4. CASE run[p].q = q /\ a = p
    <3>1. job[c].at \notin TakingBack
      BY <1>1, <2>4 DEF JobOnRecord, CarriesIts
    <3>2. QED BY <1>3, <2>4, <3>1
  <2>5. QED BY <2>2, <2>3, <2>4
<1>8. QED BY <1>5, <1>6, <1>7 DEF OnRecord

LEMMA UndoForgetOnRecord ==
  ASSUME TypeOK, OnRecord, NEW c \in Cmds, UndoForget(c)
  PROVE  OnRecord'
<1> DEFINE x == [job[c] EXCEPT !.at = "undo redact"]
<1>1. /\ UNCHANGED <<run, cut, room>> /\ job[c].at = "undo forget"
      /\ row' = [row EXCEPT ![job[c].q] = NoRow]
      /\ job' = [job EXCEPT ![c] = x]
  BY DEF UndoForget, JobStep, backend, ledger, TypeOK
<1>2. x.at = "undo redact" /\ x.q = job[c].q /\ x.row = job[c].row
  BY DEF TypeOK, JobRec
<1> HIDE DEF x
<1>3. JobOnRecord(job[c])
  BY DEF OnRecord, JobsOnRecord
<1>4. JobOnRecord(x)
  BY <1>1, <1>2, <1>3 DEF JobOnRecord, CarriesIts, Undoing, TakingBack, Purging
<1>5. QED BY <1>1, <1>2, <1>4, ForgetOnRecord DEF Undoing

LEMMA TakenBackForgetOnRecord ==
  ASSUME TypeOK, OnRecord, NEW c \in Cmds, TakenBackForget(c)
  PROVE  OnRecord'
<1>1. /\ UNCHANGED <<run, cut, room>> /\ job[c].at = "taken back forget"
      /\ row' = [row EXCEPT ![job[c].q] = NoRow]
      /\ job' = [job EXCEPT ![c] = IdleJob]
  BY DEF TakenBackForget, JobStep, backend, ledger
<1>2. QED BY <1>1, IdleOnRecord, ForgetOnRecord DEF TakingBack

\* Answers that leave the room need no row.
LEMMA LeavesRoom ==
  ASSUME TypeOK, OnRecord, UNCHANGED <<run, row, cut>>,
         room' \in SUBSET room,
         NEW c \in Cmds, NEW x, job' = [job EXCEPT ![c] = x],
         CarriesIts(x, room'),
         job[c].row.answer \notin room' \/ job[c].at # "undo redact"
  PROVE  OnRecord'
<1>1. \A d \in Cmds : job'[d] = IF d = c THEN x ELSE job[d]
  BY DEF TypeOK
<1>2. RunsOnRecord'
  BY DEF OnRecord, RunsOnRecord, HasRow, AnsweredBy
<1>3. JobsOnRecord'
  <2> SUFFICES ASSUME NEW d \in Cmds PROVE JobOnRecord(job[d])'
    BY DEF JobsOnRecord
  <2>1. CASE d = c
    BY <1>1, <2>1 DEF JobOnRecord, CarriesIts, AnsweredBy, Resting
  <2>2. CASE d # c
    <3>1. JobOnRecord(job[d]) /\ job'[d] = job[d]
      BY <1>1, <2>2 DEF OnRecord, JobsOnRecord
    <3>2. QED BY <3>1 DEF JobOnRecord, CarriesIts, AnsweredBy, Resting
  <2>3. QED BY <2>1, <2>2
<1>4. Listed'
  BY <1>1, ZenonT(60) DEF OnRecord, Listed, AskedAgain, TypeOK
<1>5. QED BY <1>2, <1>3, <1>4 DEF OnRecord

\* The end of an /undo: the answer it carried leaves the room.
LEMMA UndoRedactOnRecord ==
  ASSUME TypeOK, OnRecord, NEW c \in Cmds, UndoRedact(c)
  PROVE  OnRecord'
<1>1. /\ UNCHANGED <<run, row, cut>>
      /\ room' = room \ {job[c].row.answer}
      /\ job' = [job EXCEPT ![c] = IdleJob]
  BY DEF UndoRedact, JobStep, tables
<1>2. CarriesIts(IdleJob, room')
  BY NullJob DEF CarriesIts, Undoing, TakingBack, Purging
<1>3. QED BY <1>1, <1>2, LeavesRoom

\* Deleting an answered question: the answer its row lists leaves the room,
\* and the row goes with the goroutine that takes the turn back.
LEMMA TakeBackOnRecord ==
  ASSUME TypeOK, OnRecord, NEW c \in Cmds, NEW q \in Run, OnRedactionUndo(c, q)
  PROVE  OnRecord'
<1> DEFINE x == IF HasRow(q)
                THEN [IdleJob EXCEPT !.at = "taken back", !.q = q,
                                     !.row = row[q]]
                ELSE IdleJob
<1>1. /\ UNCHANGED <<run, row, cut>>
      /\ room' = room \ {row[q].answer}
      /\ job[c].at = "idle"
      /\ job' = [job EXCEPT ![c] = x]
  BY DEF OnRedactionUndo, Start, tables
<1>2. CASE ~HasRow(q)
  <2>1. CarriesIts(x, room')
    BY <1>2, NullJob DEF CarriesIts, Undoing, TakingBack, Purging
  <2> HIDE DEF x
  <2>2. QED BY <1>1, <2>1, LeavesRoom
<1>3. CASE HasRow(q)
  <2>1. x.at = "taken back" /\ x.q = q /\ x.row = row[q]
    BY <1>3 DEF IdleJob
  <2> HIDE DEF x
  <2>2. AnsweredBy(row[q].answer, q)
    BY <1>3 DEF OnRecord, RunsOnRecord
  <2>3. CarriesIts(x, room')
    BY <1>1, <2>1, <2>2 DEF CarriesIts, Undoing, TakingBack, Purging
  <2>4. QED BY <1>1, <2>3, LeavesRoom
<1>4. QED BY <1>2, <1>3

\* /purge empties the room, while every run is at rest ...
LEMMA PurgeRoomOnRecord ==
  ASSUME TypeOK, OnRecord, NEW c \in Cmds, PurgeRoom(c)
  PROVE  OnRecord'
<1> DEFINE x == [job[c] EXCEPT !.at = "purge forget"]
<1>1. /\ UNCHANGED <<run, row, cut>> /\ room' = {} /\ job[c].at = "purge"
      /\ job' = [job EXCEPT ![c] = x]
  BY DEF PurgeRoom, JobStep, tables, TypeOK
<1>2. x.at = "purge forget" /\ x.row = job[c].row
  BY DEF TypeOK, JobRec
<1> HIDE DEF x
<1>3. JobOnRecord(job[c])
  BY DEF OnRecord, JobsOnRecord
<1>4. CarriesIts(x, room')
  BY <1>1, <1>2, <1>3 DEF JobOnRecord, CarriesIts, Undoing, TakingBack, Purging
<1>5. QED BY <1>1, <1>4, LeavesRoom

\* ... and forgets rows that list nothing the room still shows.
LEMMA PurgeForgetOnRecord ==
  ASSUME TypeOK, OnRecord, NEW c \in Cmds, PurgeForget(c)
  PROVE  OnRecord'
<1>1. /\ UNCHANGED <<run, cut, room>> /\ job[c].at = "purge forget"
      /\ job' = [job EXCEPT ![c] = IdleJob]
      /\ \A q \in Run : row'[q] = NoRow \/ row'[q] = row[q]
  BY DEF PurgeForget, JobStep, backend, ledger, TypeOK
<1>2. room = {}
  BY <1>1 DEF OnRecord, JobsOnRecord, JobOnRecord, CarriesIts
<1>3. RunsOnRecord'
  <2>1. \A q \in Run : HasRow(q)' => HasRow(q) /\ row'[q] = row[q]
    BY <1>1, NullJob DEF HasRow
  <2>2. QED BY <1>1, <2>1 DEF OnRecord, RunsOnRecord, AnsweredBy
<1>4. JobsOnRecord'
  <2> SUFFICES ASSUME NEW d \in Cmds PROVE JobOnRecord(job[d])'
    BY DEF JobsOnRecord
  <2>1. JobOnRecord(job'[d])
    BY <1>1, IdleOnRecord DEF OnRecord, JobsOnRecord, TypeOK
  <2>2. QED
    BY <1>1, <2>1 DEF JobOnRecord, CarriesIts, AnsweredBy, Resting
<1>5. Listed'
  BY <1>1, <1>2 DEF Listed
<1>6. QED BY <1>3, <1>4, <1>5 DEF OnRecord

\* A crash ends every run and every goroutine; an /undo that was about to
\* remove an answer leaves it in the room, cut off.
LEMMA CrashOnRecord ==
  ASSUME TypeOK, OnRecord, Crash
  PROVE  OnRecord'
<1>1. /\ UNCHANGED <<row, room>>
      /\ \A c \in Cmds : job'[c] = IdleJob
      /\ cut' = cut \cup {a \in Run : \E c \in Cmds :
                                        /\ job[c].at = "undo redact"
                                        /\ job[c].row.answer = a}
  BY DEF Crash, tables
<1>2. \A p \in Run : /\ run'[p].recorded = run[p].recorded
                     /\ run'[p].q = run[p].q
                     /\ run'[p].pc = IF run[p].pc = "spawned" \/ Active(p)
                                     THEN "dead" ELSE run[p].pc
  BY DEF Crash, TypeOK, RunRec
<1>3. RunsOnRecord'
  BY <1>1, <1>2 DEF OnRecord, RunsOnRecord, HasRow, AnsweredBy, Over, Active,
                    Running
<1>4. JobsOnRecord'
  <2>1. \A c \in Cmds : CarriesIts(job'[c], room)
    BY <1>1, NullJob DEF CarriesIts, Undoing, TakingBack, Purging
  <2>2. ASSUME NEW c \in Cmds PROVE JobOnRecord(job[c])'
    BY <1>1, NullJob DEF JobOnRecord, CarriesIts, Undoing, TakingBack, Purging
  <2>3. QED BY <2>2 DEF JobsOnRecord
<1>5. Listed'
  <2>1. \A p \in Run : AskedAgain(p) => AskedAgain(p)'
    BY <1>2 DEF AskedAgain, Active, Running
  <2>2. QED BY <1>1, <1>2, <2>1 DEF OnRecord, Listed, TypeOK
<1>6. QED BY <1>3, <1>4, <1>5 DEF OnRecord

\* The steps of one run.
LEMMA TurnOnRecord ==
  ASSUME TypeOK, OnRecord, NEW r \in Run, TurnStep(r)
  PROVE  OnRecord'
<1>1. run[r] \in RunRec
  BY DEF TypeOK
<1>2. CASE Register(r)
  <2>1. \A p \in Run : run'[p] = IF p = r THEN [run[p] EXCEPT !.pc = "lookup"]
                                 ELSE IF p = reg
                                      THEN [run[p] EXCEPT !.stop = TRUE]
                                      ELSE run[p]
    BY <1>2 DEF Register
  <2>2. \A p \in Run : /\ run'[p].recorded = run[p].recorded
                       /\ run'[p].q = run[p].q
                       /\ run'[p].pc = IF p = r THEN "lookup" ELSE run[p].pc
    BY <2>1 DEF TypeOK, RunRec
  <2>3. run[r].pc = "spawned" /\ UNCHANGED <<row, room, job, cut>>
    BY <1>2 DEF Register, tables, ledger
  <2>4. QED BY <2>2, <2>3, RunsGoOn DEF Over, Resting
<1>3. CASE GiveUp(r)
  <2>1. /\ Step(r, run[r].pc, "finish")
        /\ run[r].pc \in {"lookup", "seed", "create", "sending"}
        /\ UNCHANGED <<row, room, job, cut>>
    BY <1>3 DEF GiveUp, Step, tables, ledger
  <2>2. QED BY <2>1, RunStepsOn DEF Over, Pc
<1>4. CASE Continue(r)
  <2> DEFINE x == [run[r] EXCEPT !.pc = "begin", !.held = LiveSession,
                                 !.from = sess[LiveSession].tip]
  <2>1. /\ run' = [run EXCEPT ![r] = x] /\ run[r].pc = "lookup"
        /\ UNCHANGED <<row, room, job, cut>>
    BY <1>4 DEF Continue, TypeOK, tables, ledger
  <2>2. x.recorded = run[r].recorded /\ x.q = run[r].q /\ x.pc = "begin"
    BY <1>1 DEF RunRec
  <2> HIDE DEF x
  <2>3. QED BY <2>1, <2>2, RunGoesOn DEF Resting, Over
<1>5. CASE MustRotate(r)
  <2> DEFINE x == [run[r] EXCEPT !.pc = "rotate", !.held = LiveSession]
  <2>1. /\ run' = [run EXCEPT ![r] = x] /\ run[r].pc = "lookup"
        /\ UNCHANGED <<row, room, job, cut>>
    BY <1>5 DEF MustRotate, TypeOK, tables, ledger
  <2>2. x.recorded = run[r].recorded /\ x.q = run[r].q /\ x.pc = "rotate"
    BY <1>1 DEF RunRec
  <2> HIDE DEF x
  <2>3. QED BY <2>1, <2>2, RunGoesOn DEF Resting, Over
<1>6. CASE NoLiveSession(r) \/ Rotate(r)
  <2>1. /\ Step(r, "lookup", "seed") \/ Step(r, "rotate", "seed")
        /\ UNCHANGED <<row, room, job, cut>>
    BY <1>6 DEF NoLiveSession, Rotate, tables, ledger
  <2>2. QED BY <2>1, RunStepsOn DEF Over, Pc
<1>7. CASE NewConversation(r)
  <2>1. /\ Step(r, "seed", "create") \/ Step(r, "seed", "finish")
        /\ UNCHANGED <<row, room, job, cut>>
    BY <1>7 DEF NewConversation, ledger
  <2>2. QED BY <2>1, RunStepsOn DEF Over, Pc
<1>8. CASE CreateSession(r) /\ SlotTaken(r)
  <2>1. /\ Step(r, "create", "finish")
        /\ UNCHANGED <<row, room, job, cut>>
    BY <1>8 DEF CreateSession, Step, ledger
  <2>2. QED BY <2>1, RunStepsOn DEF Over, Pc
<1>9. CASE CreateSession(r) /\ ~SlotTaken(r)
  <2> DEFINE x == [run[r] EXCEPT !.pc = "begin", !.held = r, !.from = 0]
  <2>1. /\ run' = [run EXCEPT ![r] = x] /\ run[r].pc = "create"
        /\ UNCHANGED <<row, room, job, cut>>
    BY <1>9 DEF CreateSession, TypeOK, ledger
  <2>2. x.recorded = run[r].recorded /\ x.q = run[r].q /\ x.pc = "begin"
    BY <1>1 DEF RunRec
  <2> HIDE DEF x
  <2>3. QED BY <2>1, <2>2, RunGoesOn DEF Resting, Over
<1>10. CASE BeginSend(r)
  <2> DEFINE x == [run[r] EXCEPT !.pc = "sending", !.from = ParentToSend(r)]
  <2>1. /\ run' = [run EXCEPT ![r] = x] /\ run[r].pc = "begin"
        /\ UNCHANGED <<row, room, job, cut>>
    BY <1>10 DEF BeginSend, TypeOK, tables, ledger
  <2>2. x.recorded = run[r].recorded /\ x.q = run[r].q /\ x.pc = "sending"
    BY <1>1 DEF RunRec
  <2> HIDE DEF x
  <2>3. QED BY <2>1, <2>2, RunGoesOn DEF Resting, Over
<1>11. CASE SendReturns(r) \/ SendFails(r)
  <2>1. /\ Step(r, "sending", "post") \/ Step(r, "sending", "finish")
        /\ UNCHANGED <<row, room, job, cut>>
    BY <1>11 DEF SendReturns, SendFails, tables, ledger
  <2>2. QED BY <2>1, RunStepsOn DEF Over, Pc
<1>12. CASE PostAnswer(r) \/ PostFails(r)
  <2>1. /\ UNCHANGED <<row, job, cut>>
        /\ Step(r, "post", "advance") \/ Step(r, "post", "finish")
        /\ room' = room \/ room' = room \cup {r}
    BY <1>12 DEF PostAnswer, PostFails, tables, ledger
  <2>2. QED BY <2>1, PostOnRecord
<1>13. CASE Advance(r)
  <2>1. /\ Step(r, "advance", "record")
        /\ UNCHANGED <<row, room, job, cut>>
    BY <1>13 DEF Advance, ledger
  <2>2. QED BY <2>1, RunStepsOn DEF Over, Pc
<1>14. CASE Record(r)
  BY <1>14, RecordOnRecord
<1>15. CASE Finish(r)
  <2>1. /\ Step(r, "finish", "done")
        /\ UNCHANGED <<row, room, job, cut>>
    BY <1>15 DEF Finish, tables, ledger
  <2>2. QED BY <2>1, RunStepsOn DEF Over, Pc
<1>16. QED
  BY <1>2, <1>3, <1>4, <1>5, <1>6, <1>7, <1>8, <1>9, <1>10, <1>11, <1>12,
     <1>13, <1>14, <1>15 DEF TurnStep

\* The steps of one command goroutine.
LEMMA JobOnRecordStep ==
  ASSUME TypeOK, OnRecord, NEW c \in Cmds, JobNext(c)
  PROVE  OnRecord'
<1>1. CASE NewClose(c) \/ CompactClose(c) \/ CompactMark(c)
           \/ ResumeClose(c) \/ ResumeReopen(c)
  <2>1. /\ UNCHANGED <<run, row, cut, room>>
        /\ \/ JobStep(c, "new", "idle")
           \/ JobStep(c, "compact", "compact mark")
           \/ JobStep(c, "compact mark", "idle")
           \/ JobStep(c, "resume close", "resume reopen")
           \/ JobStep(c, "resume reopen", "idle")
    BY <1>1 DEF NewClose, CompactClose, CompactMark, ResumeClose, ResumeReopen,
                ledger
  <2>2. QED BY <2>1, JobStepOn DEF Undoing, TakingBack, Purging
<1>2. CASE UndoReadLast(c)
  BY <1>2, UndoReadOnRecord
<1>3. CASE UndoBackend(c) \/ UndoRewind(c) \/ TakenBackRewind(c)
  <2>1. /\ UNCHANGED <<run, row, cut, room>>
        /\ \/ JobStep(c, "undo backend", "undo rewind")
           \/ JobStep(c, "undo rewind", "undo forget")
           \/ JobStep(c, "taken back rewind", "taken back forget")
    BY <1>3 DEF UndoBackend, UndoRewind, TakenBackRewind, tables, ledger
  <2>2. QED BY <2>1, JobStepOn DEF Undoing, TakingBack, Purging
<1>4. CASE UndoForget(c)
  BY <1>4, UndoForgetOnRecord
<1>5. CASE UndoRedact(c)
  BY <1>5, UndoRedactOnRecord
<1>6. CASE TakenBackBackend(c) \/ TakenBackReadLast(c)
  <2>1. /\ UNCHANGED <<run, row, cut, room>>
        /\ \/ JobStep(c, "taken back", "idle")
           \/ JobStep(c, "taken back", "taken back last")
           \/ JobStep(c, "taken back last", "taken back rewind")
           \/ JobStep(c, "taken back last", "taken back forget")
    BY <1>6 DEF TakenBackBackend, TakenBackReadLast, tables, ledger
  <2>2. CASE JobStep(c, "taken back", "idle")
    BY <2>1, <2>2, JobStops
  <2>3. CASE ~JobStep(c, "taken back", "idle")
    BY <2>1, <2>3, JobStepOn DEF Undoing, TakingBack, Purging
  <2>4. QED BY <2>2, <2>3
<1>7. CASE TakenBackForget(c)
  BY <1>7, TakenBackForgetOnRecord
<1>8. CASE ResumeReadLive(c)
  <2> DEFINE x == IF LiveSession \in {0, job[c].t}
                  THEN [job[c] EXCEPT !.at = "resume reopen"]
                  ELSE [job[c] EXCEPT !.at = "resume close", !.s = LiveSession]
  <2>1. /\ UNCHANGED <<run, row, cut, room>> /\ job[c].at = "resume"
        /\ job' = [job EXCEPT ![c] = x]
    BY <1>8 DEF ResumeReadLive, tables, ledger, TypeOK
  <2>2. x.at \in {"resume reopen", "resume close"} /\ x.row = job[c].row
    BY DEF TypeOK, JobRec
  <2> HIDE DEF x
  <2>3. JobOnRecord(job[c])
    BY DEF OnRecord, JobsOnRecord
  <2>4. JobOnRecord(x)
    BY <2>1, <2>2, <2>3 DEF JobOnRecord, CarriesIts, Undoing, TakingBack,
                            Purging
  <2>5. QED BY <2>1, <2>4, JobGoesOn
<1>9. CASE PurgeRoom(c)
  BY <1>9, PurgeRoomOnRecord
<1>10. CASE PurgeForget(c)
  BY <1>10, PurgeForgetOnRecord
<1>11. QED
  BY <1>1, <1>2, <1>3, <1>4, <1>5, <1>6, <1>7, <1>8, <1>9, <1>10 DEF JobNext

\* What the owner does.
LEMMA OwnerOnRecord ==
  ASSUME TypeOK, OnRecord, NoPurgeUnderARun, OwnerNext
  PROVE  OnRecord'
<1>1. ASSUME NEW r \in Run, OnMessage(r) PROVE OnRecord'
  BY <1>1, SpawnOnRecord DEF OnMessage
<1>2. ASSUME NEW r \in Run, CommandRetry(r) PROVE OnRecord'
  BY <1>2, SpawnOnRecord DEF CommandRetry, LastTurn
<1>3. ASSUME NEW r \in Run, NEW o \in Run, OnEdit(r, o) PROVE OnRecord'
  BY <1>3, SpawnOnRecord DEF OnEdit
<1>4. ASSUME CommandStop \/ \E q \in Run : OnRedactionCancel(q)
      PROVE  OnRecord'
  <2>1. CancelRegistered /\ UNCHANGED <<row, room, job, cut>>
    BY <1>4 DEF CommandStop, OnRedactionCancel, tables, ledger
  <2>2. QED BY <2>1, CancelOnRecord
<1>5. ASSUME NEW c \in Cmds,
             \/ CommandNew(c) \/ CommandUndo(c) \/ CommandCompact(c)
             \/ \E t \in Run : CommandResume(c, t)
      PROVE  OnRecord'
  <2>1. UNCHANGED <<run, row, cut, room>>
    BY <1>5 DEF CommandNew, CommandUndo, CommandCompact, CommandResume, tables,
                ledger
  <2>2. ASSUME NEW op, NEW j, Start(c, op, j), j.row = NoRow,
               j.at \in {"new", "undo last", "compact", "resume"}
        PROVE  OnRecord'
    <3>1. JobOnRecord(j)
      BY <2>2 DEF JobOnRecord, CarriesIts, Undoing, TakingBack, Purging
    <3>2. QED BY <2>1, <2>2, <3>1, StartOnRecord
  <2>3. CASE CommandNew(c)
    <3> DEFINE j == [IdleJob EXCEPT !.at = "new", !.s = LiveSession]
    <3>1. Start(c, "new", j)
      BY <2>3 DEF CommandNew
    <3>2. j.row = NoRow /\ j.at = "new"
      BY DEF IdleJob
    <3> HIDE DEF j
    <3>3. QED BY <2>2, <3>1, <3>2
  <2>4. CASE CommandUndo(c)
    <3> DEFINE j == [IdleJob EXCEPT !.at = "undo last", !.s = LiveSession]
    <3>1. Start(c, "undo", j)
      BY <2>4 DEF CommandUndo
    <3>2. j.row = NoRow /\ j.at = "undo last"
      BY DEF IdleJob
    <3> HIDE DEF j
    <3>3. QED BY <2>2, <3>1, <3>2
  <2>5. CASE CommandCompact(c)
    <3> DEFINE j == [IdleJob EXCEPT !.at = "compact", !.s = LiveSession]
    <3>1. Start(c, "compact", j)
      BY <2>5 DEF CommandCompact
    <3>2. j.row = NoRow /\ j.at = "compact"
      BY DEF IdleJob
    <3> HIDE DEF j
    <3>3. QED BY <2>2, <3>1, <3>2
  <2>6. ASSUME NEW t \in Run, CommandResume(c, t) PROVE OnRecord'
    <3> DEFINE j == [IdleJob EXCEPT !.at = "resume", !.t = t]
    <3>1. Start(c, "resume", j)
      BY <2>6 DEF CommandResume
    <3>2. j.row = NoRow /\ j.at = "resume"
      BY DEF IdleJob
    <3> HIDE DEF j
    <3>3. QED BY <2>2, <3>1, <3>2
  <2>7. QED BY <1>5, <2>3, <2>4, <2>5, <2>6
<1>6. ASSUME NEW c \in Cmds, CommandPurge(c) PROVE OnRecord'
  BY <1>6, PurgeOnRecord
<1>7. ASSUME NEW c \in Cmds, NEW q \in Run, OnRedactionUndo(c, q)
      PROVE  OnRecord'
  BY <1>7, TakeBackOnRecord
<1>8. QED BY <1>1, <1>2, <1>3, <1>4, <1>5, <1>6, <1>7 DEF OwnerNext

LEMMA OnRecordStep ==
  ASSUME NoPurgeUnderARun
  PROVE  TypeOK /\ OnRecord /\ [Next]_vars => OnRecord'
<1> SUFFICES ASSUME TypeOK, OnRecord, [Next]_vars PROVE OnRecord'
  OBVIOUS
<1>1. CASE UNCHANGED vars
  BY <1>1 DEF vars, OnRecord, RunsOnRecord, JobsOnRecord, JobOnRecord,
     CarriesIts, Listed, AskedAgain, HasRow, AnsweredBy, Resting
<1>2. QED
  BY <1>1, OwnerOnRecord, TurnOnRecord, JobOnRecordStep, CrashOnRecord DEF Next

LEMMA OnRecordInit == Init => OnRecord
<1> SUFFICES ASSUME Init PROVE OnRecord
  OBVIOUS
<1>1. RunsOnRecord
  BY NullJob DEF Init, RunsOnRecord, IdleRun, HasRow
<1>2. JobsOnRecord
  BY IdleOnRecord DEF Init, JobsOnRecord
<1>3. Listed
  BY DEF Init, Listed
<1>4. QED BY <1>1, <1>2, <1>3 DEF OnRecord

\* An answer that a finished run left in the room is listed by the row of its
\* question, whatever is asked, retried, edited, undone, deleted, stopped or
\* resumed meanwhile and wherever a crash falls, so that /undo and a deletion
\* find it again.  Only a /purge under a run loses one (purge.go:64).
THEOREM AnswersAlwaysOnRecord ==
  ASSUME NoPurgeUnderARun
  PROVE  Spec => []AnswersOnRecord
BY TypeInit, TypeStep, OnRecordInit, OnRecordStep, ListedIsOnRecord, PTL
DEF OnRecord, Spec

-----------------------------------------------------------------------------
(* What the owner who waits can count on: what a rewind has taken back     *)
(* stays out of every history, and what is on record is in it.  One thing  *)
(* happens at a time (OneAtATime); a run that has not answered is seen     *)
(* nowhere (RunIs); the branch of an exchange stays in its conversation    *)
(* (Tree); and of two turns of one conversation, the one whose exchange    *)
(* lies on the branch the other began from is the older one (RowsAre), so  *)
(* that taking back the newest leaves every other history alone.           *)

Early == {"idle", "spawned", "lookup", "rotate", "seed", "create", "begin",
          "sending"}
Opening == {"idle", "spawned", "lookup", "rotate", "seed", "create"}
Late == {"post", "advance", "record"}
Busy(r) == run[r].pc = "spawned" \/ Active(r)

\* An owner who waits has at most one goroutine under way.
OneAtATime ==
  /\ \A r \in Run : Busy(r) => /\ \A p \in Run \ {r} : ~Busy(p)
                               /\ \A c \in Cmds : job[c].at = "idle"
  /\ \A c, d \in Cmds : job[c].at # "idle" /\ c # d => job[d].at = "idle"

\* Runs begin in order, and the clock has not come to the next one.
InTurn ==
  /\ \A r, p \in Run : p < r /\ run[r].pc # "idle" => run[p].pc # "idle"
  /\ \A r \in Run : run[r].pc \in Early \cup Late => clock < r

\* The exchange of r is at most the tip of its own conversation.
Unseen(r) ==
  /\ \A n \in Node : n # r => r \notin branch[n]
  /\ \A q \in Run : row[q].parent # r /\ row[q].answer # r
  /\ \A p \in Run : run[p].from # r
  /\ r \notin rewound

\* r has no exchange yet.
Untold(r) ==
  /\ ~run[r].recorded /\ branch[r] = {}
  /\ \A s \in Run : sess[s].tip # r

\* r has opened no conversation.
Unopened(r) ==
  /\ sess[r].st = "none"
  /\ \A q \in Run : row[q].sess # r
  /\ \A p \in Run : run[p].held # r

Newest(q) ==
  /\ HasRow(q)
  /\ \A p \in Run : HasRow(p) /\ row[p].sess = row[q].sess
                      => row[p].at <= row[q].at

\* r is nowhere to be found.
Fresh(r) == Unseen(r) /\ Untold(r) /\ Unopened(r)

\* The branch that ends in n, with what has been deleted from it.
Lineage(n, s) == IF InConversation(n, s) THEN branch[n] ELSE {}

\* The exchange of r hangs below what it was sent under, or is orphaned.
Hangs(r) ==
  \/ branch[r] = {r}
  \/ branch[r] = {r} \cup Lineage(run[r].from, run[r].held)

\* What a run asks: its own question, or again the newest of a conversation.
Asks(r) ==
  /\ run[r].edits # r
  /\ run[r].pc = "idle" => run[r].edits = 0
  /\ run[r].pc # "idle" => /\ run[r].q \in Run
                           /\ run[r].q = r \/ run[r].edits = run[r].q
  /\ run[r].pc \in (Early \cup Late) \ {"idle"} /\ run[r].q # r
       => Newest(run[r].q)

\* What a run has done and not done, by where it is.
RunIs(r) ==
  /\ run[r].pc \in Opening => Fresh(r)
  /\ run[r].pc \in Early => Unseen(r) /\ Untold(r)
  /\ run[r].pc \in {"begin", "sending"} \cup Late => run[r].held \in Run
  /\ run[r].pc \in Late
       => /\ Unseen(r) /\ ~run[r].recorded
          /\ Hangs(r)
  /\ run[r].pc = "record" /\ Exists(run[r].held) => sess[run[r].held].tip = r
  /\ Asks(r)

\* A branch holds what its conversation holds.
Tree ==
  /\ \A n \in Run, m \in Node : m \in branch[n] => InConversation(m, run[n].held)
  /\ \A n \in Node : n > N => branch[n] = {n}
  /\ branch[0] = {}

\* A row is of the conversation its question was first answered in; rows are
\* of different ages, and what one of them began from is older than it.
RowsAre ==
  /\ \A q \in Run : HasRow(q) =>
       /\ row[q].sess \in Run /\ row[q].sess = run[q].held
       /\ run[q].recorded /\ row[q].at < clock
  /\ \A p, q \in Run : HasRow(p) /\ HasRow(q) /\ p # q => row[p].at # row[q].at
  /\ \A p, q \in Run :
       /\ HasRow(p) /\ HasRow(q) /\ row[p].sess = row[q].sess
       /\ run[row[q].answer].held = row[q].sess
       /\ row[q].answer \in Lineage(row[p].parent, row[p].sess)
       => row[q].at < row[p].at

\* What a command has read is still so.
JobIs(c) ==
  /\ job[c].at = "undo last" => job[c].s \in Live
  /\ job[c].at \in {"undo backend", "undo rewind"}
       => /\ job[c].q \in LastTurn
          /\ job[c].row = row[job[c].q]
          /\ job[c].s = job[c].row.sess
  /\ job[c].at \in {"taken back", "taken back last"} =>
       job[c].q \in Run /\ HasRow(job[c].q) /\ job[c].row = row[job[c].q]
  /\ job[c].at = "taken back rewind" => /\ job[c].q \in LastTurn
                                        /\ job[c].row = row[job[c].q]

Orderly ==
  /\ OneAtATime /\ InTurn
  /\ \A r \in Run : RunIs(r)
  /\ Tree /\ RowsAre
  /\ \A c \in Cmds : JobIs(c)

\* Nothing that was rewound can be seen from n.
Clean(n, s) == Lineage(n, s) \cap rewound = {}

NoStray == \A r \in Run : ~Strays(r)
AtHome(r) == run[r].edits # 0 /\ run[run[r].edits].recorded
               => run[r].held = run[run[r].edits].held

CleanTips == \A s \in Run : Exists(s) => Clean(sess[s].tip, s)
CleanRows == \A q \in Run : HasRow(q) => Clean(row[q].parent, row[q].sess)
CleanRun(r) ==
  /\ run[r].pc = "begin" => Clean(run[r].from, run[r].held)
  /\ run[r].pc = "sending" /\ AtHome(r) => Clean(run[r].from, run[r].held)
  /\ run[r].pc \in Late => Clean(run[r].from, run[r].held)
AllClean == NoStray => CleanTips /\ CleanRows /\ \A r \in Run : CleanRun(r)

NoFork == \A r \in Run : run[r].edits \in {0, run[r].q}

\* Nothing in conversation s is orphaned.
Whole(s) == \A r \in Run : run[r].held = s => ~Orphaned(r)

\* The answer of q, if it is of the conversation that q is, is seen from n.
InSight(q, n) ==
  run[row[q].answer].held = row[q].sess /\ Whole(row[q].sess)
    => row[q].answer \in Lineage(n, row[q].sess)

Forgetting(q) ==
  \E c \in Cmds : /\ job[c].q = q
                  /\ job[c].at \in {"undo forget", "taken back forget"}
Redoing(q) == \E r \in Run : run[r].pc = "record" /\ run[r].q = q

KeptTips ==
  \A q \in Run : HasRow(q) /\ Exists(row[q].sess)
    => InSight(q, sess[row[q].sess].tip) \/ Forgetting(q) \/ Redoing(q)
KeptRows ==
  \A p, q \in Run :
    /\ HasRow(p) /\ HasRow(q) /\ row[p].sess = row[q].sess
    /\ row[q].at < row[p].at
    => InSight(q, row[p].parent)
KeptRun(r) ==
  /\ run[r].pc = "begin" /\ run[r].q = r
       => \A q \in Run : HasRow(q) /\ row[q].sess = run[r].held
                           => InSight(q, run[r].from)
  /\ run[r].pc \in {"sending"} \cup Late
       => \A q \in Run \ {run[r].q} : HasRow(q) /\ row[q].sess = run[r].held
                                        => InSight(q, run[r].from)
  /\ run[r].pc \in {"spawned", "lookup"} /\ run[r].q # r
       => row[run[r].q].sess \in Live
  /\ run[r].pc \in {"begin", "sending"} \cup Late /\ run[r].q # r
       => \/ run[r].held = row[run[r].q].sess
          \/ \A q \in Run : row[q].sess # run[r].held
AllKept == crashes = 0 /\ NoFork => KeptTips /\ KeptRows /\ \A r \in Run : KeptRun(r)

\* The fields of a run, but for its cancellation, and a run that has them all.
Same(p) ==
  /\ run'[p].pc = run[p].pc /\ run'[p].q = run[p].q
  /\ run'[p].edits = run[p].edits /\ run'[p].held = run[p].held
  /\ run'[p].from = run[p].from /\ run'[p].recorded = run[p].recorded

LEMMA StopIsSame ==
  ASSUME TypeOK, NEW p \in Run,
         run'[p] = run[p] \/ run'[p] = [run[p] EXCEPT !.stop = TRUE]
  PROVE  Same(p)
BY DEF TypeOK, RunRec, Same

\* A step of r that changes nothing of it but where it is.
LEMMA StepIs ==
  ASSUME TypeOK, NEW r \in Run, NEW to, run' = [run EXCEPT ![r].pc = to]
  PROVE  /\ \A p \in Run \ {r} : run'[p] = run[p]
         /\ run'[r].pc = to
         /\ run'[r].q = run[r].q /\ run'[r].edits = run[r].edits
         /\ run'[r].held = run[r].held /\ run'[r].from = run[r].from
         /\ run'[r].recorded = run[r].recorded
<1>1. run[r] \in RunRec
  BY DEF TypeOK
<1>2. run' = [run EXCEPT ![r] = [run[r] EXCEPT !.pc = to]]
  BY DEF TypeOK
<1> DEFINE x == [run[r] EXCEPT !.pc = to]
<1>3. /\ x.pc = to /\ x.q = run[r].q /\ x.edits = run[r].edits
      /\ x.held = run[r].held /\ x.from = run[r].from
      /\ x.recorded = run[r].recorded
  BY <1>1 DEF RunRec
<1> HIDE DEF x
<1>4. run' = [run EXCEPT ![r] = x]
  BY <1>2 DEF x
<1>5. \A p \in Run : run'[p] = IF p = r THEN x ELSE run[p]
  BY <1>4 DEF TypeOK
<1>6. QED BY <1>3, <1>5

\* One that sets other fields of it too.
LEMMA SetIs ==
  ASSUME TypeOK, NEW r \in Run, NEW x, run' = [run EXCEPT ![r] = x]
  PROVE  run'[r] = x /\ \A p \in Run \ {r} : run'[p] = run[p] /\ Same(p)
BY DEF TypeOK, Same

LEMMA OpensAt ==
  ASSUME TypeOK, NEW r \in Run, NEW to, NEW s, NEW n,
         run' = [run EXCEPT ![r] = [@ EXCEPT !.pc = to, !.held = s,
                                             !.from = n]]
  PROVE  /\ \A p \in Run \ {r} : Same(p)
         /\ run'[r].pc = to /\ run'[r].held = s /\ run'[r].from = n
         /\ run'[r].q = run[r].q /\ run'[r].edits = run[r].edits
         /\ run'[r].recorded = run[r].recorded
<1>1. run[r] \in RunRec
  BY DEF TypeOK
<1> DEFINE x == [run[r] EXCEPT !.pc = to, !.held = s, !.from = n]
<1>2. /\ x.pc = to /\ x.q = run[r].q /\ x.edits = run[r].edits
      /\ x.held = s /\ x.from = n /\ x.recorded = run[r].recorded
  BY <1>1 DEF RunRec
<1>3. run' = [run EXCEPT ![r] = x]
  BY DEF TypeOK
<1> HIDE DEF x
<1>4. QED BY <1>2, <1>3, SetIs

LEMMA RotateIs ==
  ASSUME TypeOK, NEW r \in Run, MustRotate(r)
  PROVE  /\ \A p \in Run \ {r} : Same(p)
         /\ run'[r].pc = "rotate" /\ run'[r].held = LiveSession
         /\ run'[r].q = run[r].q /\ run'[r].edits = run[r].edits
         /\ run'[r].from = run[r].from
         /\ run'[r].recorded = run[r].recorded
<1>1. run[r] \in RunRec
  BY DEF TypeOK
<1> DEFINE x == [run[r] EXCEPT !.pc = "rotate", !.held = LiveSession]
<1>2. /\ x.pc = "rotate" /\ x.q = run[r].q /\ x.edits = run[r].edits
      /\ x.held = LiveSession /\ x.from = run[r].from
      /\ x.recorded = run[r].recorded
  BY <1>1 DEF RunRec
<1>3. run' = [run EXCEPT ![r] = x]
  BY DEF TypeOK, MustRotate
<1> HIDE DEF x
<1>4. QED BY <1>2, <1>3, SetIs

LEMMA BeginIs ==
  ASSUME TypeOK, NEW r \in Run, BeginSend(r)
  PROVE  /\ \A p \in Run \ {r} : Same(p)
         /\ run'[r].pc = "sending" /\ run'[r].from = ParentToSend(r)
         /\ run'[r].q = run[r].q /\ run'[r].edits = run[r].edits
         /\ run'[r].held = run[r].held
         /\ run'[r].recorded = run[r].recorded
<1>1. run[r] \in RunRec
  BY DEF TypeOK
<1> DEFINE x == [run[r] EXCEPT !.pc = "sending", !.from = ParentToSend(r)]
<1>2. /\ x.pc = "sending" /\ x.q = run[r].q /\ x.edits = run[r].edits
      /\ x.held = run[r].held /\ x.from = ParentToSend(r)
      /\ x.recorded = run[r].recorded
  BY <1>1 DEF RunRec
<1>3. run' = [run EXCEPT ![r] = x]
  BY DEF TypeOK, BeginSend
<1> HIDE DEF x
<1>4. QED BY <1>2, <1>3, SetIs

LEMMA RecordIs ==
  ASSUME TypeOK, NEW r \in Run, Record(r)
  PROVE  /\ \A p \in Run \ {r} : Same(p)
         /\ run'[r].pc = "finish" /\ run'[r].from = run[r].from
         /\ run'[r].q = run[r].q /\ run'[r].edits = run[r].edits
         /\ run'[r].held = run[r].held /\ run'[r].recorded
<1>1. run[r] \in RunRec
  BY DEF TypeOK
<1> DEFINE x == [run[r] EXCEPT !.pc = "finish", !.recorded = TRUE]
<1>2. /\ x.pc = "finish" /\ x.q = run[r].q /\ x.edits = run[r].edits
      /\ x.held = run[r].held /\ x.from = run[r].from /\ x.recorded
  BY <1>1 DEF RunRec
<1>3. run' = [run EXCEPT ![r] = x]
  BY DEF TypeOK, Record
<1> HIDE DEF x
<1>4. QED BY <1>2, <1>3, SetIs

\* What nothing but a step of r changes of the runs and of the histories.
Keeps(r) ==
  /\ \A p \in Run \ {r} : Same(p)
  /\ run[r].pc \notin Early
       => /\ run'[r].q = run[r].q /\ run'[r].edits = run[r].edits
          /\ run'[r].held = run[r].held /\ run'[r].from = run[r].from
          /\ branch' = branch
  /\ run[r].recorded => run'[r].recorded
  /\ \A n \in Node \ {r} : branch'[n] = branch[n]
  /\ UNCHANGED <<job, rewound, crashes>>

\* A step of a run.
Moves(r) ==
  /\ Busy(r) /\ Keeps(r)
  /\ run'[r].pc \in Running \cup {"done"}
  /\ run[r].pc = "finish" => run'[r].pc = "done"
  /\ run'[r].q = run[r].q /\ run'[r].edits = run[r].edits

LEMMA TurnMoves ==
  ASSUME TypeOK, NEW r \in Run, TurnStep(r)
  PROVE  /\ Moves(r)
         /\ \/ clock' = clock
            \/ Record(r) /\ clock' = OneMore(clock) /\ run'[r].pc = "finish"
<1> USE DEF Busy, Active, Running
<1>1. ASSUME NEW from \in Running, NEW to \in Running \cup {"done"}, Step(r, from, to),
             from = "finish" => to = "done",
             UNCHANGED <<job, rewound, crashes, branch, clock>>
      PROVE  Moves(r) /\ clock' = clock
  <2>1. run[r].pc = from /\ run' = [run EXCEPT ![r].pc = to]
    BY <1>1 DEF Step
  <2>2. /\ \A p \in Run \ {r} : Same(p)
        /\ run'[r].pc = to
        /\ run'[r].q = run[r].q /\ run'[r].edits = run[r].edits
        /\ run'[r].held = run[r].held /\ run'[r].from = run[r].from
        /\ run'[r].recorded = run[r].recorded
    BY <2>1, StepIs DEF Same
  <2>3. QED BY <1>1, <2>1, <2>2 DEF Moves, Keeps
<1>2. CASE Register(r)
  <2>1. /\ run[r].pc = "spawned"
        /\ run' = [p \in Run |->
                     IF p = r THEN [run[p] EXCEPT !.pc = "lookup"]
                     ELSE IF p = reg THEN [run[p] EXCEPT !.stop = TRUE]
                     ELSE run[p]]
        /\ UNCHANGED <<job, rewound, crashes, branch, clock>>
    BY <1>2 DEF Register, tables, ledger, backend
  <2>2. run[r] \in RunRec
    BY DEF TypeOK
  <2> DEFINE x == [run[r] EXCEPT !.pc = "lookup"]
  <2>3. /\ x.pc = "lookup" /\ x.q = run[r].q /\ x.edits = run[r].edits
        /\ x.recorded = run[r].recorded
    BY <2>2 DEF RunRec
  <2>4. \A p \in Run \ {r} : run'[p] = run[p] \/ run'[p] = [run[p] EXCEPT !.stop = TRUE]
    BY <2>1
  <2>5. \A p \in Run \ {r} : Same(p)
    BY <2>4, StopIsSame
  <2>6. run'[r] = x
    BY <2>1
  <2> HIDE DEF x
  <2>7. "spawned" \in Early
    BY DEF Early
  <2>8. QED BY <2>1, <2>3, <2>5, <2>6, <2>7 DEF Moves, Keeps
<1>3. CASE GiveUp(r)
  <2>1. /\ run' = [run EXCEPT ![r].pc = "finish"]
        /\ Active(r) /\ run[r].pc # "finish"
        /\ UNCHANGED <<job, rewound, crashes, branch, clock>>
    BY <1>3 DEF GiveUp, tables, ledger, backend
  <2>2. QED BY <2>1, StepIs DEF Moves, Keeps, Same
<1>4. CASE Continue(r)
  <2>1. /\ run[r].pc = "lookup" /\ run[r].pc \in Early
        /\ UNCHANGED <<job, rewound, crashes, branch, clock>>
    BY <1>4 DEF Continue, tables, ledger, backend, Early
  <2>2. QED BY <1>4, <2>1, OpensAt DEF Continue, Moves, Keeps
<1>5. CASE MustRotate(r)
  <2>1. /\ run[r].pc = "lookup" /\ run[r].pc \in Early
        /\ UNCHANGED <<job, rewound, crashes, branch, clock>>
    BY <1>5 DEF MustRotate, tables, ledger, backend, Early
  <2>2. QED BY <1>5, <2>1, RotateIs DEF Moves, Keeps
<1>6. CASE NoLiveSession(r)
  BY <1>1, <1>6 DEF NoLiveSession, tables, ledger, backend
<1>7. CASE Rotate(r)
  BY <1>1, <1>7 DEF Rotate, ledger, backend
<1>8. CASE NewConversation(r)
  BY <1>1, <1>8 DEF NewConversation, ledger
<1>9. CASE CreateSession(r)
  <2>1. /\ run[r].pc = "create" /\ run[r].pc \in Early
        /\ UNCHANGED <<job, rewound, crashes, branch, clock>>
    BY <1>9 DEF CreateSession, ledger, backend, Early
  <2>2. CASE SlotTaken(r)
    <3>1. Step(r, "create", "finish")
      BY <1>9, <2>2 DEF CreateSession, Step
    <3>2. QED BY <1>1, <2>1, <3>1
  <2>3. CASE ~SlotTaken(r)
    <3>1. run' = [run EXCEPT ![r] = [@ EXCEPT !.pc = "begin", !.held = r,
                                              !.from = 0]]
      BY <1>9, <2>3 DEF CreateSession
    <3>2. QED BY <2>1, <3>1, OpensAt DEF Moves, Keeps
  <2>4. QED BY <2>2, <2>3
<1>10. CASE BeginSend(r)
  <2>1. /\ run[r].pc = "begin" /\ run[r].pc \in Early
        /\ UNCHANGED <<job, rewound, crashes, branch, clock>>
    BY <1>10 DEF BeginSend, tables, ledger, backend, Early
  <2>2. QED BY <1>10, <2>1, BeginIs DEF Moves, Keeps
<1>11. CASE SendReturns(r)
  <2>1. /\ run[r].pc = "sending" /\ run[r].pc \in Early
        /\ run' = [run EXCEPT ![r].pc = "post"]
        /\ branch' = [branch EXCEPT ![r] =
                        {r} \cup Stored(run[r].from, run[r].held)]
        /\ UNCHANGED <<job, rewound, crashes, clock>>
    BY <1>11 DEF SendReturns, Step, tables, ledger, Early
  <2>2. \A n \in Node \ {r} : branch'[n] = branch[n]
    BY <2>1 DEF TypeOK
  <2>3. QED BY <2>1, <2>2, StepIs DEF Moves, Keeps, Same
<1>12. CASE SendFails(r)
  BY <1>1, <1>12 DEF SendFails, tables, ledger, backend
<1>13. CASE PostAnswer(r)
  BY <1>1, <1>13 DEF PostAnswer, tables, ledger, backend
<1>14. CASE PostFails(r)
  BY <1>1, <1>14 DEF PostFails, tables, ledger, backend
<1>15. CASE Advance(r)
  BY <1>1, <1>15 DEF Advance, ledger, backend
<1>16. CASE Record(r)
  <2>1. /\ run[r].pc = "record" /\ clock' = OneMore(clock)
        /\ UNCHANGED <<job, rewound, crashes, branch>>
    BY <1>16 DEF Record, ledger, backend
  <2>2. QED BY <1>16, <2>1, RecordIs DEF Moves, Keeps
<1>17. CASE Finish(r)
  BY <1>1, <1>17 DEF Finish, tables, ledger, backend
<1>18. QED
  BY <1>2, <1>3, <1>4, <1>5, <1>6, <1>7, <1>8, <1>9, <1>10, <1>11, <1>12, <1>13,
     <1>14, <1>15, <1>16, <1>17 DEF TurnStep

\* What a step of a command leaves alone, and that it is under way.
LEMMA JobMoves ==
  ASSUME TypeOK, NEW c \in Cmds, JobNext(c)
  PROVE  /\ job[c].at # "idle" /\ \A d \in Cmds \ {c} : job'[d] = job[d]
         /\ UNCHANGED <<run, branch, clock, crashes>>
<1> USE DEF TypeOK, JobStep, tables, backend, ledger
<1>1. CASE NewClose(c)
  BY <1>1 DEF NewClose
<1>2. CASE UndoReadLast(c)
  BY <1>2 DEF UndoReadLast
<1>3. CASE UndoRewind(c)
  BY <1>3 DEF UndoRewind
<1>4. CASE UndoForget(c)
  BY <1>4 DEF UndoForget
<1>5. CASE UndoRedact(c)
  BY <1>5 DEF UndoRedact
<1>6. CASE TakenBackReadLast(c)
  BY <1>6 DEF TakenBackReadLast
<1>7. CASE TakenBackRewind(c)
  BY <1>7 DEF TakenBackRewind
<1>8. CASE TakenBackForget(c)
  BY <1>8 DEF TakenBackForget
<1>9. CASE CompactClose(c)
  BY <1>9 DEF CompactClose
<1>10. CASE CompactMark(c)
  BY <1>10 DEF CompactMark
<1>11. CASE ResumeReadLive(c)
  BY <1>11 DEF ResumeReadLive
<1>12. CASE ResumeClose(c)
  BY <1>12 DEF ResumeClose
<1>13. CASE ResumeReopen(c)
  BY <1>13 DEF ResumeReopen
<1>14. CASE PurgeRoom(c)
  BY <1>14 DEF PurgeRoom
<1>15. CASE PurgeForget(c)
  BY <1>15 DEF PurgeForget
<1>16. CASE UndoBackend(c)
  BY <1>16 DEF UndoBackend
<1>17. CASE TakenBackBackend(c)
  BY <1>17 DEF TakenBackBackend
<1>18. QED
  BY <1>1, <1>2, <1>3, <1>4, <1>5, <1>6, <1>7, <1>8, <1>9, <1>10, <1>11, <1>12,
     <1>13, <1>14, <1>15, <1>16, <1>17 DEF JobNext

\* A command that starts, and what it leaves alone.
Starts(c) ==
  /\ \A d \in Cmds \ {c} : job'[d] = job[d]
  /\ JobIs(c)'
  /\ \A p \in Run : Same(p)
  /\ UNCHANGED <<sess, row, clock, branch, rewound, crashes>>

\* What the owner who waits does: a message, an edit or a /retry, a command,
\* or something that only cancels a run.
LEMMA OwnerMoves ==
  ASSUME Patient, TypeOK, OneLive, OwnerNext
  PROVE  /\ Settled
         /\ \/ \E r \in Run, q \in Run, e \in 0 .. N :
                 /\ Spawn(r, q, e)
                 /\ \/ q = r /\ (e = 0 \/ (e \in Run /\ run[e].pc # "idle"))
                    \/ q \in LastTurn /\ e = q
            \/ \E c \in Cmds : Starts(c)
            \/ /\ \A p \in Run : Same(p)
               /\ UNCHANGED <<job, sess, row, clock, branch, rewound, crashes>>
<1> DEFINE Stopped ==
      /\ \A p \in Run : Same(p)
      /\ UNCHANGED <<job, sess, row, clock, branch, rewound, crashes>>
<1>1. ASSUME run' = run PROVE \A p \in Run : Same(p)
  BY <1>1 DEF Same
<1>2. ASSUME NEW c \in Cmds, NEW op, NEW j, Start(c, op, j), run' = run,
             UNCHANGED <<sess, row, clock, branch, rewound, crashes>>,
             j.at \notin {"undo last", "undo backend", "undo rewind",
                          "taken back", "taken back last",
                          "taken back rewind"}
      PROVE  Settled /\ Starts(c)
  <2>1. job'[c] = j /\ \A d \in Cmds \ {c} : job'[d] = job[d]
    BY <1>2 DEF Start, TypeOK
  <2>2. JobIs(c)'
    BY <1>2, <2>1 DEF JobIs
  <2>3. Settled
    BY <1>2 DEF Start, MayDo
  <2>4. QED BY <1>1, <1>2, <2>1, <2>2, <2>3 DEF Starts
<1>3. ASSUME CancelRegistered PROVE \A p \in Run : Same(p)
  <2>1. \A p \in Run : run'[p] = run[p] \/ run'[p] = [run[p] EXCEPT !.stop = TRUE]
    BY <1>3 DEF CancelRegistered, TypeOK
  <2>2. QED BY <2>1, StopIsSame
<1>4. ASSUME NEW r \in Run, OnMessage(r)
      PROVE  Settled /\ \E q \in Run, e \in 0 .. N :
                 Spawn(r, q, e) /\ q = r /\ e = 0
  BY <1>4, ConversationAssumption DEF OnMessage, MayDo
<1>5. ASSUME NEW r \in Run, CommandRetry(r)
      PROVE  Settled /\ \E q \in Run, e \in 0 .. N :
                 Spawn(r, q, e) /\ q \in LastTurn /\ e = q
  BY <1>5, RunNumbers DEF CommandRetry, MayDo, LastTurn
<1>6. ASSUME NEW r \in Run, NEW o \in Run, OnEdit(r, o)
      PROVE  Settled /\ \E q \in Run, e \in 0 .. N :
                 Spawn(r, q, e) /\ q = r /\ e \in Run /\ run[e].pc # "idle"
  BY <1>6, RunNumbers DEF OnEdit, MayDo
<1>7. ASSUME CommandStop PROVE Settled /\ Stopped
  BY <1>7, <1>3 DEF CommandStop, MayDo, tables, backend, ledger
<1>8. ASSUME NEW q \in Run, OnRedactionCancel(q) PROVE Settled /\ Stopped
  BY <1>8, <1>3 DEF OnRedactionCancel, MayDo, tables, backend
<1>9. ASSUME NEW c \in Cmds, CommandNew(c) PROVE Settled /\ Starts(c)
  <2> DEFINE j == [IdleJob EXCEPT !.at = "new", !.s = LiveSession]
  <2>1. j.at = "new"
    BY DEF IdleJob
  <2>2. /\ Start(c, "new", j) /\ run' = run
        /\ UNCHANGED <<sess, row, clock, branch, rewound, crashes>>
    BY <1>9 DEF CommandNew, tables, backend, ledger
  <2> HIDE DEF j
  <2>3. QED BY <1>2, <2>1, <2>2
<1>10. ASSUME NEW c \in Cmds, CommandUndo(c) PROVE Settled /\ Starts(c)
  <2> DEFINE j == [IdleJob EXCEPT !.at = "undo last", !.s = LiveSession]
  <2>1. j.at = "undo last" /\ j.s = LiveSession
    BY DEF IdleJob
  <2>2. /\ Start(c, "undo", j) /\ run' = run /\ LiveSession # 0
        /\ UNCHANGED <<sess, row, clock, branch, rewound, crashes>>
    BY <1>10 DEF CommandUndo, tables, backend, ledger
  <2> HIDE DEF j
  <2>3. job'[c] = j /\ \A d \in Cmds \ {c} : job'[d] = job[d]
    BY <2>2 DEF Start, TypeOK
  <2>4. LiveSession \in Live /\ Live' = Live
    BY <2>2, LiveSessionType DEF Live
  <2>5. JobIs(c)'
    BY <2>1, <2>3, <2>4 DEF JobIs
  <2>6. Settled
    BY <2>2 DEF Start, MayDo
  <2>7. QED BY <1>1, <2>2, <2>3, <2>5, <2>6 DEF Starts
<1>11. ASSUME NEW c \in Cmds, CommandCompact(c) PROVE Settled /\ Starts(c)
  <2> DEFINE j == [IdleJob EXCEPT !.at = "compact", !.s = LiveSession]
  <2>1. j.at = "compact"
    BY DEF IdleJob
  <2>2. /\ Start(c, "compact", j) /\ run' = run
        /\ UNCHANGED <<sess, row, clock, branch, rewound, crashes>>
    BY <1>11 DEF CommandCompact, tables, backend, ledger
  <2> HIDE DEF j
  <2>3. QED BY <1>2, <2>1, <2>2
<1>12. ASSUME NEW c \in Cmds, CommandPurge(c) PROVE Settled /\ Starts(c)
  <2> DEFINE j == [IdleJob EXCEPT !.at = "purge"]
  <2>1. j.at = "purge"
    BY DEF IdleJob
  <2>2. /\ Start(c, "purge", j) /\ run' = run
        /\ UNCHANGED <<sess, row, clock, branch, rewound, crashes>>
    BY <1>12 DEF CommandPurge, tables, backend, ledger
  <2> HIDE DEF j
  <2>3. QED BY <1>2, <2>1, <2>2
<1>13. ASSUME NEW c \in Cmds, NEW t \in Run, CommandResume(c, t)
       PROVE  Settled /\ Starts(c)
  <2> DEFINE j == [IdleJob EXCEPT !.at = "resume", !.t = t]
  <2>1. j.at = "resume"
    BY DEF IdleJob
  <2>2. /\ Start(c, "resume", j) /\ run' = run
        /\ UNCHANGED <<sess, row, clock, branch, rewound, crashes>>
    BY <1>13 DEF CommandResume, tables, backend, ledger
  <2> HIDE DEF j
  <2>3. QED BY <1>2, <2>1, <2>2
<1>14. ASSUME NEW c \in Cmds, NEW q \in Run, OnRedactionUndo(c, q)
       PROVE  Settled /\ Starts(c)
  <2> DEFINE j == IF HasRow(q)
                  THEN [IdleJob EXCEPT !.at = "taken back", !.q = q, !.row = row[q]]
                  ELSE IdleJob
  <2>1. /\ HasRow(q) => j.at = "taken back" /\ j.q = q /\ j.row = row[q]
        /\ ~HasRow(q) => j.at = "idle"
    BY DEF IdleJob
  <2>2. /\ Start(c, "redact", j) /\ run' = run
        /\ UNCHANGED <<sess, row, clock, branch, rewound, crashes>>
    BY <1>14 DEF OnRedactionUndo, tables, backend
  <2> HIDE DEF j
  <2>3. job'[c] = j /\ \A d \in Cmds \ {c} : job'[d] = job[d]
    BY <2>2 DEF Start, TypeOK
  <2>4. HasRow(q)' <=> HasRow(q)
    BY <2>2 DEF HasRow
  <2>5. JobIs(c)'
    BY <2>1, <2>2, <2>3, <2>4 DEF JobIs, HasRow
  <2>6. Settled
    BY <2>2 DEF Start, MayDo
  <2>7. QED BY <1>1, <2>2, <2>3, <2>5, <2>6 DEF Starts
<1> DEFINE Spawns == \E r \in Run, q \in Run, e \in 0 .. N :
                 /\ Spawn(r, q, e)
                 /\ \/ q = r /\ (e = 0 \/ (e \in Run /\ run[e].pc # "idle"))
                    \/ q \in LastTurn /\ e = q
<1>15. ASSUME NEW r \in Run, OnMessage(r) \/ CommandRetry(r)
       PROVE  Settled /\ Spawns
  <2>1. CASE OnMessage(r)
    <3>1. PICK q \in Run, e \in 0 .. N : Spawn(r, q, e) /\ q = r /\ e = 0
      BY <1>4, <2>1
    <3>2. q = r /\ (e = 0 \/ (e \in Run /\ run[e].pc # "idle"))
      BY <3>1
    <3>3. Spawns
      BY <3>1, <3>2, Zenon
    <3>4. QED BY <1>4, <2>1, <3>3
  <2>2. CASE CommandRetry(r)
    <3>1. PICK q \in Run, e \in 0 .. N : Spawn(r, q, e) /\ q \in LastTurn /\ e = q
      BY <1>5, <2>2
    <3>2. QED BY <1>5, <2>2, <3>1
  <2>3. QED BY <1>15, <2>1, <2>2
<1>16. ASSUME NEW r \in Run, NEW o \in Run, OnEdit(r, o)
       PROVE  Settled /\ Spawns
  BY <1>6, <1>16
<1>17. ASSUME NEW c \in Cmds,
              \/ CommandNew(c) \/ CommandUndo(c) \/ CommandCompact(c) \/ CommandPurge(c)
              \/ \E q \in Run : OnRedactionUndo(c, q)
              \/ \E t \in Run : CommandResume(c, t)
       PROVE  Settled /\ Starts(c)
  BY <1>9, <1>10, <1>11, <1>12, <1>13, <1>14, <1>17
<1> HIDE DEF Spawns, Stopped
<1>18. Settled /\ (Spawns \/ Stopped \/ \E c \in Cmds : Starts(c))
  BY <1>7, <1>8, <1>15, <1>16, <1>17, Zenon DEF OwnerNext
<1>19. QED BY <1>18 DEF Spawns, Stopped

Quiet == {"idle", "done", "dead"}

\* While a run is under way everything else rests.
LEMMA Alone ==
  ASSUME TypeOK, OneAtATime, NEW r \in Run, Busy(r)
  PROVE  /\ \A p \in Run \ {r} : run[p].pc \in Quiet
         /\ \A c \in Cmds : job[c].at = "idle"
BY DEF OneAtATime, Busy, Active, Running, TypeOK, RunRec, Pc, Quiet

\* While a command is under way everything else rests.
LEMMA Waiting ==
  ASSUME TypeOK, OneAtATime, NEW c \in Cmds, job[c].at # "idle"
  PROVE  /\ \A p \in Run : run[p].pc \in Quiet
         /\ \A d \in Cmds \ {c} : job[d].at = "idle"
BY DEF OneAtATime, Busy, Active, Running, TypeOK, RunRec, Pc, Quiet

\* A node that is not an exchange still to come belongs where it did and ends
\* the branch it did.
LEMMA HistoryStays ==
  ASSUME TypeOK, NEW r \in Run, Keeps(r)
  PROVE  \A n \in Node :
           n # r \/ run[r].pc \notin Early
             => \A s : /\ InConversation(n, s)' = InConversation(n, s)
                       /\ Lineage(n, s)' = Lineage(n, s)
<1> SUFFICES ASSUME NEW n \in Node, n # r \/ run[r].pc \notin Early, NEW s
             PROVE  /\ InConversation(n, s)' = InConversation(n, s)
                    /\ Lineage(n, s)' = Lineage(n, s)
  OBVIOUS
<1>1. n \in Run => run'[n].held = run[n].held
  BY DEF Keeps, Same
<1>2. branch'[n] = branch[n]
  BY DEF Keeps
<1>3. InConversation(n, s)' = InConversation(n, s)
  BY <1>1 DEF InConversation
<1>4. QED BY <1>2, <1>3 DEF Lineage

\* An exchange that is seen belongs to the conversation that shows it.
LEMMA InHistory ==
  ASSUME TypeOK, Tree, NEW n \in Node, NEW s \in Run,
         NEW m \in Lineage(n, s)
  PROVE  m \in Node /\ InConversation(m, s)
<1>1. InConversation(n, s) /\ m \in branch[n] /\ m \in Node
  BY DEF Lineage, TypeOK
<1>2. CASE n \in Run /\ run[n].held = s
  BY <1>1, <1>2 DEF Tree
<1>3. CASE n = Seed(s)
  <2>1. n > N
    BY <1>3, ConversationAssumption DEF Seed, Run
  <2>2. m = n
    BY <1>1, <2>1 DEF Tree
  <2>3. QED BY <1>1, <2>2
<1>4. QED BY <1>1, <1>2, <1>3 DEF InConversation

LEMMA SeenIsHeld ==
  ASSUME TypeOK, Tree, NEW n \in Node, NEW s \in Run, NEW a \in Run,
         a \in Lineage(n, s)
  PROVE  run[a].held = s
<1>1. InConversation(a, s)
  BY InHistory, RunNumbers
<1>2. a # Seed(s)
  BY ConversationAssumption DEF Seed, Run
<1>3. QED BY <1>1, <1>2 DEF InConversation

\* The branches that do not change stay in their conversations.
LEMMA TreeStays ==
  ASSUME TypeOK, NEW r \in Run, Keeps(r), RunIs(r), Tree, branch' = branch
  PROVE  Tree'
<1>1. ASSUME NEW n \in Run, NEW m \in Node, m \in branch[n]
      PROVE  InConversation(m, run[n].held)'
  <2>1. n # r \/ run[r].pc \notin Early
    BY <1>1 DEF RunIs, Untold
  <2>2. m # r \/ run[r].pc \notin Early
    BY <1>1, <2>1, RunNumbers DEF RunIs, Unseen
  <2>3. run'[n].held = run[n].held
    BY <2>1 DEF Keeps, Same
  <2>4. InConversation(m, run[n].held)
    BY <1>1 DEF Tree
  <2>5. InConversation(m, run[n].held)' = InConversation(m, run'[n].held)
    <3>1. m \in Run => run'[m].held = run[m].held
      BY <2>2 DEF Keeps, Same
    <3>2. QED BY <2>3, <3>1 DEF InConversation
  <2>6. QED BY <2>3, <2>4, <2>5
<1>2. QED BY <1>1 DEF Tree

\* What a row says stays so.
LEMMA RowsStay ==
  ASSUME TypeOK, NEW r \in Run, Keeps(r), RunIs(r), RowsAre,
         row' = row, clock' = clock
  PROVE  RowsAre'
<1>1. \A q \in Run : HasRow(q)' = HasRow(q)
  BY DEF HasRow
<1>2. ASSUME NEW q \in Run, HasRow(q)
      PROVE  /\ q # r \/ run[r].pc \notin Early
             /\ row[q].answer \in Run
             /\ row[q].answer # r \/ run[r].pc \notin Early
             /\ row[q].parent \in Node
             /\ row[q].parent # r \/ run[r].pc \notin Early
             /\ row[q].sess \in Run
  <2>1. run[q].recorded /\ row[q].sess \in Run
    BY <1>2 DEF RowsAre
  <2>2. row[q] \in Row
    BY DEF TypeOK
  <2>3. row[q].answer \in Run /\ row[q].parent \in Node
    BY <1>2, <2>2, ConversationAssumption DEF Row, HasRow, Run
  <2>4. QED BY <2>1, <2>3 DEF RunIs, Unseen, Untold
<1>3. ASSUME NEW q \in Run, HasRow(q)
      PROVE  run'[q].held = run[q].held /\ run'[q].recorded
  BY <1>2, <1>3 DEF Keeps, Same, RowsAre
<1>4. ASSUME NEW q \in Run, HasRow(q)
      PROVE  run'[row[q].answer].held = run[row[q].answer].held
  BY <1>2, <1>4 DEF Keeps, Same
<1>5. ASSUME NEW p \in Run, HasRow(p)
      PROVE  Lineage(row[p].parent, row[p].sess)' = Lineage(row[p].parent, row[p].sess)
  <2>1. \A s : Lineage(row[p].parent, s)' = Lineage(row[p].parent, s)
    <3>1. row'[p] = row[p]
      OBVIOUS
    <3>2. QED BY <1>2, <1>5, <3>1, HistoryStays
  <2>2. QED BY <2>1
<1>6. QED BY <1>1, <1>2, <1>3, <1>4, <1>5 DEF RowsAre

\* A rerun that has strayed has.
LEMMA StraysOn ==
  ASSUME TypeOK, NEW r \in Run, Keeps(r), RunIs(r), NoStray'
  PROVE  NoStray
<1> SUFFICES ASSUME NEW p \in Run, Strays(p) PROVE Strays(p)'
  BY DEF NoStray
<1> DEFINE o == run[p].edits
<1>1. o # 0 /\ run[o].recorded /\ p \in branch[p] /\ run[p].held # run[o].held
  BY DEF Strays
<1>2. o \in Run
  BY <1>1, ConversationAssumption DEF TypeOK, RunRec, Run
<1>3. p # r \/ run[r].pc \notin Early
  BY <1>1 DEF RunIs, Untold
<1>4. o # r \/ run[r].pc \notin Early
  BY <1>1 DEF RunIs, Untold
<1>5. /\ run'[p].edits = o /\ run'[p].held = run[p].held /\ branch'[p] = branch[p]
      /\ run'[o].held = run[o].held
  BY <1>2, <1>3, <1>4, RunNumbers DEF Keeps, Same
<1>6. run'[o].recorded
  BY <1>1, <1>2 DEF Keeps, Same
<1> HIDE DEF o
<1>7. QED BY <1>1, <1>5, <1>6 DEF Strays

\* What cannot be seen from n before it has been rewound cannot afterwards.
LEMMA CleanRowsStay ==
  ASSUME TypeOK, NEW r \in Run, Keeps(r), RunIs(r), RowsAre, row' = row,
         CleanRows
  PROVE  CleanRows'
<1>1. SUFFICES ASSUME NEW q \in Run, HasRow(q)
               PROVE  Clean(row[q].parent, row[q].sess)'
  BY DEF CleanRows, HasRow
<1>2. row[q].parent \in Node
  BY DEF TypeOK, Row
<1>3. row[q].parent # r \/ run[r].pc \notin Early
  BY DEF RunIs, Unseen
<1>4. \A s : Lineage(row[q].parent, s)' = Lineage(row[q].parent, s)
  <2>1. row'[q] = row[q]
    OBVIOUS
  <2>2. QED BY <1>2, <1>3, <2>1, HistoryStays
<1>5. rewound' = rewound
  BY DEF Keeps
<1>6. QED BY <1>1, <1>4, <1>5 DEF CleanRows, Clean

LEMMA CleanTipsStay ==
  ASSUME TypeOK, NEW r \in Run, Keeps(r), RunIs(r), CleanTips,
         \A s \in Run : Exists(s)' => Exists(s) /\ sess'[s].tip = sess[s].tip
  PROVE  CleanTips'
<1>1. SUFFICES ASSUME NEW s \in Run, Exists(s)'
               PROVE  Clean(sess[s].tip, s)'
  BY DEF CleanTips
<1>2. Exists(s) /\ sess'[s].tip = sess[s].tip
  BY <1>1
<1>3. sess[s].tip \in Node
  BY DEF TypeOK, SessRec
<1>4. sess[s].tip # r \/ run[r].pc \notin Early
  BY DEF RunIs, Untold
<1>5. Lineage(sess[s].tip, s)' = Lineage(sess[s].tip, s)
  BY <1>2, <1>3, <1>4, HistoryStays
<1>6. rewound' = rewound
  BY DEF Keeps
<1>7. QED BY <1>2, <1>5, <1>6 DEF CleanTips, Clean

\* Whether the answer of q is seen from n.
\* An exchange that is orphaned stays so.
LEMMA OrphansStay ==
  ASSUME TypeOK, NEW r \in Run, Keeps(r), RunIs(r)
  PROVE  \A s : Whole(s)' => Whole(s)
<1> SUFFICES ASSUME NEW s, Whole(s)', NEW p \in Run, run[p].held = s,
                    Orphaned(p)
             PROVE  FALSE
  BY DEF Whole
<1>1. /\ branch[p] = {p} /\ InConversation(run[p].from, run[p].held)
      /\ run[p].from \in Node
  BY DEF Orphaned, TypeOK, RunRec
<1>2. p # r \/ run[r].pc \notin Early
  BY <1>1 DEF RunIs, Untold
<1>3. /\ run'[p].held = s /\ run'[p].from = run[p].from
      /\ branch'[p] = {p}
  BY <1>1, <1>2, RunNumbers DEF Keeps, Same
<1>4. run[p].from # r \/ run[r].pc \notin Early
  BY DEF RunIs, Unseen
<1>5. InConversation(run[p].from, run[p].held)'
  <2>1. \A n \in Node : n # r \/ run[r].pc \notin Early
          => \A u : InConversation(n, u)' = InConversation(n, u)
    BY HistoryStays
  <2> DEFINE m == run[p].from
  <2>2. m \in Node /\ (m # r \/ run[r].pc \notin Early)
    BY <1>1, <1>4
  <2>3. InConversation(m, s)
    BY <1>1
  <2>4. run'[p].from = m
    BY <1>3
  <2>5. PICK n \in Node : n = m
    BY <2>2
  <2>6. InConversation(n, s)'
    BY <2>1, <2>2, <2>3, <2>5
  <2>7. QED BY <1>3, <2>4, <2>5, <2>6 DEF InConversation
<1>6. Orphaned(p)'
  BY <1>3, <1>5 DEF Orphaned
<1>7. QED BY <1>3, <1>6 DEF Whole

LEMMA InSightStays ==
  ASSUME TypeOK, NEW r \in Run, Keeps(r), RunIs(r),
         NEW q \in Run, HasRow(q), row'[q] = row[q]
  PROVE  \A n \in Node :
           n # r \/ run[r].pc \notin Early => (InSight(q, n) => InSight(q, n)')
<1> SUFFICES ASSUME NEW n \in Node, n # r \/ run[r].pc \notin Early
             PROVE  InSight(q, n) => InSight(q, n)'
  OBVIOUS
<1>1. row[q].answer \in Run
  BY ConversationAssumption DEF HasRow, TypeOK, Row, Run
<1>2. row[q].answer # r \/ run[r].pc \notin Early
  BY DEF RunIs, Unseen
<1>3. run'[row[q].answer].held = run[row[q].answer].held
  BY <1>1, <1>2 DEF Keeps, Same
<1>4. \A s : Lineage(n, s)' = Lineage(n, s)
  BY HistoryStays
<1>5. Whole(row[q].sess)' => Whole(row[q].sess)
  BY OrphansStay
<1>6. QED BY <1>3, <1>4, <1>5 DEF InSight

LEMMA KeptRowsStay ==
  ASSUME TypeOK, NEW r \in Run, Keeps(r), RunIs(r), row' = row, KeptRows
  PROVE  KeptRows'
<1>1. \A q \in Run : HasRow(q)' = HasRow(q)
  BY DEF HasRow
<1>2. SUFFICES ASSUME NEW p \in Run, NEW q \in Run, HasRow(p), HasRow(q),
                      row[p].sess = row[q].sess, row[q].at < row[p].at
               PROVE  InSight(q, row[p].parent)'
  BY <1>1 DEF KeptRows
<1>3. row[p].parent \in Node /\ (row[p].parent # r \/ run[r].pc \notin Early)
  BY DEF TypeOK, Row, RunIs, Unseen
<1>4. InSight(q, row[p].parent)
  BY <1>2 DEF KeptRows
<1>5. QED BY <1>2, <1>3, <1>4, InSightStays

\* The conversations, too, stay as they are.
LEMMA KeptTipsStay ==
  ASSUME TypeOK, NEW r \in Run, Keeps(r), RunIs(r), row' = row, KeptTips,
         \A s \in Run : Exists(s)' => Exists(s) /\ sess'[s].tip = sess[s].tip,
         \A q \in Run : Redoing(q) => Redoing(q)',
         RowsAre
  PROVE  KeptTips'
<1>1. SUFFICES ASSUME NEW q \in Run, HasRow(q), Exists(row[q].sess)',
                      ~Forgetting(q), ~Redoing(q)'
               PROVE  InSight(q, sess[row[q].sess].tip)'
  <2>1. \A q \in Run : /\ HasRow(q)' = HasRow(q)
                       /\ Forgetting(q)' = Forgetting(q)
    BY DEF HasRow, Forgetting, Keeps
  <2>2. QED BY <2>1 DEF KeptTips
<1> DEFINE s == row[q].sess
           n == sess[s].tip
<1>2. s \in Run
  BY <1>1 DEF RowsAre
<1>3. Exists(s) /\ sess'[s].tip = n
  BY <1>1, <1>2
<1>4. n \in Node /\ (n # r \/ run[r].pc \notin Early)
  BY <1>2 DEF TypeOK, SessRec, RunIs, Untold
<1>5. InSight(q, n)
  BY <1>1, <1>3 DEF KeptTips
<1>6. \A m \in Node : m = n => (InSight(q, m) => InSight(q, m)')
  BY <1>1, <1>4, InSightStays
<1>7. \A m \in Node : m = n => InSight(q, m)'
  BY <1>5, <1>6
<1>8. QED BY <1>3, <1>4, <1>7

\* A step that does not name p leaves it fresh.
LEMMA FreshStays ==
  ASSUME TypeOK, NEW r \in Run, Keeps(r), NEW p \in Run \ {r}, Fresh(p),
         run'[r].from # p, run'[r].held # p, p \notin branch'[r],
         \A q \in Run : /\ row'[q].parent # p /\ row'[q].answer # p
                        /\ row'[q].sess # p,
         \A s \in Run : sess'[s].tip # p,
         sess'[p].st = "none"
  PROVE  Fresh(p)'
<1>1. Unseen(p)'
  BY RunNumbers DEF Keeps, Same, Fresh, Unseen
<1>2. Untold(p)'
  BY RunNumbers DEF Keeps, Same, Fresh, Untold
<1>3. Unopened(p)'
  BY DEF Keeps, Same, Fresh, Unopened
<1>4. QED BY <1>1, <1>2, <1>3 DEF Fresh

\* The runs that rest are what they were.
LEMMA OthersAre ==
  ASSUME TypeOK, NEW r \in Run, Keeps(r),
         \A p \in Run \ {r} : /\ run[p].pc \in Quiet /\ RunIs(p)
                              /\ run[p].pc = "idle" => Fresh(p)'
  PROVE  \A p \in Run \ {r} : RunIs(p)'
<1> SUFFICES ASSUME NEW p \in Run \ {r} PROVE RunIs(p)'
  OBVIOUS
<1>1. /\ run'[p].pc = run[p].pc /\ run'[p].q = run[p].q
      /\ run'[p].edits = run[p].edits /\ run[p].pc \in Quiet
  BY DEF Keeps, Same
<1>2. Asks(p)'
  BY <1>1 DEF RunIs, Asks, Quiet, Early, Late
<1>3. run[p].pc = "idle" => Fresh(p)'
  OBVIOUS
<1>4. QED BY <1>1, <1>2, <1>3 DEF RunIs, Quiet, Early, Late, Opening, Fresh

\* One at a time, and in order.
LEMMA TurnInOrder ==
  ASSUME TypeOK, OneAtATime, InTurn, NEW r \in Run, TurnStep(r)
  PROVE  OneAtATime' /\ InTurn'
<1>1. Moves(r)
  BY TurnMoves
<1>2. /\ \A p \in Run \ {r} : run[p].pc \in Quiet /\ run'[p].pc = run[p].pc
      /\ \A c \in Cmds : job[c].at = "idle" /\ job'[c] = job[c]
  BY <1>1, Alone DEF Moves, Keeps, Same
<1>3. /\ run[r].pc # "idle" /\ run'[r].pc # "idle"
      /\ run'[r].pc \in Early \cup Late => run[r].pc \in Early \cup Late
  BY <1>1 DEF Moves, Busy, Active, Running, Early, Late
<1>4. OneAtATime'
  BY <1>2 DEF OneAtATime, Busy, Active, Running, Quiet
<1>5. ASSUME NEW q \in Run, run'[q].pc \in Early \cup Late
      PROVE  clock' < q
  <2>1. CASE q = r
    <3>1. clock' = clock
      BY <1>5, <2>1, TurnMoves DEF Early, Late
    <3>2. QED BY <1>3, <1>5, <2>1, <3>1 DEF InTurn
  <2>2. CASE q # r
    <3>1. run[q].pc = "idle" /\ clock < q
      BY <1>2, <1>5, <2>2 DEF Quiet, Early, Late, InTurn
    <3>2. r < q
      BY <1>3, <2>2, <3>1, ConversationAssumption DEF InTurn, Run
    <3>3. CASE clock' = clock
      BY <3>1, <3>3
    <3>4. CASE Record(r) /\ clock' = OneMore(clock)
      <4>1. clock < r
        BY <3>4 DEF Record, InTurn, Late
      <4>2. QED
        BY <3>2, <3>4, <4>1, ConversationAssumption DEF OneMore, TypeOK, Run
    <3>5. QED BY <3>3, <3>4, TurnMoves
  <2>3. QED BY <2>1, <2>2
<1>6. ASSUME NEW q \in Run, NEW p \in Run, p < q, run'[q].pc # "idle"
      PROVE  run'[p].pc # "idle"
  BY <1>2, <1>3, <1>6 DEF InTurn
<1>7. QED BY <1>4, <1>5, <1>6 DEF InTurn

\* A step of r that changes no row.
LEMMA AsksStays ==
  ASSUME TypeOK, NEW r \in Run, Moves(r), Asks(r), row' = row
  PROVE  Asks(r)'
<1>1. /\ run[r].pc # "idle" /\ run'[r].pc # "idle"
      /\ run'[r].pc \in Early \cup Late => run[r].pc \in Early \cup Late
  BY DEF Moves, Busy, Active, Running, Early, Late
<1>2. run'[r].q = run[r].q /\ run'[r].edits = run[r].edits
  BY DEF Moves
<1>3. Newest(run[r].q) => Newest(run[r].q)'
  BY <1>2 DEF Newest, HasRow
<1>4. QED BY <1>1, <1>2, <1>3 DEF Asks

\* A step of a run that neither opens, answers nor records anything.
Calm(r) ==
  /\ Moves(r)
  /\ UNCHANGED <<row, clock, branch>>
  /\ run'[r].from = run[r].from
  /\ run[r].recorded \/ ~run'[r].recorded
  /\ \/ run'[r].held = run[r].held
     \/ run'[r].pc = "rotate" /\ run'[r].held \in Live
  /\ \A s \in Run : /\ sess'[s].tip = sess[s].tip /\ (Exists(s)' <=> Exists(s))
                    /\ sess[s].st = "none" => sess'[s].st = "none"
  /\ run'[r].pc = "lookup" => sess' = sess /\ run[r].pc = "spawned"
  /\ \/ run[r].pc \in Opening /\ run'[r].pc \in Opening
     \/ run[r].pc # "record" /\ run'[r].pc \in {"finish", "done"}
     \/ run[r].pc = "post" /\ run'[r].pc = "advance"

LEMMA TurnIsCalm ==
  ASSUME TypeOK, NEW r \in Run, TurnStep(r)
  PROVE  \/ Calm(r)
         \/ Continue(r) \/ BeginSend(r) \/ SendReturns(r) \/ Advance(r)
         \/ Record(r) \/ (CreateSession(r) /\ ~SlotTaken(r))
<1> DEFINE Keep == /\ run'[r].from = run[r].from
                   /\ run[r].recorded \/ ~run'[r].recorded
<1> DEFINE Sess == \A s \in Run :
                     /\ sess'[s].tip = sess[s].tip /\ (Exists(s)' <=> Exists(s))
                     /\ sess[s].st = "none" => sess'[s].st = "none"
<1>1. Moves(r)
  BY TurnMoves
<1>2. ASSUME sess' = sess PROVE Sess
  BY <1>2 DEF Exists
<1>3. ASSUME NEW s \in 0 .. N, sess' = CloseSession(s) PROVE Sess
  <2>1. \A t \in Run : \/ sess'[t] = sess[t]
                       \/ sess[t].st = "live" /\ sess'[t] = [sess[t] EXCEPT !.st = "closed"]
    BY <1>3 DEF CloseSession, TypeOK, SessRec
  <2>2. \A t \in Run : sess[t] \in SessRec
    BY DEF TypeOK
  <2>3. QED BY <2>1, <2>2 DEF Exists, SessRec
<1>4. ASSUME NEW from, NEW to, Step(r, from, to)
      PROVE  /\ run[r].pc = from /\ run'[r].pc = to /\ Keep
             /\ run'[r].held = run[r].held
  BY <1>4, StepIs DEF Step
<1> HIDE DEF Keep, Sess
<1>5. CASE Register(r)
  <2>1. run'[r] = [run[r] EXCEPT !.pc = "lookup"] /\ run[r].pc = "spawned"
    BY <1>5 DEF Register
  <2>2. run[r] \in RunRec
    BY DEF TypeOK
  <2>3. Keep /\ run'[r].held = run[r].held /\ run'[r].pc = "lookup"
    BY <2>1, <2>2 DEF RunRec, Keep
  <2>4. UNCHANGED <<sess, row, clock, branch>>
    BY <1>5 DEF Register, tables, backend
  <2>5. QED BY <1>1, <1>2, <2>1, <2>3, <2>4 DEF Calm, Opening, Keep, Sess
<1>6. CASE GiveUp(r)
  <2>1. run' = [run EXCEPT ![r].pc = "finish"]
        /\ run[r].pc \in {"lookup", "seed", "create", "sending"}
        /\ UNCHANGED <<sess, row, clock, branch>>
    BY <1>6 DEF GiveUp, tables, backend
  <2>2. Step(r, run[r].pc, "finish")
    BY <2>1 DEF Step
  <2>3. QED BY <1>1, <1>2, <1>4, <2>1, <2>2 DEF Calm, Keep, Sess
<1>7. CASE MustRotate(r)
  <2>1. /\ run[r].pc = "lookup" /\ LiveSession # 0
        /\ UNCHANGED <<sess, row, clock, branch>>
    BY <1>7 DEF MustRotate, tables, backend
  <2>2. run'[r].pc = "rotate" /\ run'[r].held \in Live /\ Keep
    BY <1>7, <2>1, RotateIs, LiveSessionType DEF Keep
  <2>3. QED BY <1>1, <1>2, <2>1, <2>2 DEF Calm, Opening, Keep, Sess
<1>8. CASE NoLiveSession(r)
  <2>1. Step(r, "lookup", "seed") /\ UNCHANGED <<sess, row, clock, branch>>
    BY <1>8 DEF NoLiveSession, tables, backend
  <2>2. QED BY <1>1, <1>2, <1>4, <2>1 DEF Calm, Opening, Keep, Sess
<1>9. CASE Rotate(r)
  <2>1. Step(r, "rotate", "seed") /\ UNCHANGED <<row, clock, branch>>
    BY <1>9 DEF Rotate, backend
  <2>2. Sess
    <3>1. run[r].held \in 0 .. N
      BY DEF TypeOK, RunRec
    <3>2. QED BY <1>2, <1>3, <1>9, <3>1 DEF Rotate
  <2>3. QED BY <1>1, <1>4, <2>1, <2>2 DEF Calm, Opening, Keep, Sess
<1>10. CASE NewConversation(r)
  <2>1. /\ Step(r, "seed", "create") \/ Step(r, "seed", "finish")
        /\ UNCHANGED <<sess, row, clock, branch>>
    BY <1>10 DEF NewConversation
  <2>2. QED BY <1>1, <1>2, <1>4, <2>1 DEF Calm, Opening, Keep, Sess
<1>11. CASE CreateSession(r) /\ SlotTaken(r)
  <2>1. Step(r, "create", "finish") /\ UNCHANGED <<sess, row, clock, branch>>
    BY <1>11 DEF CreateSession, Step, backend
  <2>2. QED BY <1>1, <1>2, <1>4, <2>1 DEF Calm, Keep, Sess
<1>12. CASE SendFails(r)
  <2>1. Step(r, "sending", "finish") /\ UNCHANGED <<sess, row, clock, branch>>
    BY <1>12 DEF SendFails, tables, backend
  <2>2. QED BY <1>1, <1>2, <1>4, <2>1 DEF Calm, Keep, Sess
<1>13. CASE PostAnswer(r)
  <2>1. Step(r, "post", "advance") /\ UNCHANGED <<sess, row, clock, branch>>
    BY <1>13 DEF PostAnswer, tables, backend
  <2>2. QED BY <1>1, <1>2, <1>4, <2>1 DEF Calm, Keep, Sess
<1>14. CASE PostFails(r)
  <2>1. Step(r, "post", "finish") /\ UNCHANGED <<sess, row, clock, branch>>
    BY <1>14 DEF PostFails, tables, backend
  <2>2. QED BY <1>1, <1>2, <1>4, <2>1 DEF Calm, Keep, Sess
<1>15. CASE Finish(r)
  <2>1. Step(r, "finish", "done") /\ UNCHANGED <<sess, row, clock, branch>>
    BY <1>15 DEF Finish, tables, backend
  <2>2. QED BY <1>1, <1>2, <1>4, <2>1 DEF Calm, Keep, Sess
<1>16. QED
  BY <1>5, <1>6, <1>7, <1>8, <1>9, <1>10, <1>11, <1>12, <1>13, <1>14, <1>15
     DEF TurnStep

\* What the invariant says of a run under way and of everything else.
LEMMA Around ==
  ASSUME TypeOK, Orderly, NEW r \in Run, Moves(r)
  PROVE  /\ Keeps(r) /\ RunIs(r) /\ Tree /\ RowsAre
         /\ \A p \in Run \ {r} : run[p].pc \in Quiet /\ RunIs(p)
         /\ \A p \in Run \ {r} : run[p].pc = "idle" => Fresh(p)
         /\ \A c \in Cmds : job[c].at = "idle" /\ JobIs(c)'
<1>1. /\ OneAtATime /\ Busy(r) /\ Keeps(r)
      /\ RunIs(r) /\ Tree /\ RowsAre
      /\ \A p \in Run : RunIs(p)
  BY DEF Orderly, Moves
<1>2. \A c \in Cmds : job[c].at = "idle" /\ JobIs(c)'
  BY <1>1, Alone DEF Keeps, JobIs
<1>3. \A p \in Run \ {r} : run[p].pc \in Quiet
  BY <1>1, Alone
<1>4. \A p \in Run \ {r} : run[p].pc = "idle" => Fresh(p)
  BY <1>1 DEF RunIs, Opening
<1>5. QED BY <1>1, <1>2, <1>3, <1>4

\* A calm step leaves the runs what they are.
LEMMA CalmRuns ==
  ASSUME TypeOK, Orderly, NEW r \in Run, Calm(r)
  PROVE  \A p \in Run : RunIs(p)'
<1>1. Moves(r) /\ row' = row /\ branch' = branch
  BY DEF Calm
<1>2. /\ Keeps(r) /\ RunIs(r)
      /\ \A p \in Run \ {r} : run[p].pc \in Quiet /\ RunIs(p)
      /\ \A p \in Run \ {r} : run[p].pc = "idle" => Fresh(p)
  BY <1>1, Around
<1>3. ASSUME NEW p \in Run \ {r}, run[p].pc = "idle" PROVE Fresh(p)'
  <2>1. Fresh(p)
    BY <1>2, <1>3
  <2>2. run'[r].from # p /\ p \notin branch'[r]
    BY <2>1, RunNumbers DEF Calm, Fresh, Unseen
  <2>3. sess[p].st = "none" /\ p \notin Live
    BY <2>1 DEF Fresh, Unopened, Live
  <2>4. run'[r].held # p
    BY <2>1, <2>3 DEF Calm, Fresh, Unopened
  <2>5. /\ \A q \in Run : /\ row'[q].parent # p /\ row'[q].answer # p
                          /\ row'[q].sess # p
        /\ \A s \in Run : sess'[s].tip # p
        /\ sess'[p].st = "none"
    BY <1>1, <2>1, <2>3 DEF Calm, Fresh, Unseen, Untold, Unopened
  <2>6. QED BY <1>2, <2>1, <2>2, <2>4, <2>5, FreshStays
<1>4. \A p \in Run \ {r} : RunIs(p)'
  BY <1>2, <1>3, OthersAre
<1>5. Asks(r)'
  BY <1>1, <1>2, AsksStays DEF RunIs
<1>6. RunIs(r)'
  <2>1. CASE run[r].pc \in Opening /\ run'[r].pc \in Opening
    <3>1. Fresh(r)
      BY <1>2, <2>1 DEF RunIs
    <3>2. Unseen(r)'
      BY <1>1, <1>2, <3>1, RunNumbers DEF Calm, Keeps, Same, Fresh, Unseen
    <3>3. Untold(r)'
      BY <1>1, <3>1 DEF Calm, Fresh, Untold
    <3>4. sess[r].st = "none" /\ r \notin Live
      BY <3>1 DEF Fresh, Unopened, Live
    <3>5. run'[r].held # r
      BY <3>1, <3>4 DEF Calm, Fresh, Unopened
    <3>6. Unopened(r)'
      BY <1>1, <1>2, <3>1, <3>4, <3>5 DEF Calm, Keeps, Same, Fresh, Unopened
    <3>7. QED
      BY <1>5, <2>1, <3>2, <3>3, <3>6 DEF RunIs, Fresh, Opening, Late
  <2>2. CASE run'[r].pc \in {"finish", "done"}
    BY <1>5, <2>2 DEF RunIs, Opening, Early, Late
  <2>3. CASE run[r].pc = "post" /\ run'[r].pc = "advance"
    <3>1. /\ Unseen(r) /\ ~run[r].recorded /\ run[r].held \in Run
          /\ branch[r] = {r} \/ branch[r] = {r} \cup Lineage(run[r].from, run[r].held)
          /\ run[r].pc \notin Early
      BY <1>2, <2>3 DEF RunIs, Late, Early, Hangs
    <3>2. Unseen(r)'
      BY <1>1, <1>2, <3>1, RunNumbers DEF Calm, Keeps, Same, Unseen
    <3>3. /\ run'[r].held = run[r].held /\ run'[r].from = run[r].from
          /\ run[r].from \in Node
      BY <2>3 DEF Calm, TypeOK, RunRec
    <3>4. \A s : Lineage(run[r].from, s)' = Lineage(run[r].from, s)
      <4>1. \A n \in Node : \A s : Lineage(n, s)' = Lineage(n, s)
        BY <1>2, <3>1, HistoryStays
      <4>2. QED BY <3>3, <4>1
    <3>5. Hangs(r)'
      BY <1>1, <3>1, <3>3, <3>4 DEF Hangs
    <3>6. QED
      BY <1>5, <2>3, <3>1, <3>2, <3>3, <3>5 DEF RunIs, Opening, Early, Late, Calm
  <2>4. QED BY <2>1, <2>2, <2>3 DEF Calm
<1>7. QED BY <1>4, <1>6

LEMMA CalmOrderly ==
  ASSUME TypeOK, Orderly, NEW r \in Run, TurnStep(r), Calm(r)
  PROVE  Orderly'
<1>1. OneAtATime' /\ InTurn'
  BY TurnInOrder DEF Orderly
<1>2. \A p \in Run : RunIs(p)'
  BY CalmRuns
<1>3. Tree' /\ RowsAre' /\ \A c \in Cmds : JobIs(c)'
  BY Around, TreeStays, RowsStay DEF Calm
<1>4. QED BY <1>1, <1>2, <1>3 DEF Orderly

\* ... and keeps what was rewound away.
LEMMA CalmClean ==
  ASSUME TypeOK, Orderly, AllClean, NEW r \in Run, Calm(r)
  PROVE  AllClean'
<1>1. Moves(r) /\ row' = row /\ branch' = branch
  BY DEF Calm
<1>2. /\ Keeps(r) /\ RunIs(r) /\ RowsAre
      /\ \A p \in Run \ {r} : run[p].pc \in Quiet
  BY <1>1, Around
<1>3. SUFFICES ASSUME NoStray'
               PROVE  CleanTips' /\ CleanRows' /\ \A p \in Run : CleanRun(p)'
  BY DEF AllClean
<1>4. CleanTips /\ CleanRows /\ CleanRun(r)
  BY <1>2, <1>3, StraysOn DEF AllClean
<1>5. CleanTips'
  BY <1>2, <1>4, CleanTipsStay DEF Calm
<1>6. CleanRows'
  BY <1>1, <1>2, <1>4, CleanRowsStay
<1>7. ASSUME NEW p \in Run \ {r} PROVE CleanRun(p)'
  BY <1>2 DEF Keeps, Same, CleanRun, Quiet, Late
<1>8. CleanRun(r)'
  <2>1. CASE run'[r].pc = "advance"
    <3>1. run[r].pc = "post"
      BY <2>1 DEF Calm, Opening
    <3>2. /\ run[r].pc \notin Early /\ run[r].pc \in Late
          /\ run'[r].from = run[r].from /\ run'[r].held = run[r].held
          /\ run[r].from \in Node
      BY <2>1, <3>1 DEF Early, Late, Calm, TypeOK, RunRec
    <3>3. Clean(run[r].from, run[r].held)
      BY <1>4, <3>2 DEF CleanRun
    <3>4. \A n \in Node : \A s : Lineage(n, s)' = Lineage(n, s)
      BY <1>2, <3>2, HistoryStays
    <3>5. \A n \in Node : \A s : Clean(n, s) => Clean(n, s)'
      BY <1>2, <3>4 DEF Clean, Keeps
    <3>6. Clean(run[r].from, run[r].held)'
      BY <3>2, <3>3, <3>5
    <3>7. QED BY <2>1, <3>6 DEF CleanRun, Late
  <2>2. CASE run'[r].pc # "advance"
    BY <2>2 DEF Calm, CleanRun, Opening, Late
  <2>3. QED BY <2>1, <2>2
<1>9. QED BY <1>5, <1>6, <1>7, <1>8

LEMMA ForkBack ==
  ASSUME NEW r \in Run, Moves(r), NoFork'
  PROVE  NoFork
BY DEF Moves, Keeps, Same, NoFork

\* ... and what is on record in sight.
LEMMA CalmKept ==
  ASSUME TypeOK, Orderly, AllKept, NEW r \in Run, Calm(r)
  PROVE  AllKept'
<1>1. Moves(r) /\ row' = row /\ branch' = branch
  BY DEF Calm
<1>2. /\ Keeps(r) /\ RunIs(r) /\ RowsAre
      /\ \A p \in Run \ {r} : run[p].pc \in Quiet
  BY <1>1, Around
<1>3. SUFFICES ASSUME crashes' = 0, NoFork'
               PROVE  KeptTips' /\ KeptRows' /\ \A p \in Run : KeptRun(p)'
  BY DEF AllKept
<1>4. KeptTips /\ KeptRows /\ KeptRun(r)
  BY <1>1, <1>2, <1>3, ForkBack DEF AllKept, Keeps
<1>5. KeptTips'
  <2>1. ASSUME NEW q \in Run, Redoing(q) PROVE Redoing(q)'
    <3>1. PICK p \in Run : run[p].pc = "record" /\ run[p].q = q
      BY <2>1 DEF Redoing
    <3>2. p # r
      BY <1>2, <3>1 DEF Calm, Moves, Busy, Active, Running, Opening
    <3>3. QED BY <1>2, <3>1, <3>2 DEF Quiet
  <2>2. QED BY <1>1, <1>2, <1>4, <2>1, KeptTipsStay DEF Calm
<1>6. KeptRows'
  BY <1>1, <1>2, <1>4, KeptRowsStay
<1>7. ASSUME NEW p \in Run \ {r} PROVE KeptRun(p)'
  BY <1>2 DEF Keeps, Same, KeptRun, Quiet, Late
<1>8. KeptRun(r)'
  <2>1. CASE run'[r].pc = "advance"
    <3>1. run[r].pc = "post"
      BY <2>1 DEF Calm, Opening
    <3>2. /\ run[r].pc \notin Early /\ run[r].pc \in Late
          /\ run'[r].from = run[r].from /\ run'[r].held = run[r].held
          /\ run[r].from \in Node /\ run'[r].q = run[r].q
      BY <1>1, <2>1, <3>1 DEF Early, Late, Calm, TypeOK, RunRec, Moves
    <3>3. ASSUME NEW q \in Run \ {run[r].q}, HasRow(q),
                 row[q].sess = run[r].held
          PROVE  InSight(q, run[r].from)'
      <4>1. InSight(q, run[r].from)
        BY <1>4, <3>2, <3>3 DEF KeptRun
      <4>2. \A n \in Node : InSight(q, n) => InSight(q, n)'
        BY <1>1, <1>2, <3>2, <3>3, InSightStays
      <4>3. QED BY <3>2, <4>1, <4>2
    <3>4. \A q \in Run : HasRow(q)' = HasRow(q)
      BY <1>1 DEF HasRow
    <3>5. ASSUME run[r].q # r
          PROVE  \/ run'[r].held = row'[run'[r].q].sess
                 \/ \A q \in Run : row'[q].sess # run'[r].held
      BY <1>1, <1>4, <3>2, <3>5 DEF KeptRun
    <3>6. ASSUME NEW q \in Run \ {run'[r].q}, HasRow(q)',
                 row'[q].sess = run'[r].held
          PROVE  InSight(q, run[r].from)'
      BY <1>1, <3>2, <3>3, <3>4, <3>6
    <3>7. QED BY <2>1, <3>2, <3>5, <3>6 DEF KeptRun
  <2>2. CASE run'[r].pc = "lookup"
    <3>1. sess' = sess /\ run[r].pc = "spawned" /\ run'[r].q = run[r].q
      BY <1>1, <2>2 DEF Calm, Moves
    <3>2. Live' = Live
      BY <3>1 DEF Live
    <3>3. run[r].q # r => row[run[r].q].sess \in Live
      BY <1>4, <3>1 DEF KeptRun
    <3>4. QED BY <1>1, <2>2, <3>1, <3>2, <3>3 DEF KeptRun, Late
  <2>3. CASE run'[r].pc \notin {"lookup", "advance"}
    <3>1. run'[r].pc \notin {"begin", "sending", "spawned"} \cup Late
      BY <1>1, <2>3 DEF Calm, Opening, Late, Moves, Running
    <3>2. QED BY <2>3, <3>1 DEF KeptRun, Late
  <2>4. QED BY <2>1, <2>2, <2>3
<1>9. QED BY <1>5, <1>6, <1>7, <1>8

\* What r does names p nowhere.
Spares(p, r) ==
  /\ run'[r].from # p /\ run'[r].held # p /\ p \notin branch'[r]
  /\ \A q \in Run : /\ row'[q].parent # p /\ row'[q].answer # p
                     /\ row'[q].sess # p
  /\ \A s \in Run : sess'[s].tip # p
  /\ sess'[p].st = "none"

LEMMA OthersSpared ==
  ASSUME TypeOK, Orderly, NEW r \in Run, Moves(r),
         \A p \in Run \ {r} : Fresh(p) => Spares(p, r)
  PROVE  \A p \in Run \ {r} : RunIs(p)'
<1>1. /\ Keeps(r)
      /\ \A p \in Run \ {r} : run[p].pc \in Quiet /\ RunIs(p)
      /\ \A p \in Run \ {r} : run[p].pc = "idle" => Fresh(p)
  BY Around
<1>2. ASSUME NEW p \in Run \ {r}, run[p].pc = "idle" PROVE Fresh(p)'
  BY <1>1, <1>2, FreshStays DEF Spares
<1>3. QED BY <1>1, <1>2, OthersAre

\* A run that only moves, and only to what the tables have, leaves the rest.
LEMMA OthersFresh ==
  ASSUME TypeOK, Orderly, NEW r \in Run, Moves(r),
         UNCHANGED <<sess, row, branch>>,
         \A p \in Run \ {r} : Fresh(p) => run'[r].from # p /\ run'[r].held # p
  PROVE  \A p \in Run \ {r} : RunIs(p)'
<1>1. ASSUME NEW p \in Run \ {r}, Fresh(p) PROVE Spares(p, r)
  BY <1>1, RunNumbers DEF Fresh, Unseen, Untold, Unopened, Spares
<1>2. QED BY <1>1, OthersSpared

LEMMA ContinueIs ==
  ASSUME TypeOK, NEW r \in Run, Continue(r)
  PROVE  /\ Moves(r) /\ run[r].pc = "lookup" /\ run[r].pc \in Opening
         /\ run'[r].pc = "begin" /\ run'[r].recorded = run[r].recorded
         /\ LiveSession \in Live /\ LiveSession \in Run
         /\ run'[r].held = LiveSession
         /\ run'[r].from = sess[LiveSession].tip
         /\ sess[LiveSession].tip \in Node
         /\ UNCHANGED <<sess, row, clock, branch>>
<1>1. Moves(r)
  BY TurnMoves DEF TurnStep
<1>2. LiveSession \in Live /\ LiveSession \in Run
  BY LiveSessionType DEF Continue, Live
<1>3. sess[LiveSession].tip \in Node
  BY <1>2 DEF TypeOK, SessRec
<1>4. UNCHANGED <<sess, row, clock, branch>>
  BY DEF Continue, tables, backend
<1>5. /\ run[r].pc = "lookup"
      /\ run' = [run EXCEPT ![r] = [@ EXCEPT !.pc = "begin",
                                            !.held = LiveSession,
                                            !.from = sess[LiveSession].tip]]
  BY DEF Continue
<1>6. /\ run'[r].pc = "begin" /\ run'[r].held = LiveSession
      /\ run'[r].from = sess[LiveSession].tip
      /\ run'[r].recorded = run[r].recorded
  <2> DEFINE x == [run[r] EXCEPT !.pc = "begin", !.held = LiveSession,
                                 !.from = sess[LiveSession].tip]
  <2>1. run[r] \in RunRec
    BY DEF TypeOK
  <2>2. /\ x.pc = "begin" /\ x.held = LiveSession
        /\ x.from = sess[LiveSession].tip /\ x.recorded = run[r].recorded
    BY <2>1 DEF RunRec
  <2>3. run' = [run EXCEPT ![r] = x]
    BY <1>5 DEF TypeOK
  <2> HIDE DEF x
  <2>4. QED BY <2>2, <2>3, SetIs
<1>7. QED BY <1>1, <1>2, <1>3, <1>4, <1>5, <1>6 DEF Opening

LEMMA ContinueOrderly ==
  ASSUME TypeOK, Orderly, NEW r \in Run, Continue(r)
  PROVE  Orderly'
<1>1. /\ Moves(r) /\ run[r].pc \in Opening
      /\ run'[r].pc = "begin" /\ run'[r].recorded = run[r].recorded
      /\ LiveSession \in Live /\ LiveSession \in Run
      /\ run'[r].held = LiveSession
      /\ run'[r].from = sess[LiveSession].tip
      /\ UNCHANGED <<sess, row, clock, branch>>
  BY ContinueIs
<1>2. OneAtATime' /\ InTurn'
  BY TurnInOrder DEF Orderly, TurnStep
<1>3. Tree' /\ RowsAre' /\ \A c \in Cmds : JobIs(c)'
  BY <1>1, Around, TreeStays, RowsStay
<1>4. \A p \in Run : Fresh(p) => LiveSession # p /\ sess[LiveSession].tip # p
  BY <1>1 DEF Fresh, Unopened, Untold, Live
<1>5. \A p \in Run \ {r} : RunIs(p)'
  BY <1>1, <1>4, OthersFresh
<1>6. RunIs(r)'
  <2>1. Fresh(r) /\ Asks(r) /\ Keeps(r)
    BY <1>1, Around DEF RunIs
  <2>2. Asks(r)'
    BY <1>1, <2>1, AsksStays
  <2>3. Unseen(r)'
    BY <1>1, <1>4, <2>1, RunNumbers DEF Keeps, Same, Fresh, Unseen
  <2>4. Untold(r)'
    BY <1>1, <2>1 DEF Fresh, Untold
  <2>5. QED BY <1>1, <2>2, <2>3, <2>4 DEF RunIs, Opening, Early, Late
<1>7. QED BY <1>2, <1>3, <1>5, <1>6 DEF Orderly

LEMMA ContinueClean ==
  ASSUME TypeOK, Orderly, AllClean, NEW r \in Run, Continue(r)
  PROVE  AllClean'
<1>1. /\ Moves(r) /\ run'[r].pc = "begin"
      /\ LiveSession \in Live /\ LiveSession \in Run
      /\ run'[r].held = LiveSession
      /\ run'[r].from = sess[LiveSession].tip
      /\ sess[LiveSession].tip \in Node
      /\ UNCHANGED <<sess, row, clock, branch>>
  BY ContinueIs
<1>2. /\ Keeps(r) /\ RunIs(r) /\ RowsAre
      /\ \A p \in Run \ {r} : run[p].pc \in Quiet
  BY <1>1, Around
<1>3. SUFFICES ASSUME NoStray'
               PROVE  CleanTips' /\ CleanRows' /\ \A p \in Run : CleanRun(p)'
  BY DEF AllClean
<1>4. CleanTips /\ CleanRows
  BY <1>2, <1>3, StraysOn DEF AllClean
<1>5. CleanTips'
  BY <1>1, <1>2, <1>4, CleanTipsStay DEF Exists
<1>6. CleanRows'
  BY <1>1, <1>2, <1>4, CleanRowsStay
<1>7. ASSUME NEW p \in Run \ {r} PROVE CleanRun(p)'
  BY <1>2 DEF Keeps, Same, CleanRun, Quiet, Late
<1>8. CleanRun(r)'
  <2>1. Exists(LiveSession)'
    <3>1. \A s \in Live : Exists(s)'
      BY <1>1 DEF Live, Exists
    <3>2. LiveSession' = LiveSession
      BY <1>1 DEF LiveSession, Live
    <3>3. QED BY <1>1, <3>1, <3>2
  <2>2. \A s \in Run : Exists(s)' => Clean(sess[s].tip, s)'
    BY <1>5 DEF CleanTips
  <2>3. \A s \in Live : Clean(sess[s].tip, s)'
    BY <1>1, <2>2 DEF Live, Exists
  <2>4. Clean(run[r].from, run[r].held)'
    BY <1>1, <2>3
  <2>5. QED BY <1>1, <2>4 DEF CleanRun, Late
<1>9. QED BY <1>5, <1>6, <1>7, <1>8

LEMMA ContinueKept ==
  ASSUME TypeOK, OneLive, Orderly, AllKept, NEW r \in Run, Continue(r)
  PROVE  AllKept'
<1>1. /\ Moves(r) /\ run[r].pc = "lookup" /\ run'[r].pc = "begin"
      /\ LiveSession \in Live /\ LiveSession \in Run
      /\ run'[r].held = LiveSession
      /\ run'[r].from = sess[LiveSession].tip
      /\ sess[LiveSession].tip \in Node
      /\ UNCHANGED <<sess, row, clock, branch>>
  BY ContinueIs
<1>2. /\ Keeps(r) /\ RunIs(r) /\ RowsAre
      /\ \A p \in Run \ {r} : run[p].pc \in Quiet
      /\ \A c \in Cmds : job[c].at = "idle"
  BY <1>1, Around
<1>3. SUFFICES ASSUME crashes' = 0, NoFork'
               PROVE  KeptTips' /\ KeptRows' /\ \A p \in Run : KeptRun(p)'
  BY DEF AllKept
<1>4. KeptTips /\ KeptRows /\ KeptRun(r)
  BY <1>1, <1>2, <1>3, ForkBack DEF AllKept, Keeps
<1>5. \A q \in Run : ~Redoing(q) /\ ~Forgetting(q)
  BY <1>1, <1>2 DEF Redoing, Forgetting, Quiet
<1>6. KeptTips'
  BY <1>1, <1>2, <1>4, <1>5, KeptTipsStay DEF Exists
<1>7. KeptRows'
  BY <1>1, <1>2, <1>4, KeptRowsStay
<1>8. ASSUME NEW p \in Run \ {r} PROVE KeptRun(p)'
  BY <1>2 DEF Keeps, Same, KeptRun, Quiet, Late
<1>9. KeptRun(r)'
  <2>1. ASSUME NEW q \in Run, HasRow(q)', row'[q].sess = run'[r].held
        PROVE  InSight(q, run[r].from)'
    <3>1. HasRow(q) /\ row[q].sess = LiveSession /\ Exists(row[q].sess)
      BY <1>1, <2>1 DEF HasRow, Exists, Live
    <3>2. InSight(q, sess[row[q].sess].tip)
      BY <1>4, <1>5, <3>1 DEF KeptTips
    <3>3. sess[LiveSession].tip # r
      BY <1>1, <1>2 DEF RunIs, Early, Untold
    <3>4. \A n \in Node : n # r => (InSight(q, n) => InSight(q, n)')
      BY <1>1, <1>2, <3>1, InSightStays
    <3>5. QED BY <1>1, <3>1, <3>2, <3>3, <3>4
  <2>2. ASSUME run[r].q # r
        PROVE  run'[r].held = row'[run'[r].q].sess
    <3>1. row[run[r].q].sess \in Live
      BY <1>1, <1>4, <2>2 DEF KeptRun
    <3>2. QED BY <1>1, <3>1 DEF OneLive, Moves
  <2>3. run'[r].q = run[r].q
    BY <1>1 DEF Moves
  <2>4. QED BY <1>1, <2>1, <2>2, <2>3 DEF KeptRun, Late
<1>10. QED BY <1>6, <1>7, <1>8, <1>9

LEMMA CreateIs ==
  ASSUME TypeOK, NEW r \in Run, CreateSession(r), ~SlotTaken(r)
  PROVE  /\ Moves(r) /\ run[r].pc = "create" /\ run[r].pc \in Opening
         /\ run'[r].pc = "begin" /\ run'[r].recorded = run[r].recorded
         /\ run'[r].held = r /\ run'[r].from = 0
         /\ sess'[r].st = "live" /\ sess'[r].tip = 0
         /\ \A s \in Run \ {r} : sess'[s] = sess[s]
         /\ UNCHANGED <<row, clock, branch>>
<1>1. Moves(r)
  BY TurnMoves DEF TurnStep
<1>2. /\ run[r].pc = "create"
      /\ run' = [run EXCEPT ![r] = [@ EXCEPT !.pc = "begin", !.held = r,
                                            !.from = 0]]
      /\ sess' = [sess EXCEPT ![r] = [NoSession EXCEPT !.st = "live"]]
      /\ UNCHANGED <<row, clock, branch>>
  BY DEF CreateSession, backend
<1>3. /\ sess'[r].st = "live" /\ sess'[r].tip = 0
      /\ \A s \in Run \ {r} : sess'[s] = sess[s]
  BY <1>2 DEF TypeOK, NoSession
<1>4. /\ run'[r].pc = "begin" /\ run'[r].recorded = run[r].recorded
      /\ run'[r].held = r /\ run'[r].from = 0
  <2> DEFINE x == [run[r] EXCEPT !.pc = "begin", !.held = r, !.from = 0]
  <2>1. run[r] \in RunRec
    BY DEF TypeOK
  <2>2. /\ x.pc = "begin" /\ x.held = r /\ x.from = 0
        /\ x.recorded = run[r].recorded
    BY <2>1 DEF RunRec
  <2>3. run' = [run EXCEPT ![r] = x]
    BY <1>2 DEF TypeOK
  <2> HIDE DEF x
  <2>4. QED BY <2>2, <2>3, SetIs
<1>5. QED BY <1>1, <1>2, <1>3, <1>4 DEF Opening

LEMMA CreateOrderly ==
  ASSUME TypeOK, Orderly, NEW r \in Run, CreateSession(r), ~SlotTaken(r)
  PROVE  Orderly'
<1>1. /\ Moves(r) /\ run[r].pc \in Opening
      /\ run'[r].pc = "begin" /\ run'[r].recorded = run[r].recorded
      /\ run'[r].held = r /\ run'[r].from = 0
      /\ sess'[r].st = "live" /\ sess'[r].tip = 0
      /\ \A s \in Run \ {r} : sess'[s] = sess[s]
      /\ UNCHANGED <<row, clock, branch>>
  BY CreateIs
<1>2. OneAtATime' /\ InTurn'
  BY TurnInOrder DEF Orderly, TurnStep
<1>3. Tree' /\ RowsAre' /\ \A c \in Cmds : JobIs(c)'
  BY <1>1, Around, TreeStays, RowsStay
<1>4. \A p \in Run : p # 0 /\ p \in Node
  BY ConversationAssumption DEF Run, Node
<1>5. ASSUME NEW p \in Run \ {r}, Fresh(p) PROVE Spares(p, r)
  BY <1>1, <1>4, <1>5 DEF Fresh, Unseen, Untold, Unopened, Spares
<1>6. \A p \in Run \ {r} : RunIs(p)'
  BY <1>1, <1>5, OthersSpared
<1>7. RunIs(r)'
  <2>1. Fresh(r) /\ Asks(r) /\ Keeps(r)
    BY <1>1, Around DEF RunIs
  <2>2. Asks(r)'
    BY <1>1, <2>1, AsksStays
  <2>3. Unseen(r)'
    BY <1>1, <1>4, <2>1 DEF Keeps, Same, Fresh, Unseen
  <2>4. Untold(r)'
    BY <1>1, <1>4, <2>1 DEF Fresh, Untold
  <2>5. QED BY <1>1, <2>2, <2>3, <2>4 DEF RunIs, Opening, Early, Late
<1>8. QED BY <1>2, <1>3, <1>6, <1>7 DEF Orderly

\* The root shows nothing in any conversation.
LEMMA NothingAtRoot == TypeOK /\ Tree => \A s \in Run : Lineage(0, s) = {}
BY ConversationAssumption DEF Tree, Lineage

LEMMA CreateClean ==
  ASSUME TypeOK, Orderly, AllClean, NEW r \in Run, CreateSession(r),
         ~SlotTaken(r)
  PROVE  AllClean'
<1>1. /\ Moves(r) /\ run'[r].pc = "begin"
      /\ run'[r].held = r /\ run'[r].from = 0
      /\ sess'[r].st = "live" /\ sess'[r].tip = 0
      /\ \A s \in Run \ {r} : sess'[s] = sess[s]
      /\ UNCHANGED <<row, clock, branch>>
  BY CreateIs
<1>2. /\ Keeps(r) /\ RunIs(r) /\ RowsAre /\ Tree
      /\ \A p \in Run \ {r} : run[p].pc \in Quiet
  BY <1>1, Around
<1>3. SUFFICES ASSUME NoStray'
               PROVE  CleanTips' /\ CleanRows' /\ \A p \in Run : CleanRun(p)'
  BY DEF AllClean
<1>4. CleanTips /\ CleanRows
  BY <1>2, <1>3, StraysOn DEF AllClean
<1>5. \A n \in Node, s \in Run : n = 0 => Clean(n, s)'
  BY <1>1, <1>2 DEF Clean, Lineage, Tree
<1>6. ASSUME NEW s \in Run, Exists(s)' PROVE Clean(sess[s].tip, s)'
  <2>1. CASE s = r
    BY <1>1, <1>5, <2>1, RootNode
  <2>2. CASE s # r
    <3>1. Exists(s) /\ sess'[s].tip = sess[s].tip
      BY <1>1, <1>6, <2>2 DEF Exists
    <3>2. /\ Clean(sess[s].tip, s) /\ sess[s].tip \in Node
          /\ sess[s].tip # r \/ run[r].pc \notin Early
      BY <1>2, <1>4, <3>1 DEF CleanTips, TypeOK, SessRec, RunIs, Untold
    <3>3. \A n \in Node : n # r \/ run[r].pc \notin Early
                            => (Clean(n, s) => Clean(n, s)')
      BY <1>2, HistoryStays DEF Clean, Keeps
    <3>4. QED BY <3>1, <3>2, <3>3
  <2>3. QED BY <2>1, <2>2
<1>7. CleanTips'
  BY <1>6 DEF CleanTips
<1>8. CleanRows'
  BY <1>1, <1>2, <1>4, CleanRowsStay
<1>9. ASSUME NEW p \in Run \ {r} PROVE CleanRun(p)'
  BY <1>2 DEF Keeps, Same, CleanRun, Quiet, Late
<1>10. CleanRun(r)'
  <2>1. Clean(run[r].from, run[r].held)'
    BY <1>1, <1>5, RootNode
  <2>2. QED BY <1>1, <2>1 DEF CleanRun, Late
<1>11. QED BY <1>7, <1>8, <1>9, <1>10

LEMMA CreateKept ==
  ASSUME TypeOK, Orderly, AllKept, NEW r \in Run, CreateSession(r),
         ~SlotTaken(r)
  PROVE  AllKept'
<1>1. /\ Moves(r) /\ run[r].pc \in Opening /\ run[r].pc = "create"
      /\ run'[r].pc = "begin"
      /\ run'[r].held = r /\ run'[r].from = 0
      /\ \A s \in Run \ {r} : sess'[s] = sess[s]
      /\ UNCHANGED <<row, clock, branch>>
  BY CreateIs
<1>2. /\ Keeps(r) /\ RunIs(r) /\ RowsAre
      /\ \A p \in Run \ {r} : run[p].pc \in Quiet
      /\ \A c \in Cmds : job[c].at = "idle"
  BY <1>1, Around
<1>3. SUFFICES ASSUME crashes' = 0, NoFork'
               PROVE  KeptTips' /\ KeptRows' /\ \A p \in Run : KeptRun(p)'
  BY DEF AllKept
<1>4. KeptTips /\ KeptRows
  BY <1>1, <1>2, <1>3, ForkBack DEF AllKept, Keeps
<1>5. \A q \in Run : row[q].sess # r
  BY <1>1, <1>2 DEF RunIs, Fresh, Unopened
<1>6. \A q \in Run : ~Redoing(q) /\ ~Forgetting(q)
  BY <1>1, <1>2 DEF Redoing, Forgetting, Quiet
<1>7. ASSUME NEW q \in Run, HasRow(q)', Exists(row[q].sess)'
      PROVE  InSight(q, sess[row[q].sess].tip)'
  <2> DEFINE s == row[q].sess
             n == sess[s].tip
  <2>1. HasRow(q) /\ s \in Run /\ s # r
    BY <1>1, <1>2, <1>5, <1>7 DEF HasRow, RowsAre
  <2>2. Exists(s) /\ sess'[s].tip = n /\ n \in Node
    BY <1>1, <1>7, <2>1 DEF Exists, TypeOK, SessRec
  <2>3. InSight(q, n) /\ (n # r \/ run[r].pc \notin Early)
    BY <1>2, <1>4, <1>6, <2>1, <2>2 DEF KeptTips, RunIs, Untold
  <2>4. \A m \in Node : m # r \/ run[r].pc \notin Early
                          => (InSight(q, m) => InSight(q, m)')
    BY <1>1, <1>2, <2>1, InSightStays
  <2>5. QED BY <1>1, <2>2, <2>3, <2>4
<1>8. KeptTips'
  BY <1>7 DEF KeptTips
<1>9. KeptRows'
  BY <1>1, <1>2, <1>4, KeptRowsStay
<1>10. ASSUME NEW p \in Run \ {r} PROVE KeptRun(p)'
  BY <1>2 DEF Keeps, Same, KeptRun, Quiet, Late
<1>11. KeptRun(r)'
  <2>1. \A q \in Run : row'[q].sess # run'[r].held
    BY <1>1, <1>5
  <2>2. QED BY <1>1, <2>1 DEF KeptRun, Late
<1>12. QED BY <1>8, <1>9, <1>10, <1>11

LEMMA BeginStep ==
  ASSUME TypeOK, NEW r \in Run, BeginSend(r)
  PROVE  /\ Moves(r) /\ run[r].pc = "begin" /\ run'[r].pc = "sending"
         /\ run'[r].held = run[r].held /\ run'[r].recorded = run[r].recorded
         /\ run'[r].from = ParentToSend(r)
         /\ UNCHANGED <<sess, row, clock, branch>>
<1>1. Moves(r)
  BY TurnMoves DEF TurnStep
<1>2. run[r].pc = "begin" /\ UNCHANGED <<sess, row, clock, branch>>
  BY DEF BeginSend, tables, backend
<1>3. QED BY <1>1, <1>2, BeginIs

\* What is sent goes on from where the run was, or from where a row says.
LEMMA ParentFrom ==
  ASSUME TypeOK, NEW r \in Run
  PROVE  /\ ParentToSend(r) \in Node
         /\ \/ ParentToSend(r) = run[r].from
            \/ \E e \in Run : /\ e = run[r].edits /\ HasRow(e)
                              /\ ParentToSend(r) = row[e].parent
<1>1. run[r].edits \in 0 .. N /\ run[r].from \in Node
  BY DEF TypeOK, RunRec
<1>2. \A e \in Run : row[e].parent \in Node
  BY DEF TypeOK, Row
<1>3. run[r].edits # 0 => run[r].edits \in Run
  BY <1>1, ConversationAssumption DEF Run
<1>4. QED BY <1>1, <1>2, <1>3 DEF ParentToSend

LEMMA BeginOrderly ==
  ASSUME TypeOK, Orderly, NEW r \in Run, BeginSend(r)
  PROVE  Orderly'
<1>1. /\ Moves(r) /\ run[r].pc = "begin" /\ run'[r].pc = "sending"
      /\ run'[r].held = run[r].held /\ run'[r].recorded = run[r].recorded
      /\ run'[r].from = ParentToSend(r)
      /\ UNCHANGED <<sess, row, clock, branch>>
  BY BeginStep
<1>2. OneAtATime' /\ InTurn'
  BY TurnInOrder DEF Orderly, TurnStep
<1>3. Tree' /\ RowsAre' /\ \A c \in Cmds : JobIs(c)'
  BY <1>1, Around, TreeStays, RowsStay
<1>4. \A p \in Run : Unseen(p) => run'[r].from # p
  BY <1>1, ParentFrom DEF Unseen
<1>5. \A p \in Run \ {r} : RunIs(p)'
  BY <1>1, <1>4, OthersFresh DEF Fresh, Unopened
<1>6. RunIs(r)'
  <2>1. /\ Unseen(r) /\ Untold(r) /\ run[r].held \in Run /\ Asks(r)
        /\ Keeps(r)
    BY <1>1, Around DEF RunIs, Early
  <2>2. Asks(r)'
    BY <1>1, <2>1, AsksStays
  <2>3. Unseen(r)'
    BY <1>1, <1>4, <2>1, RunNumbers DEF Keeps, Same, Unseen
  <2>4. Untold(r)'
    BY <1>1, <2>1 DEF Untold
  <2>5. QED BY <1>1, <2>1, <2>2, <2>3, <2>4 DEF RunIs, Opening, Early, Late
<1>7. QED BY <1>2, <1>3, <1>5, <1>6 DEF Orderly

LEMMA BeginClean ==
  ASSUME TypeOK, Orderly, AllClean, NEW r \in Run, BeginSend(r)
  PROVE  AllClean'
<1>1. /\ Moves(r) /\ run[r].pc = "begin" /\ run'[r].pc = "sending"
      /\ run'[r].held = run[r].held
      /\ run'[r].from = ParentToSend(r)
      /\ UNCHANGED <<sess, row, clock, branch>>
  BY BeginStep
<1>2. /\ Keeps(r) /\ RunIs(r) /\ RowsAre
      /\ \A p \in Run \ {r} : run[p].pc \in Quiet
  BY <1>1, Around
<1>3. SUFFICES ASSUME NoStray'
               PROVE  CleanTips' /\ CleanRows' /\ \A p \in Run : CleanRun(p)'
  BY DEF AllClean
<1>4. CleanTips /\ CleanRows /\ CleanRun(r)
  BY <1>2, <1>3, StraysOn DEF AllClean
<1>5. CleanTips'
  BY <1>1, <1>2, <1>4, CleanTipsStay DEF Exists
<1>6. CleanRows'
  BY <1>1, <1>2, <1>4, CleanRowsStay
<1>7. ASSUME NEW p \in Run \ {r} PROVE CleanRun(p)'
  BY <1>2 DEF Keeps, Same, CleanRun, Quiet, Late
<1>8. ASSUME AtHome(r)' PROVE Clean(run[r].from, run[r].held)'
  <2>1. Clean(run'[r].from, run[r].held)
    <3>1. CASE ParentToSend(r) = run[r].from
      BY <1>1, <1>4, <3>1 DEF CleanRun
    <3>2. ASSUME NEW e \in Run, e = run[r].edits, HasRow(e),
                 ParentToSend(r) = row[e].parent
          PROVE  Clean(run'[r].from, run[r].held)
      <4>1. Clean(row[e].parent, row[e].sess)
        BY <1>4, <3>2 DEF CleanRows
      <4>2. row[e].sess = run[e].held /\ run[e].recorded
        BY <1>2, <3>2 DEF RowsAre
      <4>3. e # r /\ e # 0
        BY <1>1, <1>2, <4>2, ConversationAssumption DEF RunIs, Early, Untold, Run
      <4>4. run'[e].recorded /\ run'[e].held = run[e].held
            /\ run'[r].edits = e
        BY <1>1, <1>2, <3>2, <4>2, <4>3 DEF Keeps, Same, Moves
      <4>5. run[r].held = row[e].sess
        BY <1>1, <1>8, <4>2, <4>3, <4>4 DEF AtHome
      <4>6. QED BY <1>1, <3>2, <4>1, <4>5
    <3>3. QED BY <3>1, <3>2, ParentFrom
  <2>2. run'[r].from \in Node /\ run'[r].from # r
    BY <1>1, <1>2, ParentFrom DEF RunIs, Early, Unseen
  <2>3. \A n \in Node : n # r => \A s : Clean(n, s) => Clean(n, s)'
    BY <1>2, HistoryStays DEF Clean, Keeps
  <2>4. QED BY <1>1, <2>1, <2>2, <2>3
<1>9. CleanRun(r)'
  BY <1>1, <1>8 DEF CleanRun, Late
<1>10. QED BY <1>5, <1>6, <1>7, <1>9

LEMMA BeginKept ==
  ASSUME TypeOK, Orderly, AllKept, NEW r \in Run, BeginSend(r)
  PROVE  AllKept'
<1>1. /\ Moves(r) /\ run[r].pc = "begin" /\ run'[r].pc = "sending"
      /\ run'[r].held = run[r].held /\ run'[r].q = run[r].q
      /\ run'[r].from = ParentToSend(r)
      /\ UNCHANGED <<sess, row, clock, branch>>
  BY BeginStep DEF Moves
<1>2. /\ Keeps(r) /\ RunIs(r) /\ RowsAre
      /\ \A p \in Run \ {r} : run[p].pc \in Quiet
  BY <1>1, Around
<1>3. SUFFICES ASSUME crashes' = 0, NoFork'
               PROVE  KeptTips' /\ KeptRows' /\ \A p \in Run : KeptRun(p)'
  BY DEF AllKept
<1>4. KeptTips /\ KeptRows /\ KeptRun(r) /\ NoFork
  BY <1>1, <1>2, <1>3, ForkBack DEF AllKept, Keeps
<1>5. \A q \in Run : ~Redoing(q)
  BY <1>1, <1>2 DEF Redoing, Quiet
<1>6. KeptTips'
  BY <1>1, <1>2, <1>4, <1>5, KeptTipsStay DEF Exists
<1>7. KeptRows'
  BY <1>1, <1>2, <1>4, KeptRowsStay
<1>8. ASSUME NEW p \in Run \ {r} PROVE KeptRun(p)'
  BY <1>2 DEF Keeps, Same, KeptRun, Quiet, Late
<1>9. ASSUME NEW q \in Run \ {run[r].q}, HasRow(q), row[q].sess = run[r].held
      PROVE  InSight(q, run'[r].from)
  <2>1. Asks(r) /\ run[r].q \in Run
    BY <1>1, <1>2 DEF RunIs, Asks
  <2>2. CASE run[r].q = r
    <3>1. run[r].edits = 0
      BY <1>4, <2>1, <2>2 DEF NoFork, Asks
    <3>2. run'[r].from = run[r].from
      BY <1>1, <3>1 DEF ParentToSend
    <3>3. QED BY <1>1, <1>4, <1>9, <2>2, <3>2 DEF KeptRun
  <2>3. CASE run[r].q # r
    <3> DEFINE o == run[r].q
    <3>1. o = run[r].edits /\ Newest(o) /\ HasRow(o)
      BY <1>1, <2>1, <2>3 DEF Asks, Early, Newest
    <3>2. run'[r].from = row[o].parent
      <4>1. o # 0
        BY <2>1, ConversationAssumption DEF Run
      <4>2. QED BY <1>1, <3>1, <4>1 DEF ParentToSend
    <3>3. row[q].sess = row[o].sess
      BY <1>1, <1>4, <1>9, <2>3 DEF KeptRun
    <3>4. row[q].at < row[o].at
      <4>1. row[q].at <= row[o].at
        BY <1>9, <3>1, <3>3 DEF Newest
      <4>2. row[q].at # row[o].at
        BY <1>2, <1>9, <2>1, <3>1 DEF RowsAre
      <4>3. row[q].at \in 0 .. N /\ row[o].at \in 0 .. N
        BY <2>1 DEF TypeOK, Row
      <4>4. QED BY <4>1, <4>2, <4>3, ConversationAssumption
    <3>5. QED BY <1>4, <1>9, <2>1, <3>1, <3>2, <3>3, <3>4 DEF KeptRows
  <2>4. QED BY <2>2, <2>3
<1>10. KeptRun(r)'
  <2>1. ASSUME NEW q \in Run \ {run[r].q}, HasRow(q), row[q].sess = run[r].held
        PROVE  InSight(q, run[r].from)'
    <3>1. run'[r].from \in Node /\ run'[r].from # r
      BY <1>1, <1>2, ParentFrom DEF RunIs, Early, Unseen
    <3>2. \A n \in Node : n # r => (InSight(q, n) => InSight(q, n)')
      BY <1>1, <1>2, <2>1, InSightStays
    <3>3. QED BY <1>9, <2>1, <3>1, <3>2
  <2>2. \A q \in Run : HasRow(q)' = HasRow(q)
    BY <1>1 DEF HasRow
  <2>3. ASSUME NEW q \in Run \ {run'[r].q}, HasRow(q)',
               row'[q].sess = run'[r].held
        PROVE  InSight(q, run[r].from)'
    BY <1>1, <2>1, <2>2, <2>3
  <2>4. ASSUME run[r].q # r
        PROVE  \/ run'[r].held = row'[run'[r].q].sess
               \/ \A q \in Run : row'[q].sess # run'[r].held
    BY <1>1, <1>4, <2>4 DEF KeptRun, Late
  <2>5. QED BY <1>1, <2>3, <2>4 DEF KeptRun
<1>11. QED BY <1>6, <1>7, <1>8, <1>10

LEMMA ReturnsStep ==
  ASSUME TypeOK, NEW r \in Run, SendReturns(r)
  PROVE  /\ Moves(r) /\ run[r].pc = "sending" /\ run'[r].pc = "post"
         /\ run[r].pc \in Early /\ run[r].from \in Node
         /\ run'[r].held = run[r].held /\ run'[r].from = run[r].from
         /\ run'[r].recorded = run[r].recorded
         /\ branch'[r] = {r} \/ branch'[r] = {r} \cup Lineage(run[r].from, run[r].held)
         /\ UNCHANGED <<sess, row, clock>>
<1>1. Moves(r)
  BY TurnMoves DEF TurnStep
<1>2. /\ run[r].pc = "sending" /\ run' = [run EXCEPT ![r].pc = "post"]
      /\ branch' = [branch EXCEPT ![r] =
                      {r} \cup Stored(run[r].from, run[r].held)]
      /\ UNCHANGED <<sess, row, clock>>
  BY DEF SendReturns, Step, tables
<1>3. branch'[r] = {r} \/ branch'[r] = {r} \cup Lineage(run[r].from, run[r].held)
  BY <1>2, RunNumbers DEF TypeOK, Stored, Lineage
<1>4. run[r].from \in Node
  BY DEF TypeOK, RunRec
<1>5. QED BY <1>1, <1>2, <1>3, <1>4, StepIs DEF Early

LEMMA ReturnsOrderly ==
  ASSUME TypeOK, Orderly, NEW r \in Run, SendReturns(r)
  PROVE  Orderly'
<1>1. /\ Moves(r) /\ run[r].pc = "sending" /\ run'[r].pc = "post"
      /\ run[r].pc \in Early /\ run[r].from \in Node
      /\ run'[r].held = run[r].held /\ run'[r].from = run[r].from
      /\ run'[r].recorded = run[r].recorded
      /\ branch'[r] = {r} \/ branch'[r] = {r} \cup Lineage(run[r].from, run[r].held)
      /\ UNCHANGED <<sess, row, clock>>
  BY ReturnsStep
<1>2. OneAtATime' /\ InTurn'
  BY TurnInOrder DEF Orderly, TurnStep
<1>3. /\ Keeps(r) /\ RunIs(r) /\ Tree /\ RowsAre
      /\ \A c \in Cmds : JobIs(c)'
  BY <1>1, Around
<1>4. RowsAre'
  BY <1>1, <1>3, RowsStay
<1>5. /\ Unseen(r) /\ Untold(r) /\ run[r].held \in Run /\ Asks(r)
      /\ run[r].from # r
  BY <1>1, <1>3 DEF RunIs, Unseen
<1>6. \A m \in Lineage(run[r].from, run[r].held) :
        m \in Node /\ m # r /\ InConversation(m, run[r].held)
  <2>1. \A m \in Lineage(run[r].from, run[r].held) :
          m \in Node /\ InConversation(m, run[r].held)
    BY <1>1, <1>3, <1>5, InHistory
  <2>2. r \notin Lineage(run[r].from, run[r].held)
    BY <1>1, <1>5 DEF Lineage, Unseen
  <2>3. QED BY <2>1, <2>2
<1>7. Tree'
  <2>1. ASSUME NEW n \in Run, NEW m \in Node, m \in branch'[n]
        PROVE  InConversation(m, run[n].held)'
    <3>1. CASE n = r /\ m = r
      BY <3>1 DEF InConversation
    <3>2. CASE n = r /\ m # r
      <4>1. m \in Lineage(run[r].from, run[r].held)
        BY <1>1, <2>1, <3>2
      <4>2. InConversation(m, run[r].held)
        BY <1>6, <4>1
      <4>3. m \in Run => run'[m].held = run[m].held
        BY <1>3, <3>2 DEF Keeps, Same
      <4>4. QED BY <1>1, <3>2, <4>2, <4>3 DEF InConversation
    <3>3. CASE n # r
      <4>1. m \in branch[n]
        BY <1>3, <2>1, <3>3, RunNumbers DEF Keeps
      <4>2. m # r /\ InConversation(m, run[n].held)
        BY <1>3, <1>5, <3>3, <4>1, RunNumbers DEF Unseen, Tree
      <4>3. /\ run'[n].held = run[n].held
            /\ m \in Run => run'[m].held = run[m].held
        BY <1>3, <3>3, <4>2 DEF Keeps, Same
      <4>4. QED BY <4>2, <4>3 DEF InConversation
    <3>4. QED BY <3>1, <3>2, <3>3
  <2>2. r # 0 /\ ~(r > N)
    BY ConversationAssumption DEF Run
  <2>3. /\ \A n \in Node : n > N => branch'[n] = {n}
        /\ branch'[0] = {}
    BY <1>3, <2>2, RootNode DEF Keeps, Tree
  <2>4. QED BY <2>1, <2>3 DEF Tree
<1>8. ASSUME NEW p \in Run \ {r}, Fresh(p) PROVE Spares(p, r)
  <2>1. p \notin branch'[r]
    <3>1. run[r].from # p
      BY <1>8 DEF Fresh, Unseen
    <3>2. p \notin branch[run[r].from]
      BY <1>1, <1>8, <3>1 DEF Fresh, Unseen
    <3>3. QED BY <1>1, <3>2 DEF Lineage
  <2>2. QED
    BY <1>1, <1>8, <2>1 DEF Fresh, Unseen, Untold, Unopened, Spares
<1>9. \A p \in Run \ {r} : RunIs(p)'
  BY <1>1, <1>8, OthersSpared
<1>10. RunIs(r)'
  <2>1. Asks(r)'
    BY <1>1, <1>5, AsksStays
  <2>2. Unseen(r)'
    BY <1>1, <1>3, <1>5, RunNumbers DEF Keeps, Same, Unseen
  <2>3. Hangs(r)'
    <3>1. \A s : Lineage(run[r].from, s)' = Lineage(run[r].from, s)
      BY <1>1, <1>3, <1>5, HistoryStays
    <3>2. QED BY <1>1, <3>1 DEF Hangs
  <2>4. QED
    BY <1>1, <1>5, <2>1, <2>2, <2>3 DEF RunIs, Opening, Early, Late, Untold
<1>11. QED BY <1>2, <1>3, <1>4, <1>7, <1>9, <1>10 DEF Orderly

LEMMA ReturnsClean ==
  ASSUME TypeOK, Orderly, AllClean, NEW r \in Run, SendReturns(r)
  PROVE  AllClean'
<1>1. /\ Moves(r) /\ run[r].pc = "sending" /\ run'[r].pc = "post"
      /\ run[r].pc \in Early /\ run[r].from \in Node
      /\ run'[r].held = run[r].held /\ run'[r].from = run[r].from
      /\ branch'[r] = {r} \/ branch'[r] = {r} \cup Lineage(run[r].from, run[r].held)
      /\ UNCHANGED <<sess, row, clock>>
  BY ReturnsStep
<1>2. /\ Keeps(r) /\ RunIs(r) /\ RowsAre
      /\ \A p \in Run \ {r} : run[p].pc \in Quiet
  BY <1>1, Around
<1>3. SUFFICES ASSUME NoStray'
               PROVE  CleanTips' /\ CleanRows' /\ \A p \in Run : CleanRun(p)'
  BY DEF AllClean
<1>4. CleanTips /\ CleanRows /\ CleanRun(r)
  BY <1>2, <1>3, StraysOn DEF AllClean
<1>5. CleanTips'
  BY <1>1, <1>2, <1>4, CleanTipsStay DEF Exists
<1>6. CleanRows'
  BY <1>1, <1>2, <1>4, CleanRowsStay
<1>7. ASSUME NEW p \in Run \ {r} PROVE CleanRun(p)'
  BY <1>2 DEF Keeps, Same, CleanRun, Quiet, Late
<1>8. CleanRun(r)'
  <2>1. AtHome(r)
    <3>1. SUFFICES ASSUME run[r].edits # 0, run[run[r].edits].recorded
                   PROVE  run[r].held = run[run[r].edits].held
      BY DEF AtHome
    <3> DEFINE e == run[r].edits
    <3>2. e \in Run
      BY <3>1, ConversationAssumption DEF TypeOK, RunRec, Run
    <3>3. e # r
      BY <1>1, <1>2, <3>1 DEF RunIs, Untold
    <3>4. /\ run'[e].recorded /\ run'[e].held = run[e].held
          /\ run'[r].edits = e /\ r \in branch'[r]
      BY <1>1, <1>2, <3>1, <3>2, <3>3 DEF Keeps, Same, Moves
    <3>5. ~Strays(r)'
      BY <1>3 DEF NoStray
    <3>6. QED BY <1>1, <3>1, <3>4, <3>5 DEF Strays
  <2>2. Clean(run[r].from, run[r].held)
    BY <1>1, <1>4, <2>1 DEF CleanRun
  <2>3. run[r].from # r
    BY <1>1, <1>2 DEF RunIs, Unseen
  <2>4. \A n \in Node : n # r => \A s : Clean(n, s) => Clean(n, s)'
    BY <1>2, HistoryStays DEF Clean, Keeps
  <2>5. Clean(run[r].from, run[r].held)'
    BY <1>1, <2>2, <2>3, <2>4
  <2>6. QED BY <1>1, <2>5 DEF CleanRun, Late
<1>9. QED BY <1>5, <1>6, <1>7, <1>8

LEMMA ReturnsKept ==
  ASSUME TypeOK, Orderly, AllKept, NEW r \in Run, SendReturns(r)
  PROVE  AllKept'
<1>1. /\ Moves(r) /\ run[r].pc = "sending" /\ run'[r].pc = "post"
      /\ run[r].pc \in Early /\ run[r].from \in Node
      /\ run'[r].held = run[r].held /\ run'[r].from = run[r].from
      /\ run'[r].q = run[r].q
      /\ UNCHANGED <<sess, row, clock>>
  BY ReturnsStep DEF Moves
<1>2. /\ Keeps(r) /\ RunIs(r) /\ RowsAre
      /\ \A p \in Run \ {r} : run[p].pc \in Quiet
  BY <1>1, Around
<1>3. SUFFICES ASSUME crashes' = 0, NoFork'
               PROVE  KeptTips' /\ KeptRows' /\ \A p \in Run : KeptRun(p)'
  BY DEF AllKept
<1>4. KeptTips /\ KeptRows /\ KeptRun(r)
  BY <1>1, <1>2, <1>3, ForkBack DEF AllKept, Keeps
<1>5. \A q \in Run : ~Redoing(q)
  BY <1>1, <1>2 DEF Redoing, Quiet
<1>6. KeptTips'
  BY <1>1, <1>2, <1>4, <1>5, KeptTipsStay DEF Exists
<1>7. KeptRows'
  BY <1>1, <1>2, <1>4, KeptRowsStay
<1>8. ASSUME NEW p \in Run \ {r} PROVE KeptRun(p)'
  BY <1>2 DEF Keeps, Same, KeptRun, Quiet, Late
<1>9. KeptRun(r)'
  <2>1. run[r].from # r
    BY <1>1, <1>2 DEF RunIs, Unseen
  <2>2. \A q \in Run : HasRow(q)' = HasRow(q)
    BY <1>1 DEF HasRow
  <2>3. ASSUME NEW q \in Run \ {run[r].q}, HasRow(q), row[q].sess = run[r].held
        PROVE  InSight(q, run[r].from)'
    <3>1. InSight(q, run[r].from)
      BY <1>1, <1>4, <2>3 DEF KeptRun
    <3>2. \A n \in Node : n # r => (InSight(q, n) => InSight(q, n)')
      BY <1>1, <1>2, <2>3, InSightStays
    <3>3. QED BY <1>1, <2>1, <3>1, <3>2
  <2>4. ASSUME NEW q \in Run \ {run'[r].q}, HasRow(q)',
               row'[q].sess = run'[r].held
        PROVE  InSight(q, run[r].from)'
    BY <1>1, <2>2, <2>3, <2>4
  <2>5. ASSUME run[r].q # r
        PROVE  \/ run'[r].held = row'[run'[r].q].sess
               \/ \A q \in Run : row'[q].sess # run'[r].held
    BY <1>1, <1>4, <2>5 DEF KeptRun
  <2>6. QED BY <1>1, <2>4, <2>5 DEF KeptRun, Late
<1>10. QED BY <1>6, <1>7, <1>8, <1>9

LEMMA AdvanceStep ==
  ASSUME TypeOK, Orderly, NEW r \in Run, Advance(r)
  PROVE  /\ Moves(r) /\ run[r].pc = "advance" /\ run'[r].pc = "record"
         /\ run[r].pc \notin Early /\ run[r].pc \in Late
         /\ run[r].from \in Node /\ run[r].held \in Run
         /\ run'[r].held = run[r].held /\ run'[r].from = run[r].from
         /\ run'[r].recorded = run[r].recorded
         /\ \A s \in Run : /\ sess'[s].st = sess[s].st
                           /\ Exists(s)' <=> Exists(s)
                           /\ \/ sess'[s].tip = sess[s].tip
                              \/ sess'[s].tip = r /\ s = run[r].held
                           /\ Exists(s) /\ s = run[r].held
                                => sess'[s].tip = r
         /\ UNCHANGED <<row, clock, branch>>
<1>1. Moves(r)
  BY TurnMoves DEF TurnStep
<1>2. /\ run[r].pc = "advance" /\ run' = [run EXCEPT ![r].pc = "record"]
      /\ sess' = AdvanceSession(run[r].held, r)
      /\ UNCHANGED <<row, clock, branch>>
  BY DEF Advance, Step, backend
<1>3. run[r].from \in Node /\ run[r].held \in Run
  BY <1>2 DEF Orderly, RunIs, Late, TypeOK, RunRec
<1> DEFINE h == run[r].held
           x == [sess[h] EXCEPT !.tip = r, !.turns = OneMore(sess[h].turns)]
<1>4. /\ x.tip = r /\ x.st = sess[h].st
      /\ \/ sess' = sess /\ ~Exists(h)
         \/ sess' = [sess EXCEPT ![h] = x]
  <2>1. sess[h] \in SessRec
    BY <1>3 DEF TypeOK
  <2>2. QED BY <1>2, <1>3, <2>1 DEF AdvanceSession, SessRec, TypeOK
<1> HIDE DEF x
<1>5. \A s \in Run : /\ sess'[s].st = sess[s].st
                     /\ \/ sess'[s].tip = sess[s].tip
                        \/ sess'[s].tip = r /\ s = h
                     /\ Exists(s) /\ s = h => sess'[s].tip = r
  BY <1>3, <1>4 DEF TypeOK
<1>6. \A s \in Run : Exists(s)' <=> Exists(s)
  BY <1>5 DEF Exists
<1>7. QED BY <1>1, <1>2, <1>3, <1>5, <1>6, StepIs DEF Early, Late

LEMMA AdvanceOrderly ==
  ASSUME TypeOK, Orderly, NEW r \in Run, Advance(r)
  PROVE  Orderly'
<1>1. /\ Moves(r) /\ run'[r].pc = "record"
      /\ run[r].pc \notin Early /\ run[r].pc \in Late
      /\ run[r].from \in Node /\ run[r].held \in Run
      /\ run'[r].held = run[r].held /\ run'[r].from = run[r].from
      /\ run'[r].recorded = run[r].recorded
      /\ \A s \in Run : /\ sess'[s].st = sess[s].st
                        /\ Exists(s)' <=> Exists(s)
                        /\ \/ sess'[s].tip = sess[s].tip
                           \/ sess'[s].tip = r /\ s = run[r].held
                        /\ Exists(s) /\ s = run[r].held => sess'[s].tip = r
      /\ UNCHANGED <<row, clock, branch>>
  BY AdvanceStep
<1>2. OneAtATime' /\ InTurn'
  BY TurnInOrder DEF Orderly, TurnStep
<1>3. Tree' /\ RowsAre' /\ \A c \in Cmds : JobIs(c)'
  BY <1>1, Around, TreeStays, RowsStay
<1>4. ASSUME NEW p \in Run \ {r}, Fresh(p) PROVE Spares(p, r)
  BY <1>1, <1>4, RunNumbers DEF Fresh, Unseen, Untold, Unopened, Spares
<1>5. \A p \in Run \ {r} : RunIs(p)'
  BY <1>1, <1>4, OthersSpared
<1>6. RunIs(r)'
  <2>1. /\ Unseen(r) /\ ~run[r].recorded /\ Asks(r) /\ Keeps(r)
        /\ Hangs(r)
    BY <1>1, Around DEF RunIs
  <2>2. Asks(r)'
    BY <1>1, <2>1, AsksStays
  <2>3. Unseen(r)'
    BY <1>1, <2>1, RunNumbers DEF Keeps, Same, Unseen
  <2>4. Hangs(r)'
    <3>1. \A s : Lineage(run[r].from, s)' = Lineage(run[r].from, s)
      BY <1>1, <2>1, HistoryStays
    <3>2. QED BY <1>1, <2>1, <3>1 DEF Hangs
  <2>5. Exists(run[r].held)' => sess'[run'[r].held].tip = r
    <3>1. \A s \in Run : s = run[r].held /\ Exists(s)' => sess'[s].tip = r
      BY <1>1
    <3>2. QED BY <1>1, <3>1
  <2>6. QED
    BY <1>1, <2>1, <2>2, <2>3, <2>4, <2>5 DEF RunIs, Opening, Early, Late
<1>7. QED BY <1>2, <1>3, <1>5, <1>6 DEF Orderly

\* The exchange of a run that is to advance its conversation.
LEMMA NewTip ==
  ASSUME TypeOK, Orderly, NEW r \in Run, run[r].pc \in Late
  PROVE  /\ r \in Lineage(r, run[r].held)
         /\ Lineage(r, run[r].held)
              \subseteq {r} \cup Lineage(run[r].from, run[r].held)
         /\ ~Orphaned(r) => Lineage(run[r].from, run[r].held)
                              \subseteq Lineage(r, run[r].held)
<1>1. Hangs(r)
  BY DEF Orderly, RunIs
<1>2. Lineage(r, run[r].held) = branch[r]
  BY DEF Lineage, InConversation
<1>3. CASE branch[r] = {r}
  BY <1>2, <1>3 DEF Orphaned, Lineage
<1>4. CASE branch[r] = {r} \cup Lineage(run[r].from, run[r].held)
  BY <1>2, <1>4
<1>5. QED BY <1>1, <1>3, <1>4 DEF Hangs

LEMMA AdvanceClean ==
  ASSUME TypeOK, Orderly, AllClean, NEW r \in Run, Advance(r)
  PROVE  AllClean'
<1>1. /\ Moves(r) /\ run'[r].pc = "record"
      /\ run[r].pc \notin Early /\ run[r].pc \in Late
      /\ run[r].from \in Node /\ run[r].held \in Run
      /\ run'[r].held = run[r].held /\ run'[r].from = run[r].from
      /\ \A s \in Run : /\ Exists(s)' <=> Exists(s)
                        /\ \/ sess'[s].tip = sess[s].tip
                           \/ sess'[s].tip = r /\ s = run[r].held
      /\ UNCHANGED <<row, clock, branch>>
  BY AdvanceStep
<1>2. /\ Keeps(r) /\ RunIs(r) /\ RowsAre
      /\ \A p \in Run \ {r} : run[p].pc \in Quiet
  BY <1>1, Around
<1>3. SUFFICES ASSUME NoStray'
               PROVE  CleanTips' /\ CleanRows' /\ \A p \in Run : CleanRun(p)'
  BY DEF AllClean
<1>4. CleanTips /\ CleanRows /\ CleanRun(r)
  BY <1>2, <1>3, StraysOn DEF AllClean
<1>5. \A n \in Node : \A s : Clean(n, s) => Clean(n, s)'
  BY <1>1, <1>2, HistoryStays DEF Clean, Keeps
<1>6. Clean(run[r].from, run[r].held) /\ Clean(r, run[r].held)
  <2>1. Clean(run[r].from, run[r].held)
    BY <1>1, <1>4 DEF CleanRun
  <2>2. r \notin rewound
    BY <1>1, <1>2 DEF RunIs, Unseen
  <2>3. QED BY <1>1, <2>1, <2>2, NewTip DEF Clean
<1>7. CleanTips'
  <2>1. ASSUME NEW s \in Run, Exists(s)' PROVE Clean(sess[s].tip, s)'
    <3>1. CASE sess'[s].tip = sess[s].tip
      BY <1>1, <1>4, <1>5, <2>1, <3>1 DEF CleanTips, TypeOK, SessRec
    <3>2. CASE sess'[s].tip = r /\ s = run[r].held
      BY <1>5, <1>6, <3>2, RunNumbers
    <3>3. QED BY <1>1, <3>1, <3>2
  <2>2. QED BY <2>1 DEF CleanTips
<1>8. CleanRows'
  BY <1>1, <1>2, <1>4, CleanRowsStay
<1>9. ASSUME NEW p \in Run \ {r} PROVE CleanRun(p)'
  BY <1>2 DEF Keeps, Same, CleanRun, Quiet, Late
<1>10. CleanRun(r)'
  <2>1. Clean(run[r].from, run[r].held)'
    BY <1>1, <1>5, <1>6
  <2>2. QED BY <1>1, <2>1 DEF CleanRun, Late
<1>11. QED BY <1>7, <1>8, <1>9, <1>10

LEMMA AdvanceKept ==
  ASSUME TypeOK, Orderly, AllKept, NEW r \in Run, Advance(r)
  PROVE  AllKept'
<1>1. /\ Moves(r) /\ run[r].pc = "advance" /\ run'[r].pc = "record"
      /\ run[r].pc \notin Early /\ run[r].pc \in Late
      /\ run[r].from \in Node /\ run[r].held \in Run
      /\ run'[r].held = run[r].held /\ run'[r].from = run[r].from
      /\ run'[r].q = run[r].q
      /\ \A s \in Run : /\ Exists(s)' <=> Exists(s)
                        /\ \/ sess'[s].tip = sess[s].tip
                           \/ sess'[s].tip = r /\ s = run[r].held
      /\ UNCHANGED <<row, clock, branch>>
  BY AdvanceStep DEF Moves
<1>2. /\ Keeps(r) /\ RunIs(r) /\ RowsAre
      /\ \A p \in Run \ {r} : run[p].pc \in Quiet
      /\ \A c \in Cmds : job[c].at = "idle"
  BY <1>1, Around
<1>3. SUFFICES ASSUME crashes' = 0, NoFork'
               PROVE  KeptTips' /\ KeptRows' /\ \A p \in Run : KeptRun(p)'
  BY DEF AllKept
<1>4. KeptTips /\ KeptRows /\ KeptRun(r)
  BY <1>1, <1>2, <1>3, ForkBack DEF AllKept, Keeps
<1>5. /\ \A q \in Run : ~Redoing(q) /\ ~Forgetting(q)
      /\ \A q \in Run : HasRow(q)' = HasRow(q)
  BY <1>1, <1>2 DEF Redoing, Forgetting, Quiet, HasRow
<1>6. ASSUME NEW q \in Run, HasRow(q)
      PROVE  \A n \in Node : InSight(q, n) => InSight(q, n)'
  BY <1>1, <1>2, <1>6, InSightStays
<1>7. ASSUME NEW q \in Run \ {run[r].q}, HasRow(q), row[q].sess = run[r].held
      PROVE  InSight(q, run[r].from) /\ InSight(q, r)
  <2>1. InSight(q, run[r].from)
    BY <1>1, <1>4, <1>7 DEF KeptRun
  <2>2. Whole(run[r].held) => Lineage(run[r].from, run[r].held)
                                \subseteq Lineage(r, run[r].held)
    BY <1>1, NewTip DEF Whole
  <2>3. QED BY <1>7, <2>1, <2>2 DEF InSight
<1>8. ASSUME NEW q \in Run, HasRow(q), Exists(row[q].sess)', ~Redoing(q)'
      PROVE  InSight(q, sess[row[q].sess].tip)'
  <2> DEFINE s == row[q].sess
  <2>1. s \in Run /\ Exists(s) /\ sess[s].tip \in Node
    BY <1>1, <1>2, <1>8 DEF RowsAre, TypeOK, SessRec
  <2>2. CASE sess'[s].tip = sess[s].tip
    <3>1. InSight(q, sess[s].tip)
      BY <1>4, <1>5, <1>8, <2>1 DEF KeptTips
    <3>2. QED BY <1>1, <1>6, <1>8, <2>1, <2>2, <3>1
  <2>3. CASE sess'[s].tip = r /\ s = run[r].held
    <3>1. q # run[r].q
      BY <1>1, <1>8 DEF Redoing
    <3>2. InSight(q, r)
      BY <1>7, <1>8, <2>3, <3>1
    <3>3. QED BY <1>1, <1>6, <1>8, <2>3, <3>2, RunNumbers
  <2>4. QED BY <1>1, <2>1, <2>2, <2>3
<1>9. KeptTips'
  BY <1>1, <1>5, <1>8 DEF KeptTips
<1>10. KeptRows'
  BY <1>1, <1>2, <1>4, KeptRowsStay
<1>11. ASSUME NEW p \in Run \ {r} PROVE KeptRun(p)'
  BY <1>2 DEF Keeps, Same, KeptRun, Quiet, Late
<1>12. KeptRun(r)'
  <2>1. ASSUME NEW q \in Run \ {run'[r].q}, HasRow(q)',
               row'[q].sess = run'[r].held
        PROVE  InSight(q, run[r].from)'
    BY <1>1, <1>5, <1>6, <1>7, <2>1
  <2>2. ASSUME run[r].q # r
        PROVE  \/ run'[r].held = row'[run'[r].q].sess
               \/ \A q \in Run : row'[q].sess # run'[r].held
    BY <1>1, <1>4, <2>2 DEF KeptRun
  <2>3. QED BY <1>1, <2>1, <2>2 DEF KeptRun, Late
<1>13. QED BY <1>9, <1>10, <1>11, <1>12

LEMMA RecordStep ==
  ASSUME TypeOK, Orderly, NEW r \in Run, Record(r)
  PROVE  /\ Moves(r) /\ run[r].pc = "record" /\ run'[r].pc = "finish"
         /\ run[r].pc \notin Early /\ run[r].pc \in Late
         /\ run[r].from \in Node /\ run[r].held \in Run /\ run[r].q \in Run
         /\ run'[r].held = run[r].held /\ run'[r].from = run[r].from
         /\ run'[r].q = run[r].q /\ run'[r].recorded
         /\ UNCHANGED <<sess, branch>>
         /\ clock' = clock + 1 /\ clock \in 0 .. N
         /\ \A p \in Run \ {run[r].q} : row'[p] = row[p]
         /\ row'[run[r].q].answer = r
         /\ \/ /\ run[r].q = r /\ ~HasRow(r)
               /\ row'[r].sess = run[r].held /\ row'[r].parent = run[r].from
               /\ row'[r].at = clock
            \/ /\ run[r].q # r /\ Newest(run[r].q) /\ HasRow(run[r].q)
               /\ row'[run[r].q].sess = row[run[r].q].sess
               /\ row'[run[r].q].parent = row[run[r].q].parent
               /\ row'[run[r].q].at = row[run[r].q].at
<1>1. Moves(r)
  BY TurnMoves DEF TurnStep
<1>2. /\ run[r].pc = "record" /\ row' = PutTurn(r)
      /\ clock' = OneMore(clock) /\ UNCHANGED <<sess, branch>>
  BY DEF Record, backend
<1>3. /\ run'[r].pc = "finish" /\ run'[r].from = run[r].from
      /\ run'[r].held = run[r].held /\ run'[r].recorded
  BY RecordIs
<1>4. run[r].pc \notin Early /\ run[r].pc \in Late
  BY <1>2 DEF Early, Late
<1>5. RunIs(r) /\ RowsAre /\ clock < r /\ Asks(r)
  BY <1>4 DEF Orderly, InTurn, RunIs
<1>6. run[r].from \in Node /\ run[r].held \in Run /\ run[r].q \in Run
  BY <1>2, <1>5 DEF RunIs, Asks, Late, TypeOK, RunRec
<1>7. clock' = clock + 1 /\ clock \in 0 .. N
  BY <1>2, <1>5, ConversationAssumption DEF OneMore, TypeOK, Run
<1> DEFINE q == run[r].q
<1>8. ~HasRow(r)
  BY <1>4, <1>5 DEF RunIs, RowsAre
<1>9. q # r => Newest(q) /\ HasRow(q)
  BY <1>2, <1>4, <1>5 DEF Asks, Newest
<1>10. row[q] \in Row
  BY <1>6 DEF TypeOK
<1>11. /\ \A p \in Run \ {q} : row'[p] = row[p]
       /\ row'[q].answer = r
       /\ q = r => /\ row'[r].sess = run[r].held
                   /\ row'[r].parent = run[r].from /\ row'[r].at = clock
       /\ q # r => /\ row'[q].sess = row[q].sess
                   /\ row'[q].parent = row[q].parent
                   /\ row'[q].at = row[q].at
  <2>1. CASE HasRow(q)
    <3> DEFINE x == [row[q] EXCEPT !.answer = r]
    <3>1. /\ x.answer = r /\ x.sess = row[q].sess
          /\ x.parent = row[q].parent /\ x.at = row[q].at
      BY <1>10 DEF Row
    <3>2. row' = [row EXCEPT ![q] = x]
      BY <1>2, <2>1 DEF PutTurn, TypeOK
    <3> HIDE DEF x
    <3>3. row'[q] = x /\ \A p \in Run \ {q} : row'[p] = row[p]
      BY <1>6, <3>2 DEF TypeOK
    <3>4. QED BY <1>8, <2>1, <3>1, <3>3
  <2>2. CASE ~HasRow(q)
    <3> DEFINE x == [sess |-> run[r].held, parent |-> run[r].from,
                     answer |-> r, at |-> clock]
    <3>1. row' = [row EXCEPT ![q] = x]
      BY <1>2, <2>2 DEF PutTurn
    <3>2. row'[q] = x /\ \A p \in Run \ {q} : row'[p] = row[p]
      BY <1>6, <3>1 DEF TypeOK
    <3>3. QED BY <1>9, <2>2, <3>2
  <2>3. QED BY <2>1, <2>2
<1>12. QED
  BY <1>1, <1>2, <1>3, <1>4, <1>6, <1>7, <1>8, <1>9, <1>11 DEF Moves

\* Nothing that is on record names the exchange of a run that still records.
LEMMA RecordRows ==
  ASSUME TypeOK, Orderly, NEW r \in Run, Record(r)
  PROVE  RowsAre'
<1>1. /\ Moves(r) /\ run[r].pc \notin Early /\ run[r].pc \in Late
      /\ run[r].from \in Node /\ run[r].held \in Run /\ run[r].q \in Run
      /\ run'[r].held = run[r].held /\ run'[r].recorded
      /\ clock' = clock + 1 /\ clock \in 0 .. N
      /\ \A p \in Run \ {run[r].q} : row'[p] = row[p]
      /\ row'[run[r].q].answer = r
  BY RecordStep
<1> DEFINE q == run[r].q
<1>2. /\ Keeps(r) /\ RunIs(r) /\ RowsAre /\ Unseen(r)
      /\ \A p \in Run : run'[p].held = run[p].held
      /\ \A p \in Run : run[p].recorded => run'[p].recorded
      /\ \A p \in Run : row[p] \in Row
  BY <1>1, Around DEF RunIs, Keeps, Same, TypeOK
<1>3. \A n \in Node : \A s : Lineage(n, s)' = Lineage(n, s)
  BY <1>1, <1>2, HistoryStays
<1>4. \A p \in Run : row[p].at \in 0 .. N /\ row[p].parent \in Node
                     /\ row[p].answer \in 0 .. N
  BY <1>2 DEF Row
<1>5. \A p \in Run \ {q} : HasRow(p)' = HasRow(p)
  BY <1>1 DEF HasRow
<1>6. \A n \in Node, s \in Run : n # r => r \notin Lineage(n, s)
  BY <1>2 DEF Unseen, Lineage
<1>7. CASE q = r /\ ~HasRow(r) /\ row'[r].sess = run[r].held
           /\ row'[r].parent = run[r].from /\ row'[r].at = clock
  <2>1. \A p \in Run : HasRow(p)' => row'[p].at < clock' /\ (p # r => row'[p].at < clock)
    BY <1>1, <1>2, <1>4, <1>5, <1>7, ConversationAssumption DEF RowsAre
  <2>2. ASSUME NEW p \in Run, HasRow(p)'
        PROVE  /\ row'[p].sess \in Run /\ row'[p].sess = run'[p].held
               /\ run'[p].recorded /\ row'[p].at < clock'
    BY <1>1, <1>2, <1>5, <1>7, <2>1, <2>2 DEF RowsAre
  <2>3. ASSUME NEW p \in Run, NEW o \in Run, HasRow(p)', HasRow(o)', p # o
        PROVE  row'[p].at # row'[o].at
    <3>1. CASE p = r \/ o = r
      BY <1>1, <1>4, <1>7, <2>1, <2>3, <3>1, ConversationAssumption
    <3>2. CASE p # r /\ o # r
      BY <1>1, <1>2, <1>5, <1>7, <2>3, <3>2 DEF RowsAre
    <3>3. QED BY <3>1, <3>2
  <2>4. ASSUME NEW p \in Run, NEW o \in Run, HasRow(p)', HasRow(o)',
               row'[p].sess = row'[o].sess,
               run'[row'[o].answer].held = row'[o].sess,
               row'[o].answer \in Lineage(row[p].parent, row[p].sess)'
        PROVE  row'[o].at < row'[p].at
    <3>1. row'[p].parent \in Node /\ row'[p].parent # r /\ row'[p].sess \in Run
      <4>1. CASE p = r
        BY <1>1, <1>2, <1>7, <4>1 DEF Unseen
      <4>2. CASE p # r
        BY <1>1, <1>2, <1>4, <1>7, <2>2, <2>4, <4>2 DEF Unseen
      <4>3. QED BY <4>1, <4>2
    <3>2. row'[o].answer \in Lineage(row'[p].parent, row'[p].sess)
      BY <1>3, <2>4, <3>1
    <3>3. o # r
      BY <1>1, <1>6, <1>7, <3>1, <3>2
    <3>4. CASE p = r
      BY <1>1, <1>7, <2>1, <2>4, <3>3, <3>4
    <3>5. CASE p # r
      <4>1. row'[p] = row[p] /\ row'[o] = row[o] /\ HasRow(p) /\ HasRow(o)
        BY <1>1, <1>5, <1>7, <2>4, <3>3, <3>5
      <4>2. run'[row[o].answer].held = run[row[o].answer].held
        BY <1>2, <1>4, <4>1, ConversationAssumption DEF HasRow, Run
      <4>3. QED BY <1>2, <2>4, <3>2, <4>1, <4>2 DEF RowsAre
    <3>6. QED BY <3>4, <3>5
  <2>5. QED BY <2>2, <2>3, <2>4 DEF RowsAre
<1>8. CASE /\ q # r /\ HasRow(q)
           /\ row'[q].sess = row[q].sess /\ row'[q].parent = row[q].parent
           /\ row'[q].at = row[q].at
  <2>1. \A p \in Run : /\ row'[p].sess = row[p].sess
                       /\ row'[p].parent = row[p].parent
                       /\ row'[p].at = row[p].at
                       /\ HasRow(p)' => HasRow(p)
    BY <1>1, <1>5, <1>8
  <2>2. ASSUME NEW p \in Run, HasRow(p)'
        PROVE  /\ row'[p].sess \in Run /\ row'[p].sess = run'[p].held
               /\ run'[p].recorded /\ row'[p].at < clock'
    BY <1>1, <1>2, <1>4, <2>1, <2>2, ConversationAssumption DEF RowsAre
  <2>3. ASSUME NEW p \in Run, NEW o \in Run, HasRow(p)', HasRow(o)', p # o
        PROVE  row'[p].at # row'[o].at
    BY <1>2, <2>1, <2>3 DEF RowsAre
  <2>4. ASSUME NEW p \in Run, NEW o \in Run, HasRow(p)', HasRow(o)',
               row'[p].sess = row'[o].sess,
               run'[row'[o].answer].held = row'[o].sess,
               row'[o].answer \in Lineage(row[p].parent, row[p].sess)'
        PROVE  row'[o].at < row'[p].at
    <3>1. /\ row[p].parent \in Node /\ row[p].parent # r /\ row[p].sess \in Run
          /\ HasRow(p) /\ HasRow(o)
      BY <1>2, <1>4, <2>1, <2>4 DEF Unseen, RowsAre
    <3>2. row'[o].answer \in Lineage(row[p].parent, row[p].sess)
      BY <1>3, <2>1, <2>4, <3>1
    <3>3. o # q
      BY <1>1, <1>6, <3>1, <3>2
    <3>4. row'[o] = row[o]
      BY <1>1, <3>3
    <3>5. run'[row[o].answer].held = run[row[o].answer].held
      BY <1>2, <1>4, <3>1, ConversationAssumption DEF HasRow, Run
    <3>6. QED BY <1>2, <2>1, <2>4, <3>1, <3>2, <3>4, <3>5 DEF RowsAre
  <2>5. QED BY <2>2, <2>3, <2>4 DEF RowsAre
<1>9. QED BY <1>7, <1>8, RecordStep

LEMMA RecordOrderly ==
  ASSUME TypeOK, Orderly, NEW r \in Run, Record(r)
  PROVE  Orderly'
<1>1. /\ Moves(r) /\ run'[r].pc = "finish"
      /\ run[r].pc \notin Early
      /\ run[r].from \in Node /\ run[r].held \in Run /\ run[r].q \in Run
      /\ run'[r].held = run[r].held /\ run'[r].from = run[r].from
      /\ run'[r].q = run[r].q
      /\ UNCHANGED <<sess, branch>>
      /\ \A p \in Run \ {run[r].q} : row'[p] = row[p]
      /\ row'[run[r].q].answer = r
      /\ \/ row'[run[r].q].sess = run[r].held /\ row'[run[r].q].parent = run[r].from
         \/ /\ row'[run[r].q].sess = row[run[r].q].sess
            /\ row'[run[r].q].parent = row[run[r].q].parent
  BY RecordStep
<1>2. OneAtATime' /\ InTurn'
  BY TurnInOrder DEF Orderly, TurnStep
<1>3. Tree' /\ \A c \in Cmds : JobIs(c)'
  BY <1>1, Around, TreeStays
<1>4. RowsAre'
  BY RecordRows
<1>5. ASSUME NEW p \in Run \ {r}, Fresh(p) PROVE Spares(p, r)
  <2>1. ASSUME NEW o \in Run
        PROVE  row'[o].parent # p /\ row'[o].answer # p /\ row'[o].sess # p
    <3>1. CASE o = run[r].q
      BY <1>1, <1>5, <3>1 DEF Fresh, Unseen, Unopened
    <3>2. CASE o # run[r].q
      BY <1>1, <1>5, <3>2 DEF Fresh, Unseen, Unopened
    <3>3. QED BY <3>1, <3>2
  <2>2. QED
    BY <1>1, <1>5, <2>1, RunNumbers DEF Fresh, Unseen, Untold, Unopened, Spares
<1>6. \A p \in Run \ {r} : RunIs(p)'
  BY <1>1, <1>5, OthersSpared
<1>7. RunIs(r)'
  <2>1. Asks(r) /\ run'[r].edits = run[r].edits
    BY <1>1, Around DEF RunIs, Moves
  <2>2. Asks(r)'
    BY <1>1, <2>1 DEF Asks, Early, Late
  <2>3. QED BY <1>1, <2>2 DEF RunIs, Opening, Early, Late
<1>8. QED BY <1>2, <1>3, <1>4, <1>6, <1>7 DEF Orderly

LEMMA RecordClean ==
  ASSUME TypeOK, Orderly, AllClean, NEW r \in Run, Record(r)
  PROVE  AllClean'
<1>1. /\ Moves(r) /\ run'[r].pc = "finish"
      /\ run[r].pc \notin Early /\ run[r].pc \in Late
      /\ run[r].from \in Node /\ run[r].held \in Run /\ run[r].q \in Run
      /\ UNCHANGED <<sess, branch>>
      /\ \A p \in Run \ {run[r].q} : row'[p] = row[p]
      /\ \/ /\ row'[run[r].q].sess = run[r].held
            /\ row'[run[r].q].parent = run[r].from
         \/ /\ HasRow(run[r].q)
            /\ row'[run[r].q].sess = row[run[r].q].sess
            /\ row'[run[r].q].parent = row[run[r].q].parent
  BY RecordStep
<1>2. /\ Keeps(r) /\ RunIs(r)
      /\ \A p \in Run \ {r} : run[p].pc \in Quiet
      /\ \A p \in Run : row[p].parent \in Node
  BY <1>1, Around DEF TypeOK, Row
<1>3. SUFFICES ASSUME NoStray'
               PROVE  CleanTips' /\ CleanRows' /\ \A p \in Run : CleanRun(p)'
  BY DEF AllClean
<1>4. CleanTips /\ CleanRows /\ CleanRun(r)
  BY <1>2, <1>3, StraysOn DEF AllClean
<1>5. \A n \in Node : \A s : Clean(n, s) => Clean(n, s)'
  BY <1>1, <1>2, HistoryStays DEF Clean, Keeps
<1>6. CleanTips'
  BY <1>1, <1>2, <1>4, CleanTipsStay DEF Exists
<1>7. ASSUME NEW p \in Run, HasRow(p)' PROVE Clean(row[p].parent, row[p].sess)'
  <2>1. CASE row'[p].parent = row[p].parent /\ row'[p].sess = row[p].sess /\ HasRow(p)
    <3>1. Clean(row[p].parent, row[p].sess)
      BY <1>4, <2>1 DEF CleanRows
    <3>2. QED BY <1>2, <1>5, <2>1, <3>1
  <2>2. CASE row'[p].parent = run[r].from /\ row'[p].sess = run[r].held
    <3>1. Clean(run[r].from, run[r].held)
      BY <1>1, <1>4 DEF CleanRun
    <3>2. QED BY <1>1, <1>5, <2>2, <3>1
  <2>3. QED BY <1>1, <1>7, <2>1, <2>2 DEF HasRow
<1>8. CleanRows'
  BY <1>7 DEF CleanRows
<1>9. ASSUME NEW p \in Run PROVE CleanRun(p)'
  BY <1>1, <1>2 DEF Keeps, Same, CleanRun, Quiet, Late
<1>10. QED BY <1>6, <1>8, <1>9

LEMMA RecordKept ==
  ASSUME TypeOK, Orderly, AllKept, NEW r \in Run, Record(r)
  PROVE  AllKept'
<1>1. /\ Moves(r) /\ run[r].pc = "record" /\ run'[r].pc = "finish"
      /\ run[r].pc \notin Early /\ run[r].pc \in Late
      /\ run[r].from \in Node /\ run[r].held \in Run /\ run[r].q \in Run
      /\ run'[r].held = run[r].held /\ run'[r].recorded
      /\ UNCHANGED <<sess, branch>>
      /\ clock \in 0 .. N
      /\ \A p \in Run \ {run[r].q} : row'[p] = row[p]
      /\ row'[run[r].q].answer = r
      /\ \/ /\ run[r].q = r
            /\ row'[r].sess = run[r].held /\ row'[r].parent = run[r].from
            /\ row'[r].at = clock
         \/ /\ run[r].q # r /\ Newest(run[r].q) /\ HasRow(run[r].q)
            /\ row'[run[r].q].sess = row[run[r].q].sess
            /\ row'[run[r].q].parent = row[run[r].q].parent
            /\ row'[run[r].q].at = row[run[r].q].at
  BY RecordStep
<1> DEFINE q == run[r].q
<1>2. /\ Keeps(r) /\ RunIs(r) /\ RowsAre
      /\ \A p \in Run \ {r} : run[p].pc \in Quiet
      /\ \A c \in Cmds : job[c].at = "idle"
      /\ \A p \in Run : row[p].parent \in Node /\ row[p].at \in 0 .. N
  BY <1>1, Around DEF TypeOK, Row
<1>3. SUFFICES ASSUME crashes' = 0, NoFork'
               PROVE  KeptTips' /\ KeptRows' /\ \A p \in Run : KeptRun(p)'
  BY DEF AllKept
<1>4. KeptTips /\ KeptRows /\ KeptRun(r)
  BY <1>1, <1>2, <1>3, ForkBack DEF AllKept, Keeps
<1>5. /\ \A p \in Run \ {q} : ~Redoing(p) /\ ~Forgetting(p)
      /\ \A p \in Run \ {q} : HasRow(p)' = HasRow(p)
  BY <1>1, <1>2 DEF Redoing, Forgetting, Quiet, HasRow
<1>6. ASSUME NEW p \in Run \ {q}, HasRow(p)
      PROVE  \A n \in Node : InSight(p, n) => InSight(p, n)'
  BY <1>1, <1>2, <1>6, InSightStays
<1>7. ASSUME NEW p \in Run, HasRow(p)', Exists(row[p].sess)'
      PROVE  InSight(p, sess[row[p].sess].tip)'
  <2>1. CASE p = q
    <3> DEFINE h == run[r].held
    <3>1. SUFFICES ASSUME row'[p].sess = h
                   PROVE  r \in Lineage(sess[row[p].sess].tip, row[p].sess)'
      BY <1>1, <2>1 DEF InSight
    <3>2. Exists(h) /\ sess'[h].tip = r
      <4>1. Exists(h)
        BY <1>1, <1>7, <3>1 DEF Exists
      <4>2. QED BY <1>1, <1>2, <4>1 DEF RunIs
    <3>3. r \in Lineage(r, h)
      BY <1>1, NewTip
    <3>4. \A n \in Node : \A s : Lineage(n, s)' = Lineage(n, s)
      BY <1>1, <1>2, HistoryStays
    <3>5. \A n \in Node : \A s : n = r /\ s = h => r \in Lineage(n, s)'
      BY <3>3, <3>4
    <3>6. QED BY <3>1, <3>2, <3>5, RunNumbers
  <2>2. CASE p # q
    <3> DEFINE s == row[p].sess
    <3>1. HasRow(p) /\ row'[p] = row[p] /\ Exists(s)
      BY <1>1, <1>5, <1>7, <2>2 DEF Exists
    <3>2. s \in Run /\ sess[s].tip \in Node
      BY <1>2, <3>1 DEF RowsAre, TypeOK, SessRec
    <3>3. InSight(p, sess[s].tip)
      BY <1>4, <1>5, <2>2, <3>1 DEF KeptTips
    <3>4. QED BY <1>1, <1>6, <2>2, <3>1, <3>2, <3>3
  <2>3. QED BY <2>1, <2>2
<1>8. KeptTips'
  BY <1>7 DEF KeptTips
<1>9. ASSUME NEW p \in Run, NEW o \in Run, HasRow(p)', HasRow(o)',
             row'[p].sess = row'[o].sess, row'[o].at < row'[p].at
      PROVE  InSight(o, row[p].parent)'
  <2>1. o # q
    <3>1. CASE q = r /\ row'[r].at = clock /\ o = q
      <4>1. p # r /\ row'[p] = row[p] /\ HasRow(p)
        BY <1>1, <1>2, <1>5, <1>9, <3>1
      <4>2. row[p].at < clock
        BY <1>2, <4>1 DEF RowsAre
      <4>3. row[p].at \in Nat /\ clock \in Nat
        BY <1>1, <1>2
      <4>4. QED BY <1>9, <3>1, <4>1, <4>2, <4>3
    <3>2. CASE /\ q # r /\ Newest(q) /\ o = q
               /\ row'[q].sess = row[q].sess /\ row'[q].at = row[q].at
      <4>1. p # q
        BY <1>1, <1>2, <1>9, <3>2
      <4>2. row'[p] = row[p] /\ HasRow(p)
        BY <1>1, <1>5, <1>9, <4>1
      <4>3. row[p].at <= row[q].at
        BY <1>9, <3>2, <4>2 DEF Newest
      <4>4. row[p].at \in Nat /\ row[q].at \in Nat
        BY <1>1, <1>2
      <4>5. QED BY <1>9, <3>2, <4>2, <4>3, <4>4
    <3>3. QED BY <1>1, <3>1, <3>2
  <2>2. HasRow(o) /\ row'[o] = row[o]
    BY <1>1, <1>5, <1>9, <2>1
  <2>3. CASE p # q
    <3>1. HasRow(p) /\ row'[p] = row[p]
      BY <1>1, <1>5, <1>9, <2>3
    <3>2. InSight(o, row[p].parent)
      BY <1>4, <1>9, <2>2, <3>1 DEF KeptRows
    <3>3. QED BY <1>2, <1>6, <2>1, <2>2, <3>1, <3>2
  <2>4. CASE /\ p = q /\ q = r /\ row'[r].sess = run[r].held
             /\ row'[r].parent = run[r].from
    <3>1. InSight(o, run[r].from)
      BY <1>1, <1>4, <1>9, <2>1, <2>2, <2>4 DEF KeptRun
    <3>2. QED BY <1>1, <1>6, <2>1, <2>2, <2>4, <3>1
  <2>5. CASE /\ p = q /\ HasRow(q) /\ row'[q].sess = row[q].sess
             /\ row'[q].parent = row[q].parent /\ row'[q].at = row[q].at
    <3>1. InSight(o, row[q].parent)
      BY <1>1, <1>4, <1>9, <2>2, <2>5 DEF KeptRows
    <3>2. QED BY <1>1, <1>2, <1>6, <2>1, <2>2, <2>5, <3>1
  <2>6. QED BY <1>1, <2>3, <2>4, <2>5
<1>10. KeptRows'
  BY <1>9 DEF KeptRows
<1>11. ASSUME NEW p \in Run PROVE KeptRun(p)'
  BY <1>1, <1>2 DEF Keeps, Same, KeptRun, Quiet, Late
<1>12. QED BY <1>8, <1>10, <1>11

\* All that a step of a run may be.
LEMMA TurnHistory ==
  ASSUME TypeOK, OneLive, Orderly, NEW r \in Run, TurnStep(r)
  PROVE  Orderly' /\ (AllClean => AllClean') /\ (AllKept => AllKept')
<1>1. CASE Calm(r)
  BY <1>1, CalmOrderly, CalmClean, CalmKept
<1>2. CASE Continue(r)
  BY <1>2, ContinueOrderly, ContinueClean, ContinueKept
<1>3. CASE CreateSession(r) /\ ~SlotTaken(r)
  BY <1>3, CreateOrderly, CreateClean, CreateKept
<1>4. CASE BeginSend(r)
  BY <1>4, BeginOrderly, BeginClean, BeginKept
<1>5. CASE SendReturns(r)
  BY <1>5, ReturnsOrderly, ReturnsClean, ReturnsKept
<1>6. CASE Advance(r)
  BY <1>6, AdvanceOrderly, AdvanceClean, AdvanceKept
<1>7. CASE Record(r)
  BY <1>7, RecordOrderly, RecordClean, RecordKept
<1>8. QED BY <1>1, <1>2, <1>3, <1>4, <1>5, <1>6, <1>7, TurnIsCalm

\* A step after which every run rests, and that adds nothing to any of them.
Rests ==
  /\ \A p \in Run :
       /\ run'[p].pc \in Quiet
       /\ run'[p].pc = "idle" <=> run[p].pc = "idle"
       /\ run'[p].q = run[p].q /\ run'[p].edits = run[p].edits
       /\ run'[p].held = run[p].held /\ run'[p].from = run[p].from
       /\ run[p].recorded => run'[p].recorded
       /\ run'[p].recorded => run[p].recorded
  /\ UNCHANGED <<branch, clock>>

\* Rows may go.
Fewer == \A q \in Run : row'[q] = row[q] \/ row'[q] = NoRow

LEMMA FewerRows ==
  ASSUME Fewer, NEW q \in Run, HasRow(q)'
  PROVE  HasRow(q) /\ row'[q] = row[q]
BY DEF Fewer, HasRow, NoRow

LEMMA RestHistory ==
  ASSUME TypeOK, Rests
  PROVE  \A n \in Node : \A s : /\ InConversation(n, s)' = InConversation(n, s)
                                /\ Lineage(n, s)' = Lineage(n, s)
<1> SUFFICES ASSUME NEW n \in Node, NEW s
             PROVE  /\ InConversation(n, s)' = InConversation(n, s)
                    /\ Lineage(n, s)' = Lineage(n, s)
  OBVIOUS
<1>1. n \in Run => run'[n].held = run[n].held
  BY DEF Rests
<1>2. InConversation(n, s)' = InConversation(n, s)
  BY <1>1 DEF InConversation
<1>3. QED BY <1>2 DEF Rests, Lineage

LEMMA RestTree ==
  ASSUME TypeOK, Tree, Rests
  PROVE  Tree'
<1>1. ASSUME NEW n \in Run, NEW m \in Node, m \in branch'[n]
      PROVE  InConversation(m, run[n].held)'
  <2>1. InConversation(m, run[n].held) /\ run'[n].held = run[n].held
    BY <1>1 DEF Rests, Tree
  <2>2. QED BY <2>1, RestHistory
<1>2. QED BY <1>1 DEF Rests, Tree

LEMMA RestRows ==
  ASSUME TypeOK, RowsAre, Rests, Fewer
  PROVE  RowsAre'
<1>1. \A q \in Run : HasRow(q)' => HasRow(q) /\ row'[q] = row[q]
  BY FewerRows
<1>2. \A q \in Run : HasRow(q) => /\ row[q].answer \in Run
                                  /\ row[q].parent \in Node
  BY ConversationAssumption DEF HasRow, TypeOK, Row, Run
<1>3. ASSUME NEW p \in Run, HasRow(p)'
      PROVE  Lineage(row[p].parent, row[p].sess)' = Lineage(row[p].parent, row[p].sess)
  BY <1>1, <1>2, <1>3, RestHistory
<1>4. \A p \in Run : run'[p].held = run[p].held /\ (run[p].recorded => run'[p].recorded)
  BY DEF Rests
<1>5. clock' = clock
  BY DEF Rests
<1>6. ASSUME NEW q \in Run, HasRow(q)'
      PROVE  /\ row'[q].sess \in Run /\ row'[q].sess = run'[q].held
             /\ run'[q].recorded /\ row'[q].at < clock'
  BY <1>1, <1>4, <1>5, <1>6 DEF RowsAre
<1>7. ASSUME NEW p \in Run, NEW q \in Run, HasRow(p)', HasRow(q)', p # q
      PROVE  row'[p].at # row'[q].at
  BY <1>1, <1>7 DEF RowsAre
<1>8. ASSUME NEW p \in Run, NEW q \in Run, HasRow(p)', HasRow(q)',
             row'[p].sess = row'[q].sess,
             run'[row'[q].answer].held = row'[q].sess,
             row'[q].answer \in Lineage(row[p].parent, row[p].sess)'
      PROVE  row'[q].at < row'[p].at
  BY <1>1, <1>2, <1>3, <1>4, <1>8 DEF RowsAre
<1>9. QED BY <1>6, <1>7, <1>8 DEF RowsAre

LEMMA RestOrderly ==
  ASSUME TypeOK, Orderly, Rests, Fewer,
         \A p \in Run : Fresh(p) => /\ \A s \in Run : sess'[s].tip # p
                                    /\ sess'[p].st = "none" /\ p \notin rewound',
         \A c, d \in Cmds : job'[c].at # "idle" /\ c # d => job'[d].at = "idle",
         \A c \in Cmds : JobIs(c)'
  PROVE  Orderly'
<1>1. OneAtATime'
  BY DEF OneAtATime, Busy, Active, Running, Rests, Quiet
<1>2. InTurn'
  BY DEF Orderly, InTurn, Rests, Quiet, Early, Late
<1>3. Tree' /\ RowsAre'
  BY RestTree, RestRows DEF Orderly
<1>4. ASSUME NEW p \in Run PROVE RunIs(p)'
  <2>1. run'[p].pc \in Quiet /\ Asks(p)
    BY DEF Rests, Orderly, RunIs
  <2>2. Asks(p)'
    BY <2>1 DEF Asks, Rests, Quiet, Early, Late
  <2>3. CASE run'[p].pc = "idle"
    <3>1. Fresh(p)
      BY <2>3 DEF Rests, Orderly, RunIs, Opening
    <3>2. p # 0
      BY ConversationAssumption DEF Run
    <3>3. \A q \in Run : row'[q].parent # p /\ row'[q].answer # p /\ row'[q].sess # p
      BY <3>1, <3>2 DEF Fewer, NoRow, Fresh, Unseen, Unopened
    <3>4. Unseen(p)'
      BY <3>1, <3>3 DEF Rests, Fresh, Unseen
    <3>5. Untold(p)' /\ Unopened(p)'
      BY <3>1, <3>3 DEF Rests, Fresh, Untold, Unopened
    <3>6. QED BY <2>2, <2>3, <3>4, <3>5 DEF RunIs, Fresh, Opening, Early, Late
  <2>4. CASE run'[p].pc # "idle"
    BY <2>1, <2>2, <2>4 DEF RunIs, Quiet, Opening, Early, Late
  <2>5. QED BY <2>3, <2>4
<1>5. QED BY <1>1, <1>2, <1>3, <1>4 DEF Orderly

LEMMA RestClean ==
  ASSUME TypeOK, AllClean, Rests, Fewer, rewound' = rewound,
         \A s \in Run : Exists(s)' => Exists(s) /\ sess'[s].tip = sess[s].tip
  PROVE  AllClean'
<1>1. SUFFICES ASSUME NoStray'
               PROVE  CleanTips' /\ CleanRows' /\ \A p \in Run : CleanRun(p)'
  BY DEF AllClean
<1>2. NoStray
  <2>1. ASSUME NEW r \in Run, Strays(r) PROVE Strays(r)'
    <3>1. run[r].edits # 0 => run[r].edits \in Run
      BY ConversationAssumption DEF TypeOK, RunRec, Run
    <3>2. QED BY <2>1, <3>1 DEF Rests, Strays
  <2>2. QED BY <1>1, <2>1 DEF NoStray
<1>3. CleanTips /\ CleanRows
  BY <1>2 DEF AllClean
<1>4. \A n \in Node : \A s : Clean(n, s) => Clean(n, s)'
  BY RestHistory DEF Clean
<1>5. ASSUME NEW s \in Run, Exists(s)' PROVE Clean(sess[s].tip, s)'
  <2>1. Exists(s) /\ sess'[s].tip = sess[s].tip /\ sess[s].tip \in Node
    BY <1>5 DEF TypeOK, SessRec
  <2>2. Clean(sess[s].tip, s)
    BY <1>3, <2>1 DEF CleanTips
  <2>3. QED BY <1>4, <2>1, <2>2
<1>6. ASSUME NEW q \in Run, HasRow(q)' PROVE Clean(row[q].parent, row[q].sess)'
  <2>1. HasRow(q) /\ row'[q] = row[q] /\ row[q].parent \in Node
    BY <1>6, FewerRows DEF TypeOK, Row
  <2>2. Clean(row[q].parent, row[q].sess)
    BY <1>3, <2>1 DEF CleanRows
  <2>3. QED BY <1>4, <2>1, <2>2
<1>7. \A p \in Run : CleanRun(p)'
  BY DEF Rests, CleanRun, Quiet, Late
<1>8. QED BY <1>5, <1>6, <1>7 DEF CleanTips, CleanRows

\* Whether an answer is seen does not change with what rests.
LEMMA RestWhole ==
  ASSUME TypeOK, Rests
  PROVE  \A s : Whole(s)' = Whole(s)
<1>1. \A p \in Run : /\ run'[p].held = run[p].held
                     /\ Orphaned(p)' = Orphaned(p)
  <2> SUFFICES ASSUME NEW p \in Run
               PROVE  /\ run'[p].held = run[p].held
                      /\ Orphaned(p)' = Orphaned(p)
    OBVIOUS
  <2>1. /\ run'[p].held = run[p].held /\ run'[p].from = run[p].from
        /\ run[p].from \in Node
    BY DEF Rests, TypeOK, RunRec
  <2>2. \A s : InConversation(run[p].from, s)' = InConversation(run[p].from, s)
    BY <2>1, RestHistory
  <2>3. QED BY <2>1, <2>2 DEF Orphaned, Rests
<1>2. QED BY <1>1 DEF Whole

LEMMA RestInSight ==
  ASSUME TypeOK, Rests, NEW q \in Run, HasRow(q), row'[q] = row[q]
  PROVE  \A n \in Node : InSight(q, n) => InSight(q, n)'
<1>1. row[q].answer \in Run
  BY ConversationAssumption DEF HasRow, TypeOK, Row, Run
<1>2. QED BY <1>1, RestHistory, RestWhole DEF InSight, Rests

LEMMA RestKeptRows ==
  ASSUME TypeOK, Rests, Fewer, KeptRows
  PROVE  KeptRows'
<1>1. ASSUME NEW p \in Run, NEW q \in Run, HasRow(p)', HasRow(q)',
             row'[p].sess = row'[q].sess, row'[q].at < row'[p].at
      PROVE  InSight(q, row[p].parent)'
  <2>1. /\ HasRow(p) /\ row'[p] = row[p] /\ HasRow(q) /\ row'[q] = row[q]
        /\ row[p].parent \in Node
    BY <1>1, FewerRows DEF TypeOK, Row
  <2>2. InSight(q, row[p].parent)
    BY <1>1, <2>1 DEF KeptRows
  <2>3. QED BY <2>1, <2>2, RestInSight
<1>2. QED BY <1>1 DEF KeptRows

LEMMA RestKept ==
  ASSUME TypeOK, Orderly, AllKept, Rests, Fewer, crashes' = crashes,
         \A r \in Run : run[r].pc \in Quiet,
         \A s \in Run : Exists(s)' => Exists(s) /\ sess'[s].tip = sess[s].tip,
         \A q \in Run : HasRow(q)' /\ Forgetting(q) => Forgetting(q)'
  PROVE  AllKept'
<1>1. SUFFICES ASSUME crashes' = 0, NoFork'
               PROVE  KeptTips' /\ KeptRows' /\ \A p \in Run : KeptRun(p)'
  BY DEF AllKept
<1>2. NoFork
  BY <1>1 DEF Rests, NoFork
<1>3. KeptTips /\ KeptRows
  BY <1>1, <1>2 DEF AllKept
<1>4. \A q \in Run : ~Redoing(q)
  BY DEF Redoing, Quiet
<1>5. ASSUME NEW q \in Run, HasRow(q)', Exists(row[q].sess)', ~Forgetting(q)'
      PROVE  InSight(q, sess[row[q].sess].tip)'
  <2> DEFINE s == row[q].sess
  <2>1. HasRow(q) /\ row'[q] = row[q] /\ ~Forgetting(q)
    BY <1>5, FewerRows
  <2>2. s \in Run
    BY <2>1 DEF Orderly, RowsAre
  <2>3. \A t \in Run : t = s => Exists(t) /\ sess'[t].tip = sess[t].tip
    BY <1>5, <2>1 DEF Exists
  <2>4. Exists(s) /\ sess'[s].tip = sess[s].tip /\ sess[s].tip \in Node
    BY <2>2, <2>3 DEF TypeOK, SessRec
  <2>5. InSight(q, sess[s].tip)
    BY <1>3, <1>4, <2>1, <2>4 DEF KeptTips
  <2>6. QED BY <2>1, <2>4, <2>5, RestInSight
<1>6. KeptTips'
  BY <1>5 DEF KeptTips
<1>7. KeptRows'
  BY <1>3, RestKeptRows
<1>8. \A p \in Run : KeptRun(p)'
  BY DEF Rests, KeptRun, Quiet, Late
<1>9. QED BY <1>6, <1>7, <1>8

\* Where a command goes, and what it still knows.
LEMMA JobStepIs ==
  ASSUME TypeOK, NEW c \in Cmds, NEW from, NEW to, JobStep(c, from, to)
  PROVE  /\ job[c].at = from /\ job'[c].at = to
         /\ to # "idle" => /\ job'[c].s = job[c].s /\ job'[c].q = job[c].q
                           /\ job'[c].row = job[c].row
<1>1. job[c] \in JobRec
  BY DEF TypeOK
<1> DEFINE x == IF to = "idle" THEN IdleJob ELSE [job[c] EXCEPT !.at = to]
<1>2. x.at = to /\ (to # "idle" => /\ x.s = job[c].s /\ x.q = job[c].q
                                   /\ x.row = job[c].row)
  BY <1>1 DEF JobRec, IdleJob
<1>3. job[c].at = from /\ job' = [job EXCEPT ![c] = x]
  BY DEF JobStep, TypeOK
<1> HIDE DEF x
<1>4. job'[c] = x
  BY <1>3 DEF TypeOK
<1>5. QED BY <1>2, <1>3, <1>4

\* Tables and conversations that a command leaves as they are, or loses.
Loses ==
  /\ Fewer /\ rewound' = rewound
  /\ \A s \in Run : /\ sess'[s].tip = sess[s].tip
                    /\ Exists(s)' => Exists(s)
                    /\ sess[s].st = "none" => sess'[s].st = "none"

LEMMA LosesNothing ==
  UNCHANGED <<sess, row, rewound>> => Loses
BY DEF Loses, Fewer, Exists

LEMMA LosesSession ==
  ASSUME TypeOK, NEW s \in 0 .. N, UNCHANGED <<row, rewound>>,
         sess' = CloseSession(s) \/ sess' = ReopenSession(s)
  PROVE  Loses
<1>1. \A t \in Run : sess[t] \in SessRec
  BY DEF TypeOK
<1>2. \A t \in Run :
        \/ sess'[t] = sess[t]
        \/ sess[t].st = "live" /\ sess'[t] = [sess[t] EXCEPT !.st = "closed"]
        \/ sess[t].st = "closed" /\ sess'[t] = [sess[t] EXCEPT !.st = "live"]
  <2>1. CASE sess' = CloseSession(s)
    BY <2>1 DEF CloseSession, TypeOK, SessRec
  <2>2. CASE sess' = ReopenSession(s)
    BY <2>2 DEF ReopenSession, TypeOK, SessRec
  <2>3. QED BY <2>1, <2>2
<1>3. \A t \in Run : /\ sess'[t].tip = sess[t].tip
                     /\ Exists(t)' => Exists(t)
                     /\ sess[t].st = "none" => sess'[t].st = "none"
  BY <1>1, <1>2 DEF Exists, SessRec
<1>4. QED BY <1>3 DEF Loses, Fewer

\* A command that takes back nothing.
Loosens(c) ==
  /\ Loses /\ JobIs(c)'
  /\ \A q \in Run : HasRow(q)' => /\ job[c].q # q
                                  \/ job[c].at \notin {"undo forget", "taken back forget"}

LEMMA ForgetLoses ==
  ASSUME TypeOK, NEW q, row' = [row EXCEPT ![q] = NoRow],
         UNCHANGED <<sess, rewound>>
  PROVE  Loses /\ \A p \in Run : HasRow(p)' => p # q
<1>1. \A p \in Run : row'[p] = IF p = q THEN NoRow ELSE row[p]
  BY DEF TypeOK
<1>2. QED BY <1>1 DEF Loses, Fewer, Exists, HasRow, NoRow

LEMMA JobLoosens ==
  ASSUME TypeOK, OneLive, Orderly, NEW c \in Cmds, JobNext(c)
  PROVE  Loosens(c) \/ UndoRewind(c) \/ TakenBackRewind(c)
<1> DEFINE Forgets == {"undo forget", "taken back forget"}
           Reads == {"undo last", "undo backend", "undo rewind",
                     "taken back", "taken back last", "taken back rewind"}
<1>1. ASSUME NEW from, NEW to, JobStep(c, from, to), Loses,
             from \notin Forgets, to \notin Reads
      PROVE  Loosens(c)
  BY <1>1, JobStepIs DEF Loosens, JobIs
<1>2. job[c] \in JobRec /\ JobIs(c)
  BY DEF TypeOK, Orderly
<1>3. job[c].s \in 0 .. N /\ job[c].t \in 0 .. N
  BY <1>2 DEF JobRec
<1>4. CASE NewClose(c)
  <2>1. JobStep(c, "new", "idle") /\ Loses
    BY <1>3, <1>4, LosesSession DEF NewClose, ledger
  <2>2. QED BY <1>1, <2>1
<1>5. CASE UndoReadLast(c)
  <2>1. Loses
    BY <1>5, LosesNothing DEF UndoReadLast, tables, ledger
  <2>2. CASE JobStep(c, "undo last", "idle")
    BY <1>1, <2>1, <2>2
  <2>3. CASE ~JobStep(c, "undo last", "idle")
    <3>1. PICK q \in LastTurn :
            job' = [job EXCEPT ![c] = [@ EXCEPT !.at = "undo backend",
                                                !.q = q, !.row = row[q]]]
      BY <1>5, <2>3 DEF UndoReadLast
    <3>2. job[c].at = "undo last"
      BY <1>5, <2>3 DEF UndoReadLast
    <3> DEFINE x == [job[c] EXCEPT !.at = "undo backend", !.q = q, !.row = row[q]]
    <3>3. /\ x.at = "undo backend" /\ x.q = q /\ x.row = row[q]
          /\ x.s = job[c].s
      BY <1>2 DEF JobRec
    <3>4. job' = [job EXCEPT ![c] = x]
      BY <3>1
    <3> HIDE DEF x
    <3>5. job'[c] = x
      BY <3>4 DEF TypeOK
    <3>6. UNCHANGED <<sess, row>>
      BY <1>5 DEF UndoReadLast, tables
    <3>7. LastTurn' = LastTurn
      BY <3>6 DEF LastTurn, Live, HasRow
    <3>8. job[c].s = row[q].sess
      BY <1>2, <3>1, <3>2 DEF JobIs, LastTurn, OneLive
    <3>9. /\ job'[c].at = "undo backend" /\ job'[c].q \in LastTurn'
          /\ job'[c].row = row'[job'[c].q] /\ job'[c].s = job'[c].row.sess
      BY <3>3, <3>5, <3>6, <3>7, <3>8
    <3>10. JobIs(c)'
      BY <3>9 DEF JobIs
    <3>11. QED BY <2>1, <3>2, <3>10 DEF Loosens
  <2>4. QED BY <2>2, <2>3
<1>6. CASE UndoForget(c)
  <2>1. JobStep(c, "undo forget", "undo redact")
        /\ row' = [row EXCEPT ![job[c].q] = NoRow] /\ UNCHANGED <<sess, rewound>>
    BY <1>6 DEF UndoForget, ledger
  <2>2. Loses /\ \A p \in Run : HasRow(p)' => p # job[c].q
    BY <2>1, ForgetLoses
  <2>3. job'[c] = [job[c] EXCEPT !.at = "undo redact"]
    BY <2>1 DEF JobStep, TypeOK
  <2>4. job'[c].at = "undo redact"
    BY <1>2, <2>3 DEF JobRec
  <2>5. JobIs(c)'
    BY <2>4 DEF JobIs
  <2>6. QED BY <2>2, <2>5 DEF Loosens
<1>7. CASE UndoRedact(c)
  <2>1. JobStep(c, "undo redact", "idle") /\ Loses
    BY <1>7, LosesNothing DEF UndoRedact, tables
  <2>2. QED BY <1>1, <2>1
<1>8. CASE TakenBackReadLast(c)
  <2>1. Loses /\ UNCHANGED <<sess, row>>
    BY <1>8, LosesNothing DEF TakenBackReadLast, tables, ledger
  <2>2. CASE JobStep(c, "taken back last", "taken back forget")
    BY <1>1, <2>1, <2>2
  <2>3. CASE job[c].q \in LastTurn /\ JobStep(c, "taken back last", "taken back rewind")
    <3>1. /\ job[c].at = "taken back last" /\ job'[c].at = "taken back rewind"
          /\ job'[c].q = job[c].q /\ job'[c].row = job[c].row
      <4>1. /\ job[c].at = "taken back last"
            /\ job'[c] = [job[c] EXCEPT !.at = "taken back rewind"]
        BY <2>3 DEF JobStep, TypeOK
      <4>2. QED BY <1>2, <4>1 DEF JobRec
    <3>2. LastTurn' = LastTurn
      BY <2>1 DEF LastTurn, Live, HasRow
    <3>3. job[c].row = row[job[c].q]
      BY <1>2, <3>1 DEF JobIs
    <3>4. JobIs(c)'
      BY <2>1, <2>3, <3>1, <3>2, <3>3 DEF JobIs
    <3>5. QED BY <2>1, <3>1, <3>4 DEF Loosens
  <2>4. QED BY <1>8, <2>2, <2>3 DEF TakenBackReadLast
<1>9. CASE TakenBackForget(c)
  <2>1. JobStep(c, "taken back forget", "idle")
        /\ row' = [row EXCEPT ![job[c].q] = NoRow] /\ UNCHANGED <<sess, rewound>>
    BY <1>9 DEF TakenBackForget, ledger
  <2>2. Loses /\ \A p \in Run : HasRow(p)' => p # job[c].q
    BY <2>1, ForgetLoses
  <2>3. job'[c] = IdleJob
    BY <2>1 DEF JobStep, TypeOK
  <2>4. JobIs(c)'
    BY <2>3 DEF JobIs, IdleJob
  <2>5. QED BY <2>2, <2>4 DEF Loosens
<1>10. CASE CompactClose(c)
  <2>1. JobStep(c, "compact", "compact mark") /\ Loses
    BY <1>3, <1>10, LosesSession DEF CompactClose, ledger
  <2>2. QED BY <1>1, <2>1
<1>11. CASE CompactMark(c)
  <2>1. JobStep(c, "compact mark", "idle") /\ Loses
    BY <1>11, LosesNothing DEF CompactMark, ledger
  <2>2. QED BY <1>1, <2>1
<1>12. CASE ResumeReadLive(c)
  <2>1. Loses /\ job[c].at = "resume"
    BY <1>12, LosesNothing DEF ResumeReadLive, tables, ledger
  <2>2. job'[c] = IF LiveSession \in {0, job[c].t}
                  THEN [job[c] EXCEPT !.at = "resume reopen"]
                  ELSE [job[c] EXCEPT !.at = "resume close", !.s = LiveSession]
    BY <1>12 DEF ResumeReadLive, TypeOK
  <2>3. job'[c].at \in {"resume reopen", "resume close"}
    BY <1>2, <2>2 DEF JobRec
  <2>4. QED BY <2>1, <2>3 DEF Loosens, JobIs
<1>13. CASE ResumeClose(c)
  <2>1. JobStep(c, "resume close", "resume reopen") /\ Loses
    BY <1>3, <1>13, LosesSession DEF ResumeClose, ledger
  <2>2. QED BY <1>1, <2>1
<1>14. CASE ResumeReopen(c)
  <2>1. JobStep(c, "resume reopen", "idle") /\ UNCHANGED <<row, rewound>>
        /\ (sess' = sess \/ sess' = ReopenSession(job[c].t))
    BY <1>14 DEF ResumeReopen, ledger
  <2>2. Loses
    BY <1>3, <2>1, LosesSession, LosesNothing
  <2>3. QED BY <1>1, <2>1, <2>2
<1>15. CASE PurgeRoom(c)
  <2>1. JobStep(c, "purge", "purge forget") /\ Loses
    BY <1>15, LosesNothing DEF PurgeRoom, tables
  <2>2. QED BY <1>1, <2>1
<1>16. CASE PurgeForget(c)
  <2>1. JobStep(c, "purge forget", "idle") /\ rewound' = rewound
    BY <1>16 DEF PurgeForget, ledger
  <2>2. \A s \in Run : sess'[s] = IF Exists(s) THEN [sess[s] EXCEPT !.st = "gone"]
                                  ELSE sess[s]
    BY <1>16 DEF PurgeForget
  <2>3. \A s \in Run : sess[s] \in SessRec
    BY DEF TypeOK
  <2>4. \A s \in Run : /\ sess'[s].tip = sess[s].tip
                       /\ Exists(s)' => Exists(s)
                       /\ sess[s].st = "none" => sess'[s].st = "none"
    BY <2>2, <2>3 DEF Exists, SessRec
  <2>5. Fewer
    BY <1>16 DEF PurgeForget, Fewer
  <2>6. QED BY <1>1, <2>1, <2>4, <2>5 DEF Loses
<1>17. CASE UndoBackend(c)
  <2>1. JobStep(c, "undo backend", "undo rewind")
        /\ Loses /\ UNCHANGED <<sess, row>>
    BY <1>17, LosesNothing DEF UndoBackend, tables, ledger
  <2>2. /\ job[c].at = "undo backend" /\ job'[c].at = "undo rewind"
        /\ job'[c].q = job[c].q /\ job'[c].row = job[c].row
        /\ job'[c].s = job[c].s
    <3>1. /\ job[c].at = "undo backend"
          /\ job'[c] = [job[c] EXCEPT !.at = "undo rewind"]
      BY <2>1 DEF JobStep, TypeOK
    <3>2. QED BY <1>2, <3>1 DEF JobRec
  <2>3. LastTurn' = LastTurn
    BY <2>1 DEF LastTurn, Live, HasRow
  <2>4. job[c].q \in LastTurn /\ job[c].row = row[job[c].q]
        /\ job[c].s = job[c].row.sess
    BY <1>2, <2>2 DEF JobIs
  <2>5. JobIs(c)'
    BY <2>1, <2>2, <2>3, <2>4 DEF JobIs
  <2>6. QED BY <2>1, <2>2, <2>5 DEF Loosens
<1>18. CASE TakenBackBackend(c)
  <2>1. Loses /\ UNCHANGED <<sess, row>>
    BY <1>18, LosesNothing DEF TakenBackBackend, tables, ledger
  <2>2. CASE JobStep(c, "taken back", "idle")
    BY <1>1, <2>1, <2>2
  <2>3. CASE JobStep(c, "taken back", "taken back last")
    <3>1. /\ job[c].at = "taken back" /\ job'[c].at = "taken back last"
          /\ job'[c].q = job[c].q /\ job'[c].row = job[c].row
      <4>1. /\ job[c].at = "taken back"
            /\ job'[c] = [job[c] EXCEPT !.at = "taken back last"]
        BY <2>3 DEF JobStep, TypeOK
      <4>2. QED BY <1>2, <4>1 DEF JobRec
    <3>2. job[c].q \in Run /\ HasRow(job[c].q) /\ job[c].row = row[job[c].q]
      BY <1>2, <3>1 DEF JobIs
    <3>3. JobIs(c)'
      BY <2>1, <3>1, <3>2 DEF JobIs, HasRow
    <3>4. QED BY <2>1, <3>1, <3>3 DEF Loosens
  <2>4. QED BY <1>18, <2>2, <2>3 DEF TakenBackBackend
<1>19. QED
  BY <1>4, <1>5, <1>6, <1>7, <1>8, <1>9, <1>10, <1>11, <1>12, <1>13, <1>14,
     <1>15, <1>16, <1>17, <1>18 DEF JobNext

LEMMA JobRests ==
  ASSUME TypeOK, Orderly, NEW c \in Cmds, JobNext(c)
  PROVE  /\ Rests /\ crashes' = crashes
         /\ \A p \in Run : run[p].pc \in Quiet
         /\ \A d \in Cmds \ {c} : job[d].at = "idle" /\ job'[d] = job[d]
         /\ \A d, e \in Cmds : job'[d].at # "idle" /\ d # e => job'[e].at = "idle"
         /\ \A d \in Cmds \ {c} : JobIs(d)'
<1>1. /\ job[c].at # "idle" /\ \A d \in Cmds \ {c} : job'[d] = job[d]
      /\ UNCHANGED <<run, branch, clock, crashes>>
  BY JobMoves
<1>2. /\ \A p \in Run : run[p].pc \in Quiet
      /\ \A d \in Cmds \ {c} : job[d].at = "idle"
  BY <1>1, Waiting DEF Orderly
<1>3. Rests
  BY <1>1, <1>2 DEF Rests
<1>4. \A d \in Cmds \ {c} : JobIs(d)'
  BY <1>1, <1>2 DEF JobIs
<1>5. QED BY <1>1, <1>2, <1>3, <1>4

\* A command that takes back nothing.
LEMMA LooseHistory ==
  ASSUME TypeOK, Orderly, NEW c \in Cmds, JobNext(c), Loosens(c)
  PROVE  Orderly' /\ (AllClean => AllClean') /\ (AllKept => AllKept')
<1>1. /\ Rests /\ crashes' = crashes
      /\ \A p \in Run : run[p].pc \in Quiet
      /\ \A d \in Cmds \ {c} : job[d].at = "idle" /\ job'[d] = job[d]
      /\ \A d, e \in Cmds : job'[d].at # "idle" /\ d # e => job'[e].at = "idle"
      /\ \A d \in Cmds : JobIs(d)'
  BY JobRests DEF Loosens
<1>2. /\ Fewer /\ rewound' = rewound
      /\ \A s \in Run : Exists(s)' => Exists(s) /\ sess'[s].tip = sess[s].tip
      /\ \A q \in Run : HasRow(q)' => ~Forgetting(q)
  BY <1>1 DEF Loosens, Loses, Forgetting
<1>3. ASSUME NEW p \in Run, Fresh(p)
      PROVE  /\ \A s \in Run : sess'[s].tip # p
             /\ sess'[p].st = "none" /\ p \notin rewound'
  BY <1>2, <1>3 DEF Loosens, Loses, Fresh, Unseen, Untold, Unopened
<1>4. Orderly'
  BY <1>1, <1>2, <1>3, RestOrderly
<1>5. AllClean => AllClean'
  BY <1>1, <1>2, RestClean
<1>6. AllKept => AllKept'
  BY <1>1, <1>2, RestKept, SMTT(30)
<1>7. QED BY <1>4, <1>5, <1>6

\* /undo and a deletion take back the newest turn of the live conversation.
LEMMA RewindIs ==
  ASSUME TypeOK, Orderly, NEW c \in Cmds, UndoRewind(c) \/ TakenBackRewind(c)
  PROVE  /\ row' = row /\ JobIs(c)' /\ Newest(job[c].q) /\ job[c].q \in Run
         /\ job'[c].q = job[c].q
         /\ job'[c].at \in {"undo forget", "taken back forget"}
         /\ row[job[c].q].sess \in Run /\ row[job[c].q].parent \in Node
         /\ row[job[c].q].answer \in Run
         /\ \A s \in Run : /\ sess'[s].st = sess[s].st
                           /\ \/ /\ s # row[job[c].q].sess
                                 /\ sess'[s].tip = sess[s].tip
                              \/ /\ s = row[job[c].q].sess
                                 /\ sess'[s].tip = row[job[c].q].parent
         /\ \/ /\ run[row[job[c].q].answer].held = row[job[c].q].sess
               /\ rewound' = rewound \cup {row[job[c].q].answer}
            \/ /\ run[row[job[c].q].answer].held # row[job[c].q].sess
               /\ rewound' = rewound
<1> DEFINE q == job[c].q
           s == row[q].sess
           a == row[q].answer
<1>1. job[c] \in JobRec /\ JobIs(c)
  BY DEF TypeOK, Orderly
<1>2. /\ q \in LastTurn /\ job[c].row = row[q] /\ row' = row
      /\ sess' = RewindSession(s, row[q].parent)
      /\ rewound' = IF Exists(s) /\ run[a].held = s
                    THEN rewound \cup {a} ELSE rewound
      /\ \/ job'[c] = [job[c] EXCEPT !.at = "undo forget"]
         \/ job'[c] = [job[c] EXCEPT !.at = "taken back forget"]
  <2>1. CASE UndoRewind(c)
    <3>1. job[c].at = "undo rewind" /\ row' = row /\ Rewind(c, job[c].s)
          /\ job'[c] = [job[c] EXCEPT !.at = "undo forget"]
      BY <2>1 DEF UndoRewind, JobStep, TypeOK
    <3>2. q \in LastTurn /\ job[c].row = row[q] /\ job[c].s = s
      BY <1>1, <3>1 DEF JobIs
    <3>3. QED BY <3>1, <3>2 DEF Rewind
  <2>2. CASE TakenBackRewind(c)
    <3>1. job[c].at = "taken back rewind" /\ row' = row
          /\ Rewind(c, job[c].row.sess)
          /\ job'[c] = [job[c] EXCEPT !.at = "taken back forget"]
      BY <2>2 DEF TakenBackRewind, JobStep, TypeOK
    <3>2. q \in LastTurn /\ job[c].row = row[q]
      BY <1>1, <3>1 DEF JobIs
    <3>3. QED BY <3>1, <3>2 DEF Rewind
  <2>3. QED BY <2>1, <2>2
<1>3. job'[c].q = q /\ job'[c].at \in {"undo forget", "taken back forget"}
  BY <1>1, <1>2 DEF JobRec
<1>4. q \in Run /\ HasRow(q) /\ s \in Live
      /\ \A p \in Run : HasRow(p) /\ row[p].sess \in Live => row[p].at <= row[q].at
  BY <1>2 DEF LastTurn
<1>5. Newest(q)
  BY <1>4 DEF Newest
<1>6. s \in Run /\ Exists(s)
  BY <1>4 DEF Live, Exists
<1>7. row[q].parent \in Node /\ a \in Run
  BY <1>4, ConversationAssumption DEF TypeOK, Row, HasRow, Run
<1> DEFINE x == [sess[s] EXCEPT !.tip = row[q].parent,
                                !.turns = OneLess(sess[s].turns)]
<1>8. x.tip = row[q].parent /\ x.st = sess[s].st
  BY <1>6 DEF TypeOK, SessRec
<1>9. sess' = [sess EXCEPT ![s] = x]
  BY <1>2, <1>6 DEF RewindSession
<1> HIDE DEF x
<1>10. \A t \in Run : sess'[t] = IF t = s THEN x ELSE sess[t]
  BY <1>6, <1>9 DEF TypeOK
<1>11. JobIs(c)'
  BY <1>3 DEF JobIs
<1>12. \A t \in Run : /\ sess'[t].st = sess[t].st
                      /\ \/ t # s /\ sess'[t].tip = sess[t].tip
                         \/ t = s /\ sess'[t].tip = row[q].parent
  BY <1>8, <1>10
<1>13. \/ run[a].held = s /\ rewound' = rewound \cup {a}
       \/ run[a].held # s /\ rewound' = rewound
  BY <1>2, <1>6
<1>14. QED
  BY <1>2, <1>3, <1>4, <1>5, <1>6, <1>7, <1>11, <1>12, <1>13

LEMMA RewindOrderly ==
  ASSUME TypeOK, Orderly, NEW c \in Cmds, JobNext(c),
         UndoRewind(c) \/ TakenBackRewind(c)
  PROVE  Orderly'
<1> DEFINE q == job[c].q
<1>1. /\ row' = row /\ JobIs(c)' /\ q \in Run
      /\ row[q].parent \in Node /\ row[q].answer \in Run
      /\ \A s \in Run : /\ sess'[s].st = sess[s].st
                        /\ \/ sess'[s].tip = sess[s].tip
                           \/ sess'[s].tip = row[q].parent
      /\ rewound' \subseteq rewound \cup {row[q].answer}
  BY RewindIs
<1>2. Fewer
  BY <1>1 DEF Fewer
<1>3. ASSUME NEW p \in Run, Fresh(p)
      PROVE  /\ \A s \in Run : sess'[s].tip # p
             /\ sess'[p].st = "none" /\ p \notin rewound'
  BY <1>1, <1>3 DEF Fresh, Unseen, Untold, Unopened
<1>4. QED BY <1>1, <1>2, <1>3, JobRests, RestOrderly

LEMMA RewindClean ==
  ASSUME TypeOK, Orderly, AllClean, NEW c \in Cmds, JobNext(c),
         UndoRewind(c) \/ TakenBackRewind(c)
  PROVE  AllClean'
<1> DEFINE q == job[c].q
           a == row[q].answer
           s == row[q].sess
<1>1. /\ row' = row /\ Newest(q) /\ q \in Run /\ s \in Run
      /\ row[q].parent \in Node /\ a \in Run
      /\ \A t \in Run : /\ sess'[t].st = sess[t].st
                        /\ \/ t # s /\ sess'[t].tip = sess[t].tip
                           \/ t = s /\ sess'[t].tip = row[q].parent
      /\ \/ run[a].held = s /\ rewound' = rewound \cup {a}
         \/ run[a].held # s /\ rewound' = rewound
  BY RewindIs
<1>2. Rests /\ Tree /\ RowsAre /\ HasRow(q)
  BY <1>1, JobRests DEF Orderly, Newest
<1>3. SUFFICES ASSUME NoStray'
               PROVE  CleanTips' /\ CleanRows' /\ \A p \in Run : CleanRun(p)'
  BY DEF AllClean
<1>4. NoStray
  <2>1. ASSUME NEW r \in Run, Strays(r) PROVE Strays(r)'
    <3>1. run[r].edits # 0 => run[r].edits \in Run
      BY ConversationAssumption DEF TypeOK, RunRec, Run
    <3>2. QED BY <1>2, <2>1, <3>1 DEF Rests, Strays
  <2>2. QED BY <1>3, <2>1 DEF NoStray
<1>5. CleanTips /\ CleanRows
  BY <1>4 DEF AllClean
\* What is taken back is seen from no other conversation ...
<1>6. \A n \in Node, t \in Run :
        Clean(n, t) /\ (t # s \/ a \notin Lineage(n, t)) => Clean(n, t)'
  <2>1. SUFFICES ASSUME NEW n \in Node, NEW t \in Run, Clean(n, t),
                        t # s \/ a \notin Lineage(n, t)
                 PROVE  Clean(n, t)'
    OBVIOUS
  <2>2. Lineage(n, t)' = Lineage(n, t)
    BY <1>2, RestHistory
  <2>3. CASE rewound' = rewound
    BY <2>1, <2>2, <2>3 DEF Clean
  <2>4. CASE run[a].held = s /\ rewound' = rewound \cup {a}
    <3>1. a \notin Lineage(n, t)
      BY <1>1, <1>2, <2>1, <2>4, SeenIsHeld
    <3>2. QED BY <2>1, <2>2, <2>4, <3>1 DEF Clean
  <2>5. QED BY <1>1, <2>3, <2>4
\* ... and in its own from nothing that has begun before it.
<1>7. ASSUME NEW p \in Run, HasRow(p), row[p].sess = s, run[a].held = s
      PROVE  a \notin Lineage(row[p].parent, s)
  <2>1. SUFFICES ASSUME a \in Lineage(row[p].parent, s) PROVE FALSE
    OBVIOUS
  <2>2. row[q].at < row[p].at
    BY <1>1, <1>2, <1>7, <2>1 DEF RowsAre
  <2>3. row[p].at <= row[q].at
    BY <1>1, <1>7 DEF Newest
  <2>4. row[p].at \in Nat /\ row[q].at \in Nat
    BY <1>1 DEF TypeOK, Row
  <2>5. QED BY <2>2, <2>3, <2>4
<1>8. ASSUME NEW p \in Run, HasRow(p) PROVE Clean(row[p].parent, row[p].sess)'
  <2>1. Clean(row[p].parent, row[p].sess) /\ row[p].parent \in Node
        /\ row[p].sess \in Run
    BY <1>2, <1>5, <1>8 DEF CleanRows, RowsAre, TypeOK, Row
  <2>2. CASE run[a].held = s
    <3>1. row[p].sess # s \/ a \notin Lineage(row[p].parent, row[p].sess)
      BY <1>7, <1>8, <2>2
    <3>2. QED BY <1>1, <1>6, <2>1, <3>1
  <2>3. CASE run[a].held # s
    <3>1. a \notin Lineage(row[p].parent, row[p].sess) \/ row[p].sess # s
      BY <1>1, <1>2, <2>1, <2>3, SeenIsHeld
    <3>2. QED BY <1>1, <1>6, <2>1, <3>1
  <2>4. QED BY <2>2, <2>3
<1>9. CleanRows'
  <2>1. \A p \in Run : HasRow(p)' => HasRow(p)
    BY <1>1 DEF HasRow
  <2>2. QED BY <1>8, <2>1 DEF CleanRows
<1>10. ASSUME NEW t \in Run, Exists(t)' PROVE Clean(sess[t].tip, t)'
  <2>1. CASE t = s /\ sess'[t].tip = row[q].parent
    <3>1. Clean(row[q].parent, s)
      BY <1>1, <1>2, <1>5 DEF CleanRows
    <3>2. \A n \in Node, u \in Run : n = row[q].parent /\ u = s => Clean(n, u)'
      <4>1. CASE run[a].held = s
        <5>1. a \notin Lineage(row[q].parent, s)
          BY <1>1, <1>2, <1>7, <4>1
        <5>2. QED BY <1>6, <3>1, <5>1
      <4>2. CASE run[a].held # s
        <5>1. a \notin Lineage(row[q].parent, s)
          BY <1>1, <1>2, <4>2, SeenIsHeld
        <5>2. QED BY <1>6, <3>1, <5>1
      <4>3. QED BY <4>1, <4>2
    <3>3. QED BY <1>1, <2>1, <3>2
  <2>2. CASE t # s /\ sess'[t].tip = sess[t].tip
    <3>1. Exists(t) /\ sess[t].tip \in Node
      BY <1>1, <1>10 DEF Exists, TypeOK, SessRec
    <3>2. Clean(sess[t].tip, t)
      BY <1>5, <3>1 DEF CleanTips
    <3>3. QED BY <1>6, <2>2, <3>1, <3>2
  <2>3. QED BY <1>1, <2>1, <2>2
<1>11. CleanTips'
  BY <1>10 DEF CleanTips
<1>12. \A p \in Run : CleanRun(p)'
  BY <1>2 DEF Rests, CleanRun, Quiet, Late
<1>13. QED BY <1>9, <1>11, <1>12

LEMMA RewindKept ==
  ASSUME TypeOK, Orderly, AllKept, NEW c \in Cmds, JobNext(c),
         UndoRewind(c) \/ TakenBackRewind(c)
  PROVE  AllKept'
<1> DEFINE q == job[c].q
           s == row[q].sess
<1>1. /\ row' = row /\ Newest(q) /\ q \in Run /\ s \in Run
      /\ job'[c].q = q
      /\ job'[c].at \in {"undo forget", "taken back forget"}
      /\ row[q].parent \in Node
      /\ \A t \in Run : /\ sess'[t].st = sess[t].st
                        /\ \/ t # s /\ sess'[t].tip = sess[t].tip
                           \/ t = s /\ sess'[t].tip = row[q].parent
  BY RewindIs
<1>2. /\ Rests /\ crashes' = crashes /\ RowsAre
      /\ \A r \in Run : run[r].pc \in Quiet
      /\ \A d \in Cmds \ {c} : job[d].at = "idle"
  BY JobRests DEF Orderly
<1>3. SUFFICES ASSUME crashes' = 0, NoFork'
               PROVE  KeptTips' /\ KeptRows' /\ \A p \in Run : KeptRun(p)'
  BY DEF AllKept
<1>4. NoFork
  BY <1>2, <1>3 DEF Rests, NoFork
<1>5. KeptTips /\ KeptRows
  BY <1>2, <1>3, <1>4 DEF AllKept
<1>6. job[c].at \in {"undo rewind", "taken back rewind"}
  BY DEF UndoRewind, TakenBackRewind, JobStep
<1>7. \A p \in Run : ~Redoing(p) /\ ~Forgetting(p)
  BY <1>2, <1>6 DEF Redoing, Forgetting, Quiet
<1>8. ASSUME NEW p \in Run, HasRow(p)', Exists(row[p].sess)', ~Forgetting(p)'
      PROVE  InSight(p, sess[row[p].sess].tip)'
  <2>1. p # q
    BY <1>1, <1>8 DEF Forgetting
  <2>2. HasRow(p) /\ row'[p] = row[p] /\ row[p].sess \in Run
    BY <1>1, <1>2, <1>8 DEF HasRow, RowsAre
  <2>3. \A n \in Node : InSight(p, n) => InSight(p, n)'
    BY <1>2, <2>2, RestInSight
  <2>4. CASE row[p].sess = s
    <3>1. row[p].at < row[q].at
      <4>1. row[p].at <= row[q].at /\ HasRow(q)
        BY <1>1, <2>2, <2>4 DEF Newest
      <4>2. row[p].at # row[q].at
        BY <1>1, <1>2, <2>1, <2>2, <4>1 DEF RowsAre
      <4>3. row[p].at \in Nat /\ row[q].at \in Nat
        <5>1. \A o \in Run : row[o].at \in 0 .. N
          BY DEF TypeOK, Row
        <5>2. \A o \in Run : row[o].at \in Nat
          BY <5>1, ConversationAssumption
        <5>3. p \in Run /\ q \in Run
          BY <1>1
        <5>4. QED BY <5>2, <5>3
      <4>4. QED BY <4>1, <4>2, <4>3
    <3>2. InSight(p, row[q].parent)
      BY <1>1, <1>5, <2>2, <2>4, <3>1 DEF KeptRows, Newest
    <3>3. sess'[row[p].sess].tip = row[q].parent
      BY <1>1, <2>4
    <3>4. QED BY <1>1, <2>2, <2>3, <3>2, <3>3
  <2>5. CASE row[p].sess # s
    <3>1. sess'[row[p].sess].tip = sess[row[p].sess].tip
          /\ sess[row[p].sess].tip \in Node
      BY <1>1, <2>2, <2>5 DEF TypeOK, SessRec
    <3>2. Exists(row[p].sess)
      BY <1>1, <1>8, <2>2 DEF Exists
    <3>3. InSight(p, sess[row[p].sess].tip)
      BY <1>5, <1>7, <2>2, <3>2 DEF KeptTips
    <3>4. QED BY <2>2, <2>3, <3>1, <3>3
  <2>6. QED BY <2>4, <2>5
<1>9. KeptTips'
  BY <1>8 DEF KeptTips
<1>10. KeptRows'
  <2>1. Fewer
    BY <1>1 DEF Fewer
  <2>2. QED BY <1>2, <1>5, <2>1, RestKeptRows
<1>11. \A p \in Run : KeptRun(p)'
  BY <1>2 DEF Rests, KeptRun, Quiet, Late
<1>12. QED BY <1>9, <1>10, <1>11

\* All that a step of a command may be.
LEMMA JobHistory ==
  ASSUME TypeOK, OneLive, Orderly, NEW c \in Cmds, JobNext(c)
  PROVE  Orderly' /\ (AllClean => AllClean') /\ (AllKept => AllKept')
<1>1. CASE Loosens(c)
  BY <1>1, LooseHistory
<1>2. CASE UndoRewind(c) \/ TakenBackRewind(c)
  BY <1>2, RewindOrderly, RewindClean, RewindKept
<1>3. QED BY <1>1, <1>2, JobLoosens

\* The owner asks: a run begins, and everything else rests.
LEMMA SpawnIs ==
  ASSUME TypeOK, Orderly, Settled, NEW r \in Run, NEW q \in Run,
         NEW e \in 0 .. N, Spawn(r, q, e)
  PROVE  /\ run[r].pc = "idle" /\ Fresh(r) /\ Asks(r)
         /\ \A p \in Run : p < r => run[p].pc # "idle"
         /\ run'[r].pc = "spawned" /\ run'[r].q = q /\ run'[r].edits = e
         /\ run'[r].held = 0 /\ run'[r].from = 0 /\ ~run'[r].recorded
         /\ \A p \in Run \ {r} : run'[p] = run[p]
         /\ UNCHANGED <<sess, row, clock, branch, rewound, job, crashes>>
         /\ Keeps(r) /\ RunIs(r)
         /\ \A p \in Run : run[p].pc \in Quiet
         /\ \A c \in Cmds : job[c].at = "idle"
<1>1. /\ run[r].pc = "idle" /\ \A p \in Run : p < r => run[p].pc # "idle"
      /\ run' = [run EXCEPT ![r] = [IdleRun EXCEPT !.pc = "spawned",
                                                  !.q = q, !.edits = e]]
      /\ UNCHANGED <<sess, row, clock, branch, rewound, job, crashes>>
  BY DEF Spawn, Next1, tables, backend, ledger
<1>2. /\ run'[r].pc = "spawned" /\ run'[r].q = q /\ run'[r].edits = e
      /\ run'[r].held = 0 /\ run'[r].from = 0 /\ ~run'[r].recorded
      /\ \A p \in Run \ {r} : run'[p] = run[p]
  BY <1>1 DEF IdleRun, TypeOK
<1>3. RunIs(r) /\ Fresh(r) /\ Asks(r)
  BY <1>1 DEF Orderly, RunIs, Opening
<1>4. /\ \A p \in Run : run[p].pc \in Quiet
      /\ \A c \in Cmds : job[c].at = "idle"
  BY DEF Settled, Quiet
<1>5. Keeps(r)
  BY <1>1, <1>2, <1>3 DEF Keeps, Same, Early, Fresh, Untold
<1>6. QED BY <1>1, <1>2, <1>3, <1>4, <1>5

\* It asks its own question, or the newest of the live conversation again.
Askable(r, q, e) ==
  \/ q = r /\ (e = 0 \/ (e \in Run /\ run[e].pc # "idle"))
  \/ q \in LastTurn /\ e = q

LEMMA SpawnOrderly ==
  ASSUME TypeOK, Orderly, Settled, NEW r \in Run, NEW q \in Run,
         NEW e \in 0 .. N, Spawn(r, q, e), Askable(r, q, e)
  PROVE  Orderly'
<1>1. /\ run[r].pc = "idle" /\ Fresh(r) /\ Asks(r)
      /\ \A p \in Run : p < r => run[p].pc # "idle"
      /\ run'[r].pc = "spawned" /\ run'[r].q = q /\ run'[r].edits = e
      /\ run'[r].held = 0 /\ run'[r].from = 0 /\ ~run'[r].recorded
      /\ \A p \in Run \ {r} : run'[p] = run[p]
      /\ UNCHANGED <<sess, row, clock, branch, rewound, job, crashes>>
      /\ Keeps(r) /\ RunIs(r)
      /\ \A p \in Run : run[p].pc \in Quiet
      /\ \A c \in Cmds : job[c].at = "idle"
  BY SpawnIs
<1>2. Tree /\ RowsAre /\ InTurn /\ \A p \in Run : RunIs(p)
  BY DEF Orderly
<1>3. OneAtATime'
  BY <1>1 DEF OneAtATime, Busy, Active, Running, Quiet
<1>4. InTurn'
  <2>1. ASSUME NEW o \in Run, NEW p \in Run, p < o, run'[o].pc # "idle"
        PROVE  run'[p].pc # "idle"
    BY <1>1, <1>2, <2>1 DEF InTurn
  <2>2. ASSUME NEW o \in Run, run'[o].pc \in Early \cup Late
        PROVE  clock' < o
    BY <1>1, <1>2, <2>2 DEF InTurn, Early, Late
  <2>3. QED BY <2>1, <2>2 DEF InTurn
<1>5. Tree' /\ RowsAre'
  BY <1>1, <1>2, TreeStays, RowsStay
<1>6. \A c \in Cmds : JobIs(c)'
  BY <1>1 DEF JobIs
<1>7. ASSUME NEW p \in Run \ {r}, run[p].pc = "idle" PROVE Fresh(p)'
  <2>1. Fresh(p) /\ p # 0
    BY <1>2, <1>7, ConversationAssumption DEF RunIs, Opening, Run
  <2>2. p \notin branch[r]
    BY <2>1, RunNumbers DEF Fresh, Unseen
  <2>3. /\ \A o \in Run : /\ row'[o].parent # p /\ row'[o].answer # p
                          /\ row'[o].sess # p
        /\ \A s \in Run : sess'[s].tip # p
        /\ sess'[p].st = "none"
    BY <1>1, <2>1 DEF Fresh, Unseen, Untold, Unopened
  <2>4. QED BY <1>1, <2>1, <2>2, <2>3, FreshStays
<1>8. \A p \in Run \ {r} : RunIs(p)'
  BY <1>1, <1>2, <1>7, OthersAre
<1>9. Fresh(r)'
  <2>1. r # 0
    BY ConversationAssumption DEF Run
  <2>2. Unseen(r)'
    BY <1>1, <2>1, RunNumbers DEF Fresh, Unseen
  <2>3. Untold(r)'
    BY <1>1 DEF Fresh, Untold
  <2>4. Unopened(r)'
    BY <1>1, <2>1 DEF Fresh, Unopened
  <2>5. QED BY <2>2, <2>3, <2>4 DEF Fresh
<1>10. Asks(r)'
  <2>1. CASE q = r /\ (e = 0 \/ (e \in Run /\ run[e].pc # "idle"))
    <3>1. e # r
      BY <1>1, <2>1, ConversationAssumption DEF Run
    <3>2. QED BY <1>1, <2>1, <3>1 DEF Asks
  <2>2. CASE q \in LastTurn /\ e = q
    <3>1. /\ q \in Run /\ HasRow(q) /\ row[q].sess \in Live
          /\ \A p \in Run : HasRow(p) /\ row[p].sess \in Live
                              => row[p].at <= row[q].at
      BY <2>2 DEF LastTurn
    <3>2. q # r
      BY <1>1, <1>2, <3>1 DEF RowsAre, Fresh, Untold
    <3>3. Newest(q)
      BY <3>1 DEF Newest
    <3>4. Newest(q)'
      BY <1>1, <3>3 DEF Newest, HasRow
    <3>5. QED BY <1>1, <2>2, <3>2, <3>4 DEF Asks
  <2>3. QED BY <2>1, <2>2 DEF Askable
<1>11. RunIs(r)'
  BY <1>1, <1>9, <1>10 DEF RunIs, Fresh, Late
<1>12. QED BY <1>3, <1>4, <1>5, <1>6, <1>8, <1>11 DEF Orderly

LEMMA SpawnClean ==
  ASSUME TypeOK, Orderly, AllClean, Settled, NEW r \in Run, NEW q \in Run,
         NEW e \in 0 .. N, Spawn(r, q, e)
  PROVE  AllClean'
<1>1. /\ run'[r].pc = "spawned"
      /\ \A p \in Run \ {r} : run'[p] = run[p]
      /\ UNCHANGED <<sess, row, clock, branch, rewound, job, crashes>>
      /\ Keeps(r) /\ RunIs(r)
      /\ \A p \in Run : run[p].pc \in Quiet
  BY SpawnIs
<1>2. RowsAre
  BY DEF Orderly
<1>3. SUFFICES ASSUME NoStray'
               PROVE  CleanTips' /\ CleanRows' /\ \A p \in Run : CleanRun(p)'
  BY DEF AllClean
<1>4. CleanTips /\ CleanRows
  BY <1>1, <1>3, StraysOn DEF AllClean
<1>5. CleanTips' /\ CleanRows'
  BY <1>1, <1>2, <1>4, CleanTipsStay, CleanRowsStay DEF Exists
<1>6. \A p \in Run : CleanRun(p)'
  BY <1>1 DEF CleanRun, Quiet, Late
<1>7. QED BY <1>5, <1>6

LEMMA SpawnKept ==
  ASSUME TypeOK, Orderly, AllKept, Settled, NEW r \in Run, NEW q \in Run,
         NEW e \in 0 .. N, Spawn(r, q, e), Askable(r, q, e)
  PROVE  AllKept'
<1>1. /\ run[r].pc = "idle" /\ Asks(r)
      /\ run'[r].pc = "spawned" /\ run'[r].q = q
      /\ \A p \in Run \ {r} : run'[p] = run[p]
      /\ UNCHANGED <<sess, row, clock, branch, rewound, job, crashes>>
      /\ Keeps(r) /\ RunIs(r)
      /\ \A p \in Run : run[p].pc \in Quiet
  BY SpawnIs
<1>2. RowsAre
  BY DEF Orderly
<1>3. SUFFICES ASSUME crashes' = 0, NoFork'
               PROVE  KeptTips' /\ KeptRows' /\ \A p \in Run : KeptRun(p)'
  BY DEF AllKept
<1>4. NoFork
  BY <1>1, <1>3 DEF NoFork, Asks
<1>5. KeptTips /\ KeptRows
  BY <1>1, <1>3, <1>4 DEF AllKept
<1>6. \A o \in Run : ~Redoing(o)
  BY <1>1 DEF Redoing, Quiet
<1>7. KeptTips' /\ KeptRows'
  BY <1>1, <1>2, <1>5, <1>6, KeptTipsStay, KeptRowsStay DEF Exists
<1>8. Live' = Live
  BY <1>1 DEF Live
<1>9. q # r => row[q].sess \in Live
  BY DEF Askable, LastTurn
<1>10. \A p \in Run : KeptRun(p)'
  BY <1>1, <1>8, <1>9 DEF KeptRun, Quiet, Late
<1>11. QED BY <1>7, <1>10

\* A command that starts, or an owner who only cancels: everything rests.
LEMMA StartHistory ==
  ASSUME TypeOK, Orderly, Settled,
         \A p \in Run : Same(p),
         UNCHANGED <<sess, row, clock, branch, rewound, crashes>>,
         \/ job' = job
         \/ \E c \in Cmds : JobIs(c)' /\ \A d \in Cmds \ {c} : job'[d] = job[d]
  PROVE  Orderly' /\ (AllClean => AllClean') /\ (AllKept => AllKept')
<1>1. /\ \A p \in Run : run[p].pc \in Quiet
      /\ \A c \in Cmds : job[c].at = "idle"
  BY DEF Settled, Quiet
<1>2. Rests
  BY <1>1 DEF Rests, Same
<1>3. Fewer /\ \A q \in Run : ~Forgetting(q)
  BY <1>1 DEF Fewer, Forgetting
<1>4. \A c \in Cmds : JobIs(c) /\ (job'[c] = job[c] => JobIs(c)')
  BY <1>1 DEF Orderly, JobIs
<1>5. /\ \A c, d \in Cmds : job'[c].at # "idle" /\ c # d => job'[d].at = "idle"
      /\ \A c \in Cmds : JobIs(c)'
  BY <1>1, <1>4
<1>6. \A p \in Run : Fresh(p) => /\ \A s \in Run : sess'[s].tip # p
                                 /\ sess'[p].st = "none" /\ p \notin rewound'
  BY DEF Fresh, Unseen, Untold, Unopened
<1>7. \A s \in Run : Exists(s)' => Exists(s) /\ sess'[s].tip = sess[s].tip
  BY DEF Exists
<1>8. Orderly'
  BY <1>2, <1>3, <1>5, <1>6, RestOrderly
<1>9. AllClean => AllClean'
  BY <1>2, <1>3, <1>7, RestClean
<1>10. AllKept => AllKept'
  BY <1>1, <1>2, <1>3, <1>7, RestKept
<1>11. QED BY <1>8, <1>9, <1>10

LEMMA OwnerHistory ==
  ASSUME Patient, TypeOK, OneLive, Orderly, OwnerNext
  PROVE  Orderly' /\ (AllClean => AllClean') /\ (AllKept => AllKept')
<1>1. /\ Settled
      /\ \/ \E r \in Run, q \in Run, e \in 0 .. N :
              Spawn(r, q, e) /\ Askable(r, q, e)
         \/ \E c \in Cmds : Starts(c)
         \/ /\ \A p \in Run : Same(p)
            /\ UNCHANGED <<job, sess, row, clock, branch, rewound, crashes>>
  BY OwnerMoves DEF Askable
<1>2. ASSUME NEW r \in Run, NEW q \in Run, NEW e \in 0 .. N,
             Spawn(r, q, e), Askable(r, q, e)
      PROVE  Orderly' /\ (AllClean => AllClean') /\ (AllKept => AllKept')
  BY <1>1, <1>2, SpawnOrderly, SpawnClean, SpawnKept
<1>3. ASSUME NEW c \in Cmds, Starts(c)
      PROVE  Orderly' /\ (AllClean => AllClean') /\ (AllKept => AllKept')
  BY <1>1, <1>3, StartHistory DEF Starts
<1>4. CASE /\ \A p \in Run : Same(p)
           /\ UNCHANGED <<job, sess, row, clock, branch, rewound, crashes>>
  BY <1>1, <1>4, StartHistory
<1>5. QED BY <1>1, <1>2, <1>3, <1>4

\* The process is killed: what is recorded is in order, and nothing was rewound
\* by halves.  What is kept in sight is another matter.
LEMMA CrashHistory ==
  ASSUME TypeOK, Orderly, Crash
  PROVE  Orderly' /\ (AllClean => AllClean') /\ AllKept'
<1>1. /\ run' = [r \in Run |-> IF run[r].pc = "spawned" \/ Active(r)
                               THEN [run[r] EXCEPT !.pc = "dead"] ELSE run[r]]
      /\ job' = [c \in Cmds |-> IdleJob]
      /\ UNCHANGED <<sess, row, clock, branch, rewound>>
      /\ crashes' = crashes + 1
  BY DEF Crash, tables, backend
<1>2. Rests
  <2>1. ASSUME NEW p \in Run
        PROVE  /\ run'[p].pc \in Quiet
               /\ run'[p].pc = "idle" <=> run[p].pc = "idle"
               /\ run'[p].q = run[p].q /\ run'[p].edits = run[p].edits
               /\ run'[p].held = run[p].held /\ run'[p].from = run[p].from
               /\ run'[p].recorded = run[p].recorded
    <3>1. run[p] \in RunRec
      BY DEF TypeOK
    <3>2. CASE run[p].pc = "spawned" \/ Active(p)
      <4>1. run'[p] = [run[p] EXCEPT !.pc = "dead"]
        BY <1>1, <3>2
      <4>2. QED BY <3>1, <3>2, <4>1 DEF RunRec, Quiet, Active, Running
    <3>3. CASE ~(run[p].pc = "spawned" \/ Active(p))
      <4>1. run'[p] = run[p]
        BY <1>1, <3>3
      <4>2. QED BY <3>1, <3>3, <4>1 DEF RunRec, Pc, Quiet, Active, Running
    <3>4. QED BY <3>2, <3>3
  <2>2. QED BY <1>1, <2>1 DEF Rests
<1>3. Fewer
  BY <1>1 DEF Fewer
<1>4. \A c \in Cmds : job'[c].at = "idle" /\ JobIs(c)'
  BY <1>1 DEF JobIs, IdleJob
<1>5. \A p \in Run : Fresh(p) => /\ \A s \in Run : sess'[s].tip # p
                                 /\ sess'[p].st = "none" /\ p \notin rewound'
  BY <1>1 DEF Fresh, Unseen, Untold, Unopened
<1>6. Orderly'
  BY <1>2, <1>3, <1>4, <1>5, RestOrderly
<1>7. AllClean => AllClean'
  BY <1>1, <1>2, <1>3, RestClean DEF Exists
<1>8. AllKept'
  <2>1. crashes \in 0 .. MaxCrashes /\ MaxCrashes \in Nat
    BY ConversationAssumption DEF TypeOK
  <2>2. crashes' # 0
    BY <1>1, <2>1
  <2>3. QED BY <2>2 DEF AllKept
<1>9. QED BY <1>6, <1>7, <1>8

\* The three together, and that every step keeps them.
InHistoryOrder == Orderly /\ AllClean /\ AllKept

LEMMA HistoryInit == Init => InHistoryOrder
<1> SUFFICES ASSUME Init PROVE InHistoryOrder
  OBVIOUS
<1>1. /\ \A r \in Run : /\ run[r].pc = "idle" /\ run[r].q = 0
                        /\ run[r].edits = 0 /\ run[r].held = 0
                        /\ run[r].from = 0 /\ ~run[r].recorded
      /\ \A s \in Run : sess[s].st = "none" /\ sess[s].tip = 0
      /\ \A q \in Run : row[q].parent = 0 /\ row[q].answer = 0 /\ row[q].sess = 0
  BY DEF Init, IdleRun, NoSession, NoRow
<1>2. /\ \A n \in Node : branch[n] = IF n > N THEN {n} ELSE {}
      /\ clock = 0 /\ rewound = {}
      /\ \A c \in Cmds : job[c].at = "idle"
  BY DEF Init, IdleJob
<1>3. \A r \in Run : r > 0 /\ ~(r > N) /\ r \in Node
  BY ConversationAssumption DEF Run, Node
<1>4. \A q \in Run : ~HasRow(q) /\ ~Exists(q)
  BY <1>1 DEF HasRow, Exists
<1>5. OneAtATime /\ InTurn
  BY <1>1, <1>2, <1>3 DEF OneAtATime, InTurn, Busy, Active, Running
<1>6. ASSUME NEW r \in Run PROVE RunIs(r)
  <2>1. \A n \in Node : r \notin branch[n]
    BY <1>2, <1>3
  <2>2. Unseen(r)
    BY <1>1, <1>2, <1>3, <2>1 DEF Unseen
  <2>3. branch[r] = {}
    BY <1>2, <1>3
  <2>4. Untold(r)
    BY <1>1, <1>3, <2>3 DEF Untold
  <2>5. Unopened(r)
    BY <1>1, <1>3 DEF Unopened
  <2>6. Asks(r)
    BY <1>1, <1>3 DEF Asks
  <2>7. QED BY <1>1, <2>2, <2>4, <2>5, <2>6 DEF RunIs, Fresh, Late
<1>7. Tree
  <2>1. \A n \in Run : branch[n] = {}
    BY <1>2, <1>3
  <2>2. ~(0 > N)
    BY ConversationAssumption
  <2>3. branch[0] = {}
    BY <1>2, <2>2, RootNode
  <2>4. QED BY <1>2, <2>1, <2>3 DEF Tree
<1>8. RowsAre
  BY <1>4 DEF RowsAre
<1>9. \A c \in Cmds : JobIs(c)
  BY <1>2 DEF JobIs
<1>10. AllClean
  BY <1>1, <1>4 DEF AllClean, CleanTips, CleanRows, CleanRun, Late
<1>11. AllKept
  BY <1>1, <1>4 DEF AllKept, KeptTips, KeptRows, KeptRun, Late
<1>12. QED BY <1>5, <1>6, <1>7, <1>8, <1>9, <1>10, <1>11 DEF InHistoryOrder, Orderly

LEMMA HistoryStep ==
  ASSUME Patient
  PROVE  TypeOK /\ OneLive /\ InHistoryOrder /\ [Next]_vars => InHistoryOrder'
<1> SUFFICES ASSUME TypeOK, OneLive, InHistoryOrder, [Next]_vars
             PROVE  InHistoryOrder'
  OBVIOUS
<1>1. Orderly /\ AllClean /\ AllKept
  BY DEF InHistoryOrder
<1>2. CASE OwnerNext
  BY <1>1, <1>2, OwnerHistory DEF InHistoryOrder
<1>3. ASSUME NEW r \in Run, TurnStep(r) PROVE InHistoryOrder'
  BY <1>1, <1>3, TurnHistory DEF InHistoryOrder
<1>4. ASSUME NEW c \in Cmds, JobNext(c) PROVE InHistoryOrder'
  BY <1>1, <1>4, JobHistory DEF InHistoryOrder
<1>5. CASE Crash
  BY <1>1, <1>5, CrashHistory DEF InHistoryOrder
<1>6. CASE UNCHANGED vars
  <2>1. UNCHANGED <<run, sess, row, clock, branch, job, rewound, crashes>>
    BY <1>6 DEF vars
  <2>2. Orderly'
    <3>1. OneAtATime' /\ InTurn'
      BY <1>1, <2>1 DEF Orderly, OneAtATime, InTurn, Busy, Active
    <3>2. \A r \in Run : RunIs(r)'
      <4>1. SUFFICES ASSUME NEW r \in Run PROVE RunIs(r)'
        OBVIOUS
      <4>2. RunIs(r)
        BY <1>1 DEF Orderly
      <4>3. /\ Unseen(r)' = Unseen(r) /\ Untold(r)' = Untold(r)
            /\ Unopened(r)' = Unopened(r)
        BY <2>1 DEF Unseen, Untold, Unopened
      <4>4. Fresh(r)' = Fresh(r)
        BY <4>3 DEF Fresh
      <4>5. Newest(run[r].q)' = Newest(run[r].q)
        BY <2>1 DEF Newest, HasRow
      <4>6. Asks(r)' = Asks(r)
        BY <2>1, <4>5 DEF Asks
      <4>7. Lineage(run[r].from, run[r].held)' = Lineage(run[r].from, run[r].held)
        BY <2>1 DEF Lineage, InConversation
      <4>8. Exists(run[r].held)' = Exists(run[r].held)
        BY <2>1 DEF Exists
      <4>9. Hangs(r)' = Hangs(r)
        BY <2>1, <4>7 DEF Hangs
      <4>10. QED BY <2>1, <4>2, <4>3, <4>4, <4>6, <4>8, <4>9 DEF RunIs
    <3>3. Tree'
      BY <1>1, <2>1 DEF Orderly, Tree, InConversation
    <3>4. RowsAre'
      BY <1>1, <2>1 DEF Orderly, RowsAre, HasRow, Lineage, InConversation
    <3>5. \A c \in Cmds : JobIs(c)'
      BY <1>1, <2>1 DEF Orderly, JobIs, LastTurn, Live, HasRow
    <3>6. QED BY <3>1, <3>2, <3>3, <3>4, <3>5 DEF Orderly
  <2>3. AllClean'
    BY <1>1, <2>1 DEF AllClean, NoStray, Strays, CleanTips, CleanRows, CleanRun,
       AtHome, Clean, HasRow, Exists, InConversation, Lineage
  <2>4. AllKept'
    <3>1. /\ NoFork' = NoFork /\ Live' = Live
          /\ \A q \in Run : /\ HasRow(q)' = HasRow(q)
                            /\ Forgetting(q)' = Forgetting(q)
                            /\ Redoing(q)' = Redoing(q)
                            /\ \A n : InSight(q, n)' = InSight(q, n)
      BY <2>1 DEF NoFork, Live, HasRow, Forgetting, Redoing, InSight,
         InConversation, Lineage, Whole, Orphaned
    <3>2. KeptTips' = KeptTips
      BY <2>1, <3>1 DEF KeptTips, Exists
    <3>3. KeptRows' = KeptRows
      BY <2>1, <3>1 DEF KeptRows
    <3>4. \A r \in Run : KeptRun(r)' = KeptRun(r)
      BY <2>1, <3>1 DEF KeptRun
    <3>5. QED BY <1>1, <2>1, <3>1, <3>2, <3>3, <3>4 DEF AllKept
  <2>5. QED BY <2>2, <2>3, <2>4 DEF InHistoryOrder
<1>7. QED BY <1>2, <1>3, <1>4, <1>5, <1>6 DEF Next

\* A command that takes q back has had the backend delete its exchange, or may
\* have, and has still to forget it.
Deleting == {"undo rewind", "undo forget", "taken back last",
             "taken back rewind", "taken back forget"}
Leaving(q) == \E c \in Cmds : job[c].q = q /\ job[c].at \in Deleting

\* Only what was recorded is deleted from the backend, and what is on record is
\* not, but for a turn that is being taken back.
RemovedIs ==
  /\ \A a \in removed : a \in Run /\ run[a].recorded
  /\ crashes = 0 =>
       \A q \in Run : HasRow(q) /\ row[q].answer \in removed => Leaving(q)

LEMMA RemovedInit == Init => RemovedIs
BY DEF Init, RemovedIs, NoRow, HasRow

\* A step of a run deletes nothing from the backend, and only records a turn.
LEMMA TurnRemoves ==
  ASSUME NEW r \in Run, TurnStep(r)
  PROVE  removed' = removed /\ (row' = row \/ Record(r))
BY Zenon DEF TurnStep, Register, GiveUp, Continue, MustRotate, NoLiveSession,
   Rotate, NewConversation, CreateSession, BeginSend, SendReturns, SendFails,
   PostAnswer, PostFails, Advance, Record, Finish, tables, backend

\* Nor does the owner.
LEMMA OwnerRemoves ==
  ASSUME OwnerNext
  PROVE  UNCHANGED <<removed, row, crashes>>
BY Zenon DEF OwnerNext, OnMessage, CommandRetry, OnEdit, Spawn, CommandStop,
   OnRedactionCancel, CommandNew, CommandUndo, CommandCompact, CommandPurge,
   OnRedactionUndo, CommandResume, tables, backend, ledger

\* What the steps of a command do to the turn it takes back.
LEMMA JobRemoves ==
  ASSUME TypeOK, NEW c \in Cmds, JobNext(c)
  PROVE  /\ \/ removed' = removed
            \/ /\ removed' = removed \cup {job[c].row.answer} /\ row' = row
               /\ job[c].at \in {"undo backend", "taken back"}
               /\ job'[c].q = job[c].q /\ job'[c].at \in Deleting
         /\ job[c].at \in Deleting
            => \/ job'[c].q = job[c].q /\ job'[c].at \in Deleting
               \/ \A q \in Run : HasRow(q)' => q # job[c].q
<1>1. job[c] \in JobRec
  BY DEF TypeOK
<1>2. ASSUME NEW from, NEW to \in Deleting,
             job[c].at = from, job'[c] = [job[c] EXCEPT !.at = to]
      PROVE  job'[c].q = job[c].q /\ job'[c].at \in Deleting
  BY <1>1, <1>2 DEF JobRec
<1>3. CASE UndoBackend(c)
  <2>1. /\ job[c].at = "undo backend" /\ row' = row
        /\ job'[c] = [job[c] EXCEPT !.at = "undo rewind"]
        /\ \/ removed' = removed
           \/ removed' = removed \cup {job[c].row.answer}
    BY <1>3 DEF UndoBackend, BackendUndo, JobStep, TypeOK, tables
  <2>2. job'[c].q = job[c].q /\ job'[c].at \in Deleting
    BY <1>2, <2>1 DEF Deleting
  <2>3. job[c].at \notin Deleting
    BY <2>1 DEF Deleting
  <2>4. QED BY <2>1, <2>2, <2>3
<1>4. CASE TakenBackBackend(c)
  <2>1. job[c].at = "taken back" /\ row' = row
    BY <1>4 DEF TakenBackBackend, JobStep, tables
  <2>2. job[c].at \notin Deleting
    BY <2>1 DEF Deleting
  <2>3. CASE removed' = removed
    BY <2>2, <2>3
  <2>4. CASE removed' # removed
    <3>1. /\ removed' = removed \cup {job[c].row.answer}
          /\ job'[c] = [job[c] EXCEPT !.at = "taken back last"]
      BY <1>4, <2>4 DEF TakenBackBackend, BackendUndo, JobStep, TypeOK
    <3>2. job'[c].q = job[c].q /\ job'[c].at \in Deleting
      BY <1>2, <2>1, <3>1 DEF Deleting
    <3>3. QED BY <2>1, <2>2, <3>1, <3>2
  <2>5. QED BY <2>3, <2>4
<1>5. CASE UndoRewind(c)
  <2>1. /\ job[c].at = "undo rewind" /\ removed' = removed
        /\ job'[c] = [job[c] EXCEPT !.at = "undo forget"]
    BY <1>5 DEF UndoRewind, JobStep, TypeOK, backend
  <2>2. QED BY <1>2, <2>1 DEF Deleting
<1>6. CASE UndoForget(c)
  <2>1. row' = [row EXCEPT ![job[c].q] = NoRow] /\ UNCHANGED <<sess, rewound, removed>>
    BY <1>6 DEF UndoForget, backend, ledger
  <2>2. QED BY <2>1, ForgetLoses
<1>7. CASE TakenBackReadLast(c)
  <2>1. /\ job[c].at = "taken back last" /\ removed' = removed
        /\ \/ job'[c] = [job[c] EXCEPT !.at = "taken back rewind"]
           \/ job'[c] = [job[c] EXCEPT !.at = "taken back forget"]
    BY <1>7 DEF TakenBackReadLast, JobStep, TypeOK, backend
  <2>2. QED BY <1>2, <2>1 DEF Deleting
<1>8. CASE TakenBackRewind(c)
  <2>1. /\ job[c].at = "taken back rewind" /\ removed' = removed
        /\ job'[c] = [job[c] EXCEPT !.at = "taken back forget"]
    BY <1>8 DEF TakenBackRewind, JobStep, TypeOK, backend
  <2>2. QED BY <1>2, <2>1 DEF Deleting
<1>9. CASE TakenBackForget(c)
  <2>1. row' = [row EXCEPT ![job[c].q] = NoRow] /\ UNCHANGED <<sess, rewound, removed>>
    BY <1>9 DEF TakenBackForget, backend, ledger
  <2>2. QED BY <2>1, ForgetLoses
<1>10. ASSUME NewClose(c) \/ UndoReadLast(c) \/ UndoRedact(c) \/ CompactClose(c)
              \/ CompactMark(c) \/ ResumeReadLive(c) \/ ResumeClose(c)
              \/ ResumeReopen(c) \/ PurgeRoom(c) \/ PurgeForget(c)
       PROVE  removed' = removed /\ job[c].at \notin Deleting
  BY <1>10 DEF NewClose, UndoReadLast, UndoRedact, CompactClose, CompactMark,
     ResumeReadLive, ResumeClose, ResumeReopen, PurgeRoom, PurgeForget, JobStep,
     Deleting, backend
<1>11. QED
  BY <1>3, <1>4, <1>5, <1>6, <1>7, <1>8, <1>9, <1>10 DEF JobNext

LEMMA RemovedStep ==
  ASSUME Patient
  PROVE  TypeOK /\ OneLive /\ OnRecord /\ InHistoryOrder /\ RemovedIs /\ [Next]_vars
           => RemovedIs'
<1> SUFFICES ASSUME TypeOK, OneLive, OnRecord, InHistoryOrder, RemovedIs, [Next]_vars
             PROVE  RemovedIs'
  OBVIOUS
<1>1. Orderly
  BY DEF InHistoryOrder
<1>2. CASE OwnerNext
  <2>1. Settled /\ UNCHANGED <<removed, row, crashes>>
    BY <1>2, OwnerMoves, OwnerRemoves
  <2>2. \A q \in Run : ~Leaving(q)
    BY <2>1 DEF Settled, Leaving, Deleting
  <2>3. ASSUME NEW p \in Run, run[p].recorded PROVE run'[p].recorded
    <3>1. CASE \E r \in Run, q \in Run, e \in 0 .. N : Spawn(r, q, e)
      BY <1>1, <2>1, <2>3, <3>1, SpawnIs DEF Keeps, Same
    <3>2. CASE \A o \in Run : Same(o)
      BY <2>3, <3>2 DEF Same
    <3>3. QED BY <1>2, <3>1, <3>2, OwnerMoves DEF Starts
  <2>4. QED BY <2>1, <2>2, <2>3 DEF RemovedIs, HasRow
<1>3. ASSUME NEW r \in Run, TurnStep(r) PROVE RemovedIs'
  <2>1. removed' = removed /\ (row' = row \/ Record(r))
    BY <1>3, TurnRemoves
  <2>2. UNCHANGED <<job, crashes>> /\ \A p \in Run : run[p].recorded => run'[p].recorded
    BY <1>3, TurnMoves DEF Moves, Keeps, Same
  <2>3. \A q : Leaving(q)' = Leaving(q)
    BY <2>2 DEF Leaving
  <2>4. CASE row' = row
    BY <2>1, <2>2, <2>3, <2>4 DEF RemovedIs, HasRow
  <2>5. CASE Record(r)
    <3>1. /\ \A p \in Run \ {run[r].q} : row'[p] = row[p]
          /\ row'[run[r].q].answer = r /\ run[r].pc = "record"
      BY <1>1, <2>5, RecordStep
    <3>2. r \notin removed
      BY <3>1 DEF RemovedIs, OnRecord, RunsOnRecord, Over
    <3>3. QED BY <2>1, <2>2, <2>3, <3>1, <3>2 DEF RemovedIs, HasRow
  <2>6. QED BY <2>1, <2>4, <2>5
<1>4. ASSUME NEW c \in Cmds, JobNext(c) PROVE RemovedIs'
  <2>1. /\ \A d \in Cmds \ {c} : job'[d] = job[d]
        /\ UNCHANGED <<run, crashes>>
    BY <1>4, JobMoves
  <2>2. \A q \in Run : HasRow(q)' => HasRow(q) /\ row'[q] = row[q]
    <3>1. Fewer
      <4>1. UndoRewind(c) \/ TakenBackRewind(c) => row' = row
        BY DEF UndoRewind, TakenBackRewind
      <4>2. Loosens(c) => Fewer
        BY DEF Loosens, Loses
      <4>3. QED BY <1>1, <1>4, <4>1, <4>2, JobLoosens DEF Fewer
    <3>2. QED BY <3>1 DEF Fewer, HasRow, NoRow
  <2>3. \A q \in Run : Leaving(q) /\ HasRow(q)' => Leaving(q)'
    <3> SUFFICES ASSUME NEW q \in Run, Leaving(q), HasRow(q)' PROVE Leaving(q)'
      OBVIOUS
    <3>1. PICK d \in Cmds : job[d].q = q /\ job[d].at \in Deleting
      BY DEF Leaving
    <3>2. CASE d # c
      BY <2>1, <3>1, <3>2 DEF Leaving
    <3>3. CASE d = c
      <4>1. job'[c].q = q /\ job'[c].at \in Deleting
        BY <1>4, <3>1, <3>3, JobRemoves
      <4>2. QED BY <4>1 DEF Leaving
    <3>4. QED BY <3>2, <3>3
  <2>4. CASE removed' = removed
    BY <2>1, <2>2, <2>3, <2>4 DEF RemovedIs
  <2>5. CASE removed' # removed
    <3> DEFINE a == job[c].row.answer
               o == job[c].q
    <3>1. /\ removed' = removed \cup {a} /\ row' = row
          /\ job[c].at \in {"undo backend", "taken back"}
          /\ job'[c].q = o /\ job'[c].at \in Deleting
      BY <1>4, <2>5, JobRemoves
    <3>2. AnsweredBy(a, o)
      BY <3>1 DEF OnRecord, JobsOnRecord, JobOnRecord, CarriesIts, Undoing, TakingBack
    <3>3. \A q \in Run : HasRow(q) /\ row[q].answer = a => q = o
      BY <3>2 DEF OnRecord, RunsOnRecord, AnsweredBy
    <3>4. Leaving(o)'
      <4>1. \E d \in Cmds : job'[d].q = o /\ job'[d].at \in Deleting
        BY <3>1
      <4>2. QED BY <3>1, <4>1 DEF Leaving
    <3>5. QED
      BY <2>1, <2>2, <2>3, <3>1, <3>2, <3>3, <3>4 DEF RemovedIs, AnsweredBy
  <2>6. QED BY <2>4, <2>5
<1>5. CASE Crash
  <2>1. /\ crashes' = crashes + 1 /\ UNCHANGED <<removed, row>>
        /\ run' = [r \in Run |-> IF run[r].pc = "spawned" \/ Active(r)
                                 THEN [run[r] EXCEPT !.pc = "dead"] ELSE run[r]]
    BY <1>5 DEF Crash, tables, backend
  <2>2. crashes \in 0 .. MaxCrashes /\ MaxCrashes \in Nat
    BY ConversationAssumption DEF TypeOK
  <2>3. crashes' # 0
    BY <2>1, <2>2
  <2>4. ASSUME NEW p \in Run PROVE run'[p].recorded = run[p].recorded
    <3>1. run[p] \in RunRec
      BY DEF TypeOK
    <3>2. run'[p] = [run[p] EXCEPT !.pc = "dead"] \/ run'[p] = run[p]
      BY <2>1
    <3>3. QED BY <3>1, <3>2 DEF RunRec
  <2>5. QED BY <2>1, <2>3, <2>4 DEF RemovedIs
<1>6. CASE UNCHANGED vars
  BY <1>6 DEF vars, RemovedIs, HasRow, Leaving
<1>7. QED BY <1>2, <1>3, <1>4, <1>5, <1>6 DEF Next

LEMMA CleanIsOut == AllClean => RewoundStaysOut
<1>1. \A n, s : History(n, s) \subseteq Lineage(n, s)
  BY DEF History, Stored, Lineage
<1> SUFFICES ASSUME AllClean, Settled, NoStray, NEW s \in Run, Exists(s)
             PROVE  History(sess[s].tip, s) \cap rewound = {}
  BY DEF RewoundStaysOut, NoStray
<1>2. Lineage(sess[s].tip, s) \cap rewound = {}
  BY DEF AllClean, CleanTips, Clean
<1>3. QED BY <1>1, <1>2

LEMMA KeptIsKept == AllKept /\ RemovedIs => HistoryKept
<1> SUFFICES ASSUME AllKept, RemovedIs, Settled, crashes = 0, NoFork,
                    NEW q \in Run, HasRow(q), Exists(row[q].sess),
                    run[row[q].answer].held = row[q].sess,
                    ~Severed(row[q].sess)
             PROVE  row[q].answer \in History(sess[row[q].sess].tip, row[q].sess)
  BY DEF HistoryKept, NoFork
<1>1. KeptTips
  BY DEF AllKept
<1>2. ~Forgetting(q) /\ ~Redoing(q) /\ ~Leaving(q)
  BY DEF Settled, Forgetting, Redoing, Leaving, Deleting
<1>3. InSight(q, sess[row[q].sess].tip)
  BY <1>1, <1>2 DEF KeptTips
<1>4. sess[row[q].sess].tip \notin removed /\ Whole(row[q].sess)
  BY DEF Severed, Whole
<1>5. row[q].answer \in Lineage(sess[row[q].sess].tip, row[q].sess)
  BY <1>3, <1>4 DEF InSight
<1>6. row[q].answer \notin removed
  BY <1>2 DEF RemovedIs
<1>7. QED BY <1>4, <1>5, <1>6 DEF History, Stored, Lineage

\* Of an owner who waits for each step: an exchange that /undo or a deletion
\* rewound stays out of the history every conversation continues from, whatever
\* is asked, retried, edited, resumed, rotated or killed later, unless a rerun
\* is answered in another conversation than the one its question is on record
\* in (conversation.go:219).
THEOREM RewoundAlwaysStaysOut ==
  ASSUME Patient
  PROVE  Spec => []RewoundStaysOut
<1>1. Init => OneLive
  BY DEF Init, OneLive, Live, NoSession
<1>2. InHistoryOrder => RewoundStaysOut
  BY CleanIsOut DEF InHistoryOrder
<1>3. QED BY <1>1, <1>2, TypeInit, TypeStep, OneLiveStep, HistoryInit, HistoryStep, PTL
      DEF Spec

\* Of the same owner, as long as nothing is edited and the process lives: every
\* exchange on record is part of the history its conversation continues from,
\* so /undo, deletions, /resume and rotations never leave an answer in the room
\* that the model no longer knows of.  Except in a conversation that goes on
\* from an exchange the backend has deleted: the deletion of an older question
\* and then an /undo of the turn after it bring one there, and so does the
\* deletion of the newest of a closed conversation (conversation.go:774-793).
THEOREM HistoryAlwaysKept ==
  ASSUME Patient
  PROVE  Spec => []HistoryKept
<1>1. Init => OneLive
  BY DEF Init, OneLive, Live, NoSession
<1>2. NoPurgeUnderARun
  BY DEF NoPurgeUnderARun
<1>3. InHistoryOrder /\ RemovedIs => HistoryKept
  BY KeptIsKept DEF InHistoryOrder
<1>4. QED BY <1>1, <1>2, <1>3, TypeInit, TypeStep, OneLiveStep, HistoryInit,
          HistoryStep, OnRecordInit, OnRecordStep, RemovedInit, RemovedStep, PTL
      DEF Spec

=============================================================================
