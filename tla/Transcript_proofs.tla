-------------------------- MODULE Transcript_proofs --------------------------
(***************************************************************************)
(* What holds of Transcript for any number of turns, calls, rounds,        *)
(* questions, commands and failures: the types, that no call that wants a  *)
(* yes runs without one, that no turn is recorded twice, that a tool that  *)
(* ran is named on record, and that /undo takes nothing of a turn before   *)
(* the one it takes.                                                       *)
(***************************************************************************)
EXTENDS Transcript, TLAPS

\* What the step of a turn says of its locals.
Own(t) ==
  /\ turn[t].pc \in {"complete", "calls", "asked", "settle", "user", "assistant"}
       => turn[t].st.of = t
  /\ turn[t].pc \in {"abandon user", "abandon assistant"} => turn[t].old.of \in Turn
  /\ turn[t].pc = "calls" => turn[t].round < R
  /\ turn[t].pc \in {"asked", "settle"} =>
       \A c \in turn[t].yes : <<t, <<turn[t].st.n, c>>>> \in allowed
  /\ drop[t].pc # "none" => drop[t].st.of = t

Phases == (\A t \in Turn : Own(t)) /\ (paused = NoState \/ paused.of \in Turn)

Typed == TypeOK /\ Phases

LEMMA Bounds ==
  /\ R \in Nat /\ AskLimit \in Nat /\ MaxN \in Nat /\ T \in Nat /\ 0 \in 0 .. T
  /\ Turn \subseteq 0 .. T /\ 0 \notin Turn /\ 0 \in 0 .. R /\ 0 \in 0 .. AskLimit
  /\ 0 \in 0 .. MaxN /\ 0 \in 0 .. Commands /\ 0 \in 0 .. Mishaps /\ 1 \in Turn
<1>1. \A a, r \in Nat : (a + 1) * (r + 1) \in Nat
  OBVIOUS
<1> QED BY <1>1, TranscriptAssumption DEF MaxN, Turn

LEMMA NoStateIsState == NoState \in State /\ NoState.of = 0
BY Bounds DEF NoState, State

LEMMA IdleIsTurn ==
  /\ IdleTurn \in TurnRec /\ IdleTurn.pc = "idle"
  /\ NoDrop.pc = "none" /\ NoDrop.st = NoState
  /\ NoDrop \in [pc : {"none", "answer", "user", "assistant"}, st : State]
BY Bounds, NoStateIsState DEF IdleTurn, TurnRec, NoDrop

\* The locals of a turn, field by field.
LEMMA TurnIs ==
  ASSUME TypeOK, NEW t \in Turn
  PROVE  /\ turn[t] \in TurnRec /\ turn[t].st \in State /\ turn[t].old \in State
         /\ turn[t].st.of \in 0 .. T /\ turn[t].old.of \in 0 .. T
         /\ turn[t].stop \in BOOLEAN /\ turn[t].dropped \in BOOLEAN
         /\ turn[t].todo \subseteq Call /\ turn[t].round \in 0 .. R
<1>1. turn[t] \in TurnRec
  BY DEF TypeOK
<1>2. turn[t].st \in State /\ turn[t].old \in State
  BY <1>1 DEF TurnRec
<1> QED BY <1>1, <1>2 DEF TurnRec, State

\* One field of a turn's locals changes and the others stay.
LEMMA WithPc ==
  ASSUME NEW r \in TurnRec,
         NEW pc \in {"idle", "begin", "abandon user", "abandon assistant", "read",
                     "complete", "calls", "asked", "settle", "user", "assistant", "row", "done"}
  PROVE  /\ [r EXCEPT !.pc = pc] \in TurnRec /\ [r EXCEPT !.pc = pc].pc = pc
         /\ [r EXCEPT !.pc = pc].st = r.st /\ [r EXCEPT !.pc = pc].old = r.old
         /\ [r EXCEPT !.pc = pc].todo = r.todo /\ [r EXCEPT !.pc = pc].round = r.round
         /\ [r EXCEPT !.pc = pc].yes = r.yes /\ [r EXCEPT !.pc = pc].asks = r.asks
BY DEF TurnRec

LEMMA Appending ==
  ASSUME NEW s \in Seq(Entry), NEW e \in Entry
  PROVE  Append(s, e) \in Seq(Entry)
OBVIOUS

LEMMA WithOld ==
  ASSUME NEW r \in TurnRec, NEW st \in State
  PROVE  /\ [r EXCEPT !.old = st] \in TurnRec /\ [r EXCEPT !.old = st].pc = r.pc
         /\ [r EXCEPT !.old = st].old = st
BY DEF TurnRec

LEMMA EndedIsTurn ==
  ASSUME TypeOK, NEW t \in Turn
  PROVE  Ended(t) \in TurnRec /\ Ended(t).pc = "done"
<1>1. turn[t].q \in 0 .. T
  BY TurnIs DEF TurnRec
<1> QED BY <1>1, IdleIsTurn DEF Ended, TurnRec

LEMMA Setting ==
  ASSUME TypeOK, NEW t \in Turn, NEW rec \in TurnRec, Set(t, rec)
  PROVE  /\ turn' \in [Turn -> TurnRec] /\ turn'[t] = rec
         /\ \A u \in Turn : u # t => turn'[u] = turn[u]
BY DEF Set, TypeOK

LEMMA Ending ==
  ASSUME TypeOK, NEW t \in Turn, End(t)
  PROVE  /\ turn' \in [Turn -> TurnRec] /\ turn'[t].pc = "done"
         /\ \A u \in Turn : u # t => turn'[u] = turn[u]
         /\ reg' \in 0 .. T
<1>1. Set(t, Ended(t)) /\ reg' \in {0, reg}
  BY DEF End
<1> QED BY <1>1, EndedIsTurn, Setting, Bounds DEF TypeOK

LEMMA Returning ==
  ASSUME TypeOK, NEW t \in Turn, End(t) \/ Returned(t)
  PROVE  /\ turn' \in [Turn -> TurnRec] /\ turn'[t].pc \in {"done", "row"}
         /\ \A u \in Turn : u # t => turn'[u] = turn[u]
         /\ reg' \in 0 .. T
<1>1. CASE End(t)
  BY <1>1, Ending
<1>2. CASE Go(t, "row") /\ UNCHANGED reg
  <2>1. [turn[t] EXCEPT !.pc = "row"] \in TurnRec /\ [turn[t] EXCEPT !.pc = "row"].pc = "row"
    BY TurnIs, WithPc
  <2> QED BY <1>2, <2>1, Setting DEF Go, TypeOK
<1> QED BY <1>1, <1>2 DEF Returned

\* A step that leaves everybody else's locals, the yes and the map alone.
LEMMA OwnStep ==
  ASSUME Typed, NEW t \in Turn, \A u \in Turn : u # t => turn'[u] = turn[u],
         \A u \in Turn : u # t => drop'[u] = drop[u],
         allowed \subseteq allowed', Own(t)', paused' = paused \/ paused' = NoState
  PROVE  Phases'
BY NoStateIsState DEF Typed, Phases, Own

LEMMA OwnDone ==
  ASSUME TypeOK, NEW t \in Turn, Own(t), turn'[t].pc \in {"done", "read", "begin", "row"}, drop' = drop
  PROVE  Own(t)'
BY DEF Own

LEMMA TypeInit == Init => Typed
<1> SUFFICES ASSUME Init PROVE Typed
  OBVIOUS
<1>1. turn \in [Turn -> TurnRec] /\ \A t \in Turn : turn[t].pc = "idle"
  BY IdleIsTurn DEF Init
<1>2. drop \in [Turn -> [pc : {"none", "answer", "user", "assistant"}, st : State]]
      /\ \A t \in Turn : drop[t].pc = "none"
  BY IdleIsTurn DEF Init
<1>3. Seed \in Entry
  BY Bounds DEF Seed, Entry
<1>4. <<>> \in Seq(Entry) /\ <<Seed>> \in Seq(Entry) /\ <<>> \in Seq(0 .. T)
  BY <1>3
<1>5. TypeOK
  BY <1>1, <1>2, <1>4, NoStateIsState, Bounds DEF Init, TypeOK
<1> QED BY <1>1, <1>2, <1>5 DEF Init, Typed, Phases, Own

LEMMA Failing ==
  ASSUME Typed, NEW t \in Turn, NEW what, Fails(t, what), drop' = drop, paused' = paused,
         allowed' = allowed
  PROVE  /\ turn' \in [Turn -> TurnRec] /\ reg' \in 0 .. T
         /\ mishaps' \in 0 .. Mishaps /\ excused' \subseteq 0 .. T /\ Phases'
<1>1. /\ turn' \in [Turn -> TurnRec] /\ turn'[t].pc \in {"done", "row"}
      /\ \A u \in Turn : u # t => turn'[u] = turn[u]
      /\ reg' \in 0 .. T
  BY Returning DEF Fails, Typed
<1>2. mishaps' \in 0 .. Mishaps
  <2>1. mishaps \in 0 .. Mishaps /\ Mishaps \in Nat
    BY TranscriptAssumption DEF Typed, TypeOK
  <2> QED BY <2>1 DEF Fails, Mishap
<1>3. excused' \subseteq 0 .. T
  BY Bounds DEF Fails, Typed, TypeOK
<1>4. Phases'
  BY <1>1, OwnStep, OwnDone DEF Typed, Phases
<1> QED BY <1>1, <1>2, <1>3, <1>4

LEMMA Mishapping ==
  ASSUME TypeOK, NEW what, Mishap(what) \/ UNCHANGED mishaps
  PROVE  mishaps' \in 0 .. Mishaps
<1>1. mishaps \in 0 .. Mishaps /\ Mishaps \in Nat
  BY TranscriptAssumption DEF TypeOK
<1> QED BY <1>1 DEF Mishap, TypeOK

LEMMA Entries ==
  ASSUME NEW st \in State
  PROVE  /\ User(st) \in Entry /\ User(st).of = st.of /\ User(st).role = "user"
         /\ Assistant(st) \in Entry /\ Assistant(st).of = st.of
         /\ Assistant(st).role = "assistant"
BY DEF User, Assistant, Entry, State

-----------------------------------------------------------------------------
(* Types: the steps of a turn.                                             *)

LEMMA ArriveTypes ==
  ASSUME Typed, NEW m \in Turn, Arrive(m)
  PROVE  Typed'
<1> USE DEF Typed
<1>1. PICK q \in {m} \cup (IF Reruns THEN {rows[i] : i \in DOMAIN rows} ELSE {}) :
       turn' = [t \in Turn |->
         IF t = m THEN [IdleTurn EXCEPT !.pc = "begin", !.q = q]
         ELSE [turn[t] EXCEPT !.stop = turn[t].stop \/ t \in Cancelled,
                              !.dropped = turn[t].dropped \/ (At(t, "asked") /\ turn[t].todo # {})]]
  BY DEF Arrive
<1>2. q \in 0 .. T
  <2>1. \A S : \A s \in Seq(S) : \A i \in DOMAIN s : s[i] \in S
    OBVIOUS
  <2>2. \A i \in DOMAIN rows : rows[i] \in 0 .. T
    BY <2>1 DEF TypeOK
  <2>3. q = m \/ \E i \in DOMAIN rows : q = rows[i]
    BY <1>1
  <2> QED BY <2>2, <2>3, Bounds
<1>3. [IdleTurn EXCEPT !.pc = "begin", !.q = q] \in TurnRec
      /\ [IdleTurn EXCEPT !.pc = "begin", !.q = q].pc = "begin"
  BY <1>2, IdleIsTurn DEF TurnRec
<1>4. \A t \in Turn : \E a, b \in BOOLEAN :
        t # m => turn'[t] = [turn[t] EXCEPT !.stop = a, !.dropped = b]
  <2> SUFFICES ASSUME NEW t \in Turn
               PROVE  \E a, b \in BOOLEAN :
                        t # m => turn'[t] = [turn[t] EXCEPT !.stop = a, !.dropped = b]
    OBVIOUS
  <2> DEFINE a == turn[t].stop \/ t \in Cancelled
             b == turn[t].dropped \/ (At(t, "asked") /\ turn[t].todo # {})
  <2>1. a \in BOOLEAN /\ b \in BOOLEAN
    BY TurnIs
  <2>2. t # m => turn'[t] = [turn[t] EXCEPT !.stop = a, !.dropped = b]
    BY <1>1
  <2> HIDE DEF a, b
  <2> QED BY <2>1, <2>2
<1>5. \A t \in Turn : t # m =>
        /\ turn'[t] \in TurnRec
        /\ turn'[t].pc = turn[t].pc /\ turn'[t].st = turn[t].st
        /\ turn'[t].old = turn[t].old
        /\ turn'[t].round = turn[t].round /\ turn'[t].yes = turn[t].yes
  <2> SUFFICES ASSUME NEW t \in Turn, t # m
               PROVE  /\ turn'[t] \in TurnRec
                      /\ turn'[t].pc = turn[t].pc /\ turn'[t].st = turn[t].st
                      /\ turn'[t].old = turn[t].old
                      /\ turn'[t].round = turn[t].round /\ turn'[t].yes = turn[t].yes
    OBVIOUS
  <2>1. PICK a, b \in BOOLEAN : turn'[t] = [turn[t] EXCEPT !.stop = a, !.dropped = b]
    BY <1>4
  <2>2. turn[t] \in TurnRec
    BY TurnIs
  <2> QED BY <2>1, <2>2 DEF TurnRec
<1>6. turn' \in [Turn -> TurnRec] /\ turn'[m].pc = "begin"
  <2>1. turn'[m] = [IdleTurn EXCEPT !.pc = "begin", !.q = q]
    BY <1>1
  <2>2. turn' = [t \in Turn |-> turn'[t]]
    BY <1>1
  <2>3. turn'[m] \in TurnRec /\ turn'[m].pc = "begin"
    BY <2>1, <1>3
  <2>4. \A t \in Turn : turn'[t] \in TurnRec
    BY <2>3, <1>5
  <2> QED BY <2>2, <2>3, <2>4
<1>7. Cancelled \subseteq 0 .. T
  BY DEF Cancelled, TypeOK
<1>8. TypeOK'
  BY <1>6, <1>7, Bounds DEF Arrive, TypeOK, store, bounds
<1>9. Phases'
  BY <1>5, <1>6, OwnDone, ZenonT(60) DEF Arrive, Phases, Own, bounds
<1> QED BY <1>8, <1>9

LEMMA AbandonTypes ==
  ASSUME Typed, NEW t \in Turn, Abandon(t)
  PROVE  Typed'
<1> USE DEF Typed
<1>1. CASE Fails(t, "session") /\ UNCHANGED paused
  BY <1>1, Failing DEF Abandon, TypeOK, store
<1>2. CASE paused' = NoState /\ paused = NoState /\ Go(t, "read") /\ UNCHANGED <<reg, mishaps, excused>>
  <2>1. [turn[t] EXCEPT !.pc = "read"] \in TurnRec /\ [turn[t] EXCEPT !.pc = "read"].pc = "read"
    BY TurnIs, WithPc
  <2>2. /\ turn' \in [Turn -> TurnRec] /\ turn'[t].pc = "read"
        /\ \A u \in Turn : u # t => turn'[u] = turn[u]
    BY <1>2, <2>1, Setting DEF Go
  <2>3. Phases'
    BY <1>2, <2>2, OwnStep, OwnDone DEF Abandon, Phases
  <2> QED BY <1>2, <2>2, <2>3, NoStateIsState DEF Abandon, TypeOK, store
<1>3. CASE /\ paused' = NoState /\ paused # NoState
           /\ Set(t, [turn[t] EXCEPT !.pc = "abandon user", !.old = paused])
           /\ UNCHANGED <<reg, mishaps, excused>>
  <2> DEFINE q == [turn[t] EXCEPT !.pc = "abandon user", !.old = paused]
  <2>1. q \in TurnRec /\ q.pc = "abandon user" /\ q.old = paused
    <3>1. [turn[t] EXCEPT !.pc = "abandon user"] \in TurnRec
          /\ [turn[t] EXCEPT !.pc = "abandon user"].pc = "abandon user"
      BY TurnIs, WithPc, ZenonT(60)
    <3> QED BY <3>1, WithOld DEF TypeOK
  <2> HIDE DEF q
  <2>2. /\ turn' \in [Turn -> TurnRec] /\ turn'[t] = q
        /\ \A u \in Turn : u # t => turn'[u] = turn[u]
    BY <1>3, <2>1, Setting DEF q
  <2>3. Own(t)'
    BY <1>3, <2>1, <2>2 DEF Abandon, Own, Phases
  <2>4. Phases'
    BY <1>3, <2>2, <2>3, OwnStep DEF Abandon
  <2> QED BY <1>3, <2>2, <2>4, NoStateIsState DEF Abandon, TypeOK, store
<1> QED BY <1>1, <1>2, <1>3 DEF Abandon

\* What is left of a turn when the state it abandoned is done with.
LEMMA ToRead ==
  ASSUME Typed, NEW t \in Turn, Set(t, [turn[t] EXCEPT !.pc = "read", !.old = NoState]),
         drop' = drop, paused' = paused, allowed' = allowed
  PROVE  /\ turn' \in [Turn -> TurnRec] /\ Phases' /\ turn'[t].pc = "read"
         /\ \A u \in Turn : u # t => turn'[u] = turn[u]
<1> USE DEF Typed
<1>1. [turn[t] EXCEPT !.pc = "read", !.old = NoState] \in TurnRec
      /\ [turn[t] EXCEPT !.pc = "read", !.old = NoState].pc = "read"
  <2>1. [turn[t] EXCEPT !.pc = "read"] \in TurnRec /\ [turn[t] EXCEPT !.pc = "read"].pc = "read"
    BY TurnIs, WithPc
  <2> QED BY <2>1, WithOld, NoStateIsState
<1>2. /\ turn' \in [Turn -> TurnRec] /\ turn'[t].pc = "read"
      /\ \A u \in Turn : u # t => turn'[u] = turn[u]
  BY <1>1, Setting
<1> QED BY <1>2, OwnStep, OwnDone DEF Phases

LEMMA AbandonUserTypes ==
  ASSUME Typed, NEW t \in Turn, AbandonUser(t)
  PROVE  Typed'
<1> USE DEF Typed
<1>1. turn[t] \in TurnRec /\ turn[t].old \in State /\ turn[t].old.of \in 0 .. T
  BY TurnIs
<1>2. CASE trans' = Append(trans, User(turn[t].old)) /\ Go(t, "abandon assistant")
           /\ UNCHANGED <<mishaps, excused>>
  <2> DEFINE q == [turn[t] EXCEPT !.pc = "abandon assistant"]
  <2>1. q \in TurnRec /\ q.pc = "abandon assistant" /\ q.old = turn[t].old
    BY <1>1, WithPc
  <2> HIDE DEF q
  <2>2. /\ turn' \in [Turn -> TurnRec] /\ turn'[t] = q
        /\ \A u \in Turn : u # t => turn'[u] = turn[u]
    BY <1>2, <2>1, Setting DEF q, Go
  <2>3. Own(t)'
    BY <2>1, <2>2 DEF AbandonUser, Own, Phases, At
  <2>4. Phases'
    BY <2>2, <2>3, OwnStep DEF AbandonUser
  <2>5. trans' \in Seq(Entry)
    BY <1>1, <1>2, Entries, Appending DEF TypeOK
  <2> QED BY <1>2, <2>2, <2>4, <2>5 DEF AbandonUser, TypeOK
<1>3. CASE /\ (turn[t].stop /\ UNCHANGED mishaps) \/ Mishap("append")
           /\ Set(t, [turn[t] EXCEPT !.pc = "read", !.old = NoState])
           /\ excused' = excused \cup {turn[t].old.of}
           /\ UNCHANGED trans
  <2>1. mishaps' \in 0 .. Mishaps
    BY <1>3, Mishapping
  <2>2. turn' \in [Turn -> TurnRec] /\ Phases'
    BY <1>3, ToRead DEF AbandonUser
  <2> QED BY <1>1, <1>3, <2>1, <2>2 DEF AbandonUser, TypeOK
<1> QED BY <1>2, <1>3 DEF AbandonUser

LEMMA AbandonAssistantTypes ==
  ASSUME Typed, NEW t \in Turn, AbandonAssistant(t)
  PROVE  Typed'
<1> USE DEF Typed
<1>1. turn[t] \in TurnRec /\ turn[t].old \in State /\ turn[t].old.of \in 0 .. T
  BY TurnIs
<1>2. turn' \in [Turn -> TurnRec] /\ Phases'
  BY ToRead DEF AbandonAssistant
<1>3. mishaps' \in 0 .. Mishaps
  BY Mishapping DEF AbandonAssistant
<1>4. trans' \in Seq(Entry)
  <2>1. Append(trans, Assistant(turn[t].old)) \in Seq(Entry)
    BY <1>1, Entries, Appending DEF TypeOK
  <2>2. trans' = Append(trans, Assistant(turn[t].old)) \/ trans' = trans
    BY DEF AbandonAssistant
  <2> QED BY <2>1, <2>2 DEF TypeOK
<1>5. excused' \subseteq 0 .. T
  BY <1>1 DEF AbandonAssistant, TypeOK
<1> QED BY <1>2, <1>3, <1>4, <1>5 DEF AbandonAssistant, TypeOK

\* A step that changes only the locals of its turn.
LEMMA LocalTypes ==
  ASSUME Typed, NEW t \in Turn, NEW q \in TurnRec, Set(t, q), reg' = reg,
         UNCHANGED <<drop, paused, store, bounds, excused, crossed>>,
         ran' \subseteq Turn \X Made, allowed \subseteq allowed', allowed' \subseteq Turn \X Made,
         Own(t)'
  PROVE  Typed'
<1> USE DEF Typed
<1>1. /\ turn' \in [Turn -> TurnRec] /\ turn'[t] = q
      /\ \A u \in Turn : u # t => turn'[u] = turn[u]
  BY Setting
<1>2. Phases'
  BY <1>1, OwnStep
<1> QED BY <1>1, <1>2 DEF TypeOK, store, bounds

LEMMA ReadTypes ==
  ASSUME Typed, NEW t \in Turn, Read(t)
  PROVE  Typed'
<1> USE DEF Typed
<1>1. CASE Fails(t, "append")
  BY <1>1, Failing DEF Read, TypeOK, store
<1>2. CASE /\ Set(t, [turn[t] EXCEPT !.pc = "complete", !.st = [NoState EXCEPT !.of = t]])
           /\ UNCHANGED <<reg, mishaps, excused>>
  <2> DEFINE st == [NoState EXCEPT !.of = t]
             q == [turn[t] EXCEPT !.pc = "complete", !.st = st]
  <2>1. st \in State /\ st.of = t
    BY NoStateIsState, Bounds DEF State
  <2> HIDE DEF st
  <2>2. q \in TurnRec /\ q.pc = "complete" /\ q.st = st
    <3>1. turn[t] \in TurnRec
      BY TurnIs
    <3> QED BY <2>1, <3>1 DEF TurnRec
  <2>3. Set(t, q)
    BY <1>2 DEF st
  <2> HIDE DEF q
  <2>4. turn'[t] = q
    BY <2>2, <2>3, Setting
  <2>5. Own(t)'
    BY <2>1, <2>2, <2>4 DEF Own, Read, Phases
  <2> QED BY <1>2, <2>2, <2>3, <2>5, LocalTypes DEF Read, TypeOK, store, bounds
<1> QED BY <1>1, <1>2 DEF Read

LEMMA CompleteTypes ==
  ASSUME Typed, NEW t \in Turn, Complete(t)
  PROVE  Typed'
<1> USE DEF Typed
<1>1. CASE Fails(t, "model")
  BY <1>1, Failing DEF Complete, TypeOK, store
<1>2. CASE /\ \E calls \in SUBSET Call :
                /\ turn[t].round = R => calls = {}
                /\ Set(t, [turn[t] EXCEPT
                     !.st = [turn[t].st EXCEPT !.n = Another(turn[t].st.n)],
                     !.todo = calls,
                     !.pc = IF calls = {} THEN "user" ELSE "calls"])
           /\ UNCHANGED <<reg, mishaps, excused>>
  <2>1. PICK calls \in SUBSET Call :
                /\ turn[t].round = R => calls = {}
                /\ Set(t, [turn[t] EXCEPT
                     !.st = [turn[t].st EXCEPT !.n = Another(turn[t].st.n)],
                     !.todo = calls,
                     !.pc = IF calls = {} THEN "user" ELSE "calls"])
    BY <1>2
  <2> DEFINE st == [turn[t].st EXCEPT !.n = Another(turn[t].st.n)]
             pc == IF calls = {} THEN "user" ELSE "calls"
             q == [turn[t] EXCEPT !.st = st, !.todo = calls, !.pc = pc]
  <2>2. st \in State /\ st.of = turn[t].st.of
    <3>1. turn[t].st.n \in 0 .. MaxN
      BY TurnIs DEF State
    <3>2. Another(turn[t].st.n) \in 0 .. MaxN
      BY <3>1, Bounds DEF Another
    <3> QED BY <3>2, TurnIs DEF State
  <2>3. Set(t, q)
    BY <2>1
  <2>4. pc \in {"user", "calls"} /\ (pc = "calls" => calls # {})
    OBVIOUS
  <2> HIDE DEF st, pc
  <2>5. q \in TurnRec /\ q.pc = pc /\ q.st = st /\ q.round = turn[t].round
    BY <2>2, <2>4, TurnIs DEF TurnRec
  <2> HIDE DEF q
  <2>6. turn'[t] = q
    BY <2>3, <2>5, Setting
  <2>7. turn[t].round # R => turn[t].round < R
    BY TurnIs, Bounds
  <2>8. Own(t)'
    BY <2>1, <2>2, <2>4, <2>5, <2>6, <2>7 DEF Own, Complete, Phases, At
  <2> QED BY <1>2, <2>3, <2>5, <2>8, LocalTypes DEF Complete, TypeOK, store, bounds
<1> QED BY <1>1, <1>2 DEF Complete

\* A call is one of its turn and its completion.
LEMMA CallTypes ==
  ASSUME Typed, NEW t \in Turn, turn[t].pc \in {"calls", "asked", "settle"}, NEW c \in Call
  PROVE  /\ <<turn[t].st.n, c>> \in Made
         /\ <<turn[t].st.of, <<turn[t].st.n, c>>>> \in Turn \X Made
         /\ Using(t, c) \in State
         /\ Using(t, c).of = turn[t].st.of /\ Using(t, c).n = turn[t].st.n
<1> USE DEF Typed
<1>1. turn[t].st.n \in 0 .. MaxN /\ turn[t].st \in State
  BY TurnIs DEF State
<1>2. turn[t].st.of = t
  BY DEF Phases, Own
<1>3. <<turn[t].st.n, c>> \in Made
  BY <1>1 DEF Made
<1> QED BY <1>1, <1>2, <1>3 DEF Using, State

LEMMA HoldOrExecTypes ==
  ASSUME Typed, NEW t \in Turn, HoldOrExec(t)
  PROVE  Typed'
<1> USE DEF Typed
<1>0. PICK c \in Call : First(t, c) /\
       IF c \in Confirm
       THEN /\ Set(t, [turn[t] EXCEPT !.todo = turn[t].todo \ {c},
                         !.st = [turn[t].st EXCEPT !.held = turn[t].st.held \cup {c}]])
            /\ UNCHANGED ran
       ELSE /\ Exec(t, c)
            /\ Set(t, [turn[t] EXCEPT !.todo = turn[t].todo \ {c}, !.st = Using(t, c)])
  BY DEF HoldOrExec
<1> DEFINE st == IF c \in Confirm THEN [turn[t].st EXCEPT !.held = turn[t].st.held \cup {c}]
                 ELSE Using(t, c)
           q == [turn[t] EXCEPT !.todo = turn[t].todo \ {c}, !.st = st]
<1>1. st \in State /\ st.of = turn[t].st.of
  <2>1. [turn[t].st EXCEPT !.held = turn[t].st.held \cup {c}] \in State
        /\ [turn[t].st EXCEPT !.held = turn[t].st.held \cup {c}].of = turn[t].st.of
    BY TurnIs DEF State
  <2> QED BY <2>1, CallTypes DEF HoldOrExec, At
<1>2. Set(t, q)
  BY <1>0
<1>3. ran' \subseteq Turn \X Made
  BY <1>0, CallTypes DEF Exec, TypeOK, HoldOrExec, At
<1> HIDE DEF st
<1>4. q \in TurnRec /\ q.pc = "calls" /\ q.st = st /\ q.round = turn[t].round
  BY <1>1, TurnIs DEF TurnRec, HoldOrExec, At
<1> HIDE DEF q
<1>5. turn'[t] = q
  BY <1>2, <1>4, Setting
<1>6. Own(t)'
  BY <1>1, <1>4, <1>5 DEF Own, HoldOrExec, Phases, At
<1> QED BY <1>2, <1>3, <1>4, <1>6, LocalTypes DEF HoldOrExec, TypeOK

LEMMA NextRoundTypes ==
  ASSUME Typed, NEW t \in Turn, NextRound(t)
  PROVE  Typed'
<1> USE DEF Typed
<1> DEFINE q == [turn[t] EXCEPT !.pc = "complete", !.round = turn[t].round + 1]
<1>1. turn[t].round + 1 \in 0 .. R
  <2>1. turn[t].round < R /\ turn[t].round \in 0 .. R
    BY TurnIs DEF NextRound, At, Phases, Own
  <2> QED BY <2>1, Bounds
<1>2. q \in TurnRec /\ q.pc = "complete" /\ q.st = turn[t].st
  BY <1>1, TurnIs DEF TurnRec
<1>3. Set(t, q)
  BY DEF NextRound
<1> HIDE DEF q
<1>4. turn'[t] = q
  BY <1>2, <1>3, Setting
<1>5. Own(t)'
  BY <1>2, <1>4 DEF Own, NextRound, Phases, At, history
<1> QED BY <1>2, <1>3, <1>5, LocalTypes DEF NextRound, TypeOK, history

LEMMA PauseTypes ==
  ASSUME Typed, NEW t \in Turn, Pause(t)
  PROVE  Typed'
<1> USE DEF Typed
<1>1. turn[t].st \in State /\ turn[t].st.of = t /\ turn[t].pc = "calls"
  BY TurnIs DEF Pause, At, Phases, Own
<1>2. paused' \in State /\ paused'.of \in Turn
  BY <1>1 DEF Pause
<1>3. excused' \subseteq 0 .. T
  <2>1. paused.of \in 0 .. T
    BY DEF TypeOK, State
  <2> QED BY <2>1 DEF Pause, TypeOK
<1>4. CASE Returned(t)
  <2>1. /\ turn' \in [Turn -> TurnRec] /\ turn'[t].pc \in {"done", "row"} /\ reg' \in 0 .. T
        /\ \A u \in Turn : u # t => turn'[u] = turn[u]
    BY <1>4, Returning
  <2>2. Phases'
    BY <1>2, <2>1, OwnDone DEF Pause, Phases, Own
  <2> QED BY <1>2, <1>3, <2>1, <2>2 DEF Pause, TypeOK, store, bounds
<1>5. CASE /\ turn[t].asks # AskLimit
           /\ Set(t, [turn[t] EXCEPT !.pc = "asked", !.todo = turn[t].st.held,
                       !.asks = turn[t].asks + 1, !.yes = {}, !.no = {}, !.dropped = FALSE])
           /\ UNCHANGED reg
  <2> DEFINE held == turn[t].st.held
             asks == turn[t].asks + 1
             q == [turn[t] EXCEPT !.pc = "asked", !.todo = held,
                     !.asks = asks, !.yes = {}, !.no = {}, !.dropped = FALSE]
  <2>1. held \subseteq Call
    BY <1>1 DEF State
  <2>2. asks \in 0 .. AskLimit
    <3>1. turn[t].asks \in 0 .. AskLimit
      BY TurnIs DEF TurnRec
    <3> QED BY <3>1, <1>5, Bounds
  <2>3. Set(t, q)
    BY <1>5
  <2> HIDE DEF held, asks
  <2>4. q \in TurnRec /\ q.pc = "asked" /\ q.st = turn[t].st /\ q.yes = {}
    BY <2>1, <2>2, TurnIs DEF TurnRec
  <2> HIDE DEF q
  <2>5. /\ turn' \in [Turn -> TurnRec] /\ turn'[t] = q
        /\ \A u \in Turn : u # t => turn'[u] = turn[u]
    BY <2>3, <2>4, Setting
  <2>6. Phases'
    BY <1>1, <1>2, <2>4, <2>5 DEF Pause, Phases, Own
  <2> QED BY <1>2, <1>3, <1>5, <2>5, <2>6 DEF Pause, TypeOK, store, bounds
<1> QED BY <1>4, <1>5 DEF Pause

LEMMA QuestionTypes ==
  ASSUME Typed, NEW t \in Turn, Allow(t) \/ Deny(t) \/ Unanswered(t)
  PROVE  Typed'
<1> USE DEF Typed
<1>1. PICK c \in Call : Asked(t, c) /\
        \/ /\ Set(t, [Left(t, c) EXCEPT !.yes = turn[t].yes \cup {c}])
           /\ allowed' = allowed \cup {<<turn[t].st.of, <<turn[t].st.n, c>>>>}
        \/ Set(t, [Left(t, c) EXCEPT !.no = turn[t].no \cup {c}]) /\ allowed' = allowed
        \/ Set(t, Left(t, c)) /\ allowed' = allowed
  BY DEF Allow, Deny, Unanswered, history
<1>2. /\ Left(t, c) \in TurnRec /\ Left(t, c).pc = "asked" /\ Left(t, c).st = turn[t].st
      /\ Left(t, c).yes = turn[t].yes
  BY <1>1, TurnIs DEF Left, TurnRec, Asked, At
<1>3. turn[t].yes \subseteq Call /\ turn[t].no \subseteq Call
  BY TurnIs DEF TurnRec
<1>4. turn[t].st.of = t /\ turn[t].pc = "asked"
  BY <1>1 DEF Asked, At, Phases, Own
<1>5. <<turn[t].st.of, <<turn[t].st.n, c>>>> \in Turn \X Made
  BY <1>4, CallTypes
<1>6. ran' = ran /\ reg' = reg /\ UNCHANGED <<drop, paused, store, bounds, excused, crossed>>
  BY DEF Allow, Deny, Unanswered, history
<1>7. CASE /\ Set(t, [Left(t, c) EXCEPT !.yes = turn[t].yes \cup {c}])
           /\ allowed' = allowed \cup {<<turn[t].st.of, <<turn[t].st.n, c>>>>}
  <2> DEFINE l == Left(t, c)
             yes == turn[t].yes \cup {c}
             q == [l EXCEPT !.yes = yes]
  <2>1. yes \subseteq Call
    BY <1>3
  <2> HIDE DEF l, yes
  <2>2. l \in TurnRec /\ l.pc = "asked" /\ l.st = turn[t].st
    BY <1>2 DEF l
  <2>3. q \in TurnRec /\ q.pc = "asked" /\ q.st = turn[t].st /\ q.yes = yes
    BY <2>1, <2>2 DEF TurnRec
  <2>4. Set(t, q)
    BY <1>7 DEF l, yes
  <2> HIDE DEF q
  <2>5. turn'[t] = q
    BY <2>3, <2>4, Setting
  <2>6. \A d \in yes : <<t, <<turn[t].st.n, d>>>> \in allowed'
    BY <1>4, <1>7 DEF Phases, Own, yes
  <2>7. Own(t)'
    BY <1>4, <1>6, <2>3, <2>5, <2>6 DEF Own, Phases
  <2> QED BY <1>5, <1>6, <1>7, <2>3, <2>4, <2>7, LocalTypes DEF TypeOK
<1>8. CASE Set(t, [Left(t, c) EXCEPT !.no = turn[t].no \cup {c}]) /\ allowed' = allowed
  <2> DEFINE l == Left(t, c)
             no == turn[t].no \cup {c}
             q == [l EXCEPT !.no = no]
  <2>1. no \subseteq Call
    BY <1>3
  <2> HIDE DEF l, no
  <2>2. l \in TurnRec /\ l.pc = "asked" /\ l.st = turn[t].st /\ l.yes = turn[t].yes
    BY <1>2 DEF l
  <2>3. q \in TurnRec /\ q.pc = "asked" /\ q.st = turn[t].st /\ q.yes = turn[t].yes
    BY <2>1, <2>2 DEF TurnRec
  <2>4. Set(t, q)
    BY <1>8 DEF l, no
  <2> HIDE DEF q
  <2>5. turn'[t] = q
    BY <2>3, <2>4, Setting
  <2>7. Own(t)'
    BY <1>4, <1>6, <1>8, <2>3, <2>5 DEF Own, Phases
  <2> QED BY <1>6, <1>8, <2>3, <2>4, <2>7, LocalTypes DEF TypeOK
<1>9. CASE Set(t, Left(t, c)) /\ allowed' = allowed
  <2>1. turn'[t] = Left(t, c)
    BY <1>2, <1>9, Setting
  <2>2. Own(t)'
    BY <1>2, <1>4, <1>6, <1>9, <2>1 DEF Own, Phases
  <2> QED BY <1>2, <1>6, <1>9, <2>2, LocalTypes DEF TypeOK
<1> QED BY <1>1, <1>7, <1>8, <1>9

LEMMA DroppedTypes ==
  ASSUME Typed, NEW t \in Turn, Dropped(t)
  PROVE  Typed'
<1> USE DEF Typed
<1>1. turn[t].st \in State /\ turn[t].st.of = t
  BY TurnIs DEF Dropped, At, Phases, Own
<1>2. /\ turn' \in [Turn -> TurnRec] /\ turn'[t].pc = "done" /\ reg' \in 0 .. T
      /\ \A u \in Turn : u # t => turn'[u] = turn[u]
  BY Ending DEF Dropped
<1>3. drop' = [drop EXCEPT ![t] = [pc |-> "answer", st |-> turn[t].st]]
  BY DEF Dropped
<1>4. /\ drop' \in [Turn -> [pc : {"none", "answer", "user", "assistant"}, st : State]]
      /\ drop'[t].st = turn[t].st
      /\ \A u \in Turn : u # t => drop'[u] = drop[u]
  BY <1>1, <1>3 DEF TypeOK
<1>5. Own(t)'
  BY <1>1, <1>2, <1>4 DEF Own
<1>6. \A u \in Turn : u # t => Own(u)'
  <2>1. allowed' = allowed
    BY DEF Dropped, history
  <2> QED BY <2>1, <1>2, <1>4 DEF Phases, Own
<1>7. Phases'
  BY <1>5, <1>6 DEF Dropped, Phases
<1> QED BY <1>2, <1>4, <1>7 DEF Dropped, TypeOK, store, bounds, history

LEMMA AnswerTypes ==
  ASSUME Typed, NEW t \in Turn, Answer(t)
  PROVE  Typed'
<1> USE DEF Typed
<1>1. turn[t].st.of = t /\ turn[t].pc = "asked"
  BY DEF Answer, At, Phases, Own
<1>2. CASE Returned(t) /\ UNCHANGED paused
  <2>1. /\ turn' \in [Turn -> TurnRec] /\ turn'[t].pc \in {"done", "row"} /\ reg' \in 0 .. T
        /\ \A u \in Turn : u # t => turn'[u] = turn[u]
    BY <1>2, Returning
  <2>2. Phases'
    BY <1>2, <2>1, OwnStep, OwnDone DEF Answer, Phases, history
  <2> QED BY <1>2, <2>1, <2>2 DEF Answer, TypeOK, store, bounds, history
<1>4. CASE /\ paused # NoState /\ SameToken(turn[t].st) /\ paused' = NoState
           /\ Set(t, [turn[t] EXCEPT !.st = paused, !.round = 0,
                       !.todo = IF turn[t].yes \cup turn[t].no = {} THEN {} ELSE paused.held,
                       !.pc = IF turn[t].yes \cup turn[t].no = {} THEN "user" ELSE "settle"])
           /\ UNCHANGED reg
  <2> DEFINE todo == IF turn[t].yes \cup turn[t].no = {} THEN {} ELSE paused.held
             pc == IF turn[t].yes \cup turn[t].no = {} THEN "user" ELSE "settle"
             q == [turn[t] EXCEPT !.st = paused, !.round = 0, !.todo = todo, !.pc = pc]
  <2>1. todo \subseteq Call /\ paused \in State
    BY DEF TypeOK, State
  <2>2. pc \in {"user", "settle"}
    OBVIOUS
  <2>3. Set(t, q)
    BY <1>4
  <2> HIDE DEF todo, pc
  <2>4. /\ q \in TurnRec /\ q.pc = pc /\ q.st = paused /\ q.yes = turn[t].yes
    <3>1. turn[t] \in TurnRec /\ 0 \in 0 .. R
      BY TurnIs, Bounds
    <3> QED BY <2>1, <2>2, <3>1 DEF TurnRec
  <2> HIDE DEF q
  <2>5. /\ turn' \in [Turn -> TurnRec] /\ turn'[t] = q
        /\ \A u \in Turn : u # t => turn'[u] = turn[u]
    BY <2>3, <2>4, Setting
  <2>6. paused.of = t /\ paused.n = turn[t].st.n
    BY <1>1, <1>4 DEF SameToken
  <2>7. allowed' = allowed /\ drop' = drop
    BY DEF Answer, history
  <2>8. \A c \in turn[t].yes : <<t, <<turn[t].st.n, c>>>> \in allowed
    BY <1>1 DEF Phases, Own
  <2>9. Own(t)'
    BY <2>2, <2>4, <2>5, <2>6, <2>7, <2>8 DEF Own, Phases
  <2>10. Phases'
    BY <1>4, <2>5, <2>7, <2>9, OwnStep
  <2> QED BY <1>4, <2>5, <2>10, NoStateIsState DEF Answer, TypeOK, store, bounds, history
<1> QED BY <1>2, <1>4 DEF Answer

LEMMA SettleTypes ==
  ASSUME Typed, NEW t \in Turn, Settle(t)
  PROVE  Typed'
<1> USE DEF Typed
<1>0. PICK c \in Call : First(t, c) /\
       IF c \in turn[t].yes
       THEN /\ Exec(t, c)
            /\ Set(t, [turn[t] EXCEPT !.todo = turn[t].todo \ {c}, !.st = Using(t, c)])
       ELSE /\ Set(t, [turn[t] EXCEPT !.todo = turn[t].todo \ {c}])
            /\ UNCHANGED ran
  BY DEF Settle
<1>1. turn[t].st.of = t /\ turn[t].pc = "settle"
  BY DEF Settle, At, Phases, Own
<1>2. CASE Exec(t, c) /\ Set(t, [turn[t] EXCEPT !.todo = turn[t].todo \ {c}, !.st = Using(t, c)])
  <2> DEFINE st == Using(t, c)
             q == [turn[t] EXCEPT !.todo = turn[t].todo \ {c}, !.st = st]
  <2>1. st \in State /\ st.of = t /\ st.n = turn[t].st.n
    BY <1>1, CallTypes
  <2>2. Set(t, q)
    BY <1>2
  <2>3. ran' \subseteq Turn \X Made
    BY <1>1, <1>2, CallTypes DEF Exec, TypeOK
  <2> HIDE DEF st
  <2>4. q \in TurnRec /\ q.pc = "settle" /\ q.st = st /\ q.yes = turn[t].yes
    <3>1. turn[t] \in TurnRec
      BY TurnIs
    <3> QED BY <1>1, <2>1, <3>1 DEF TurnRec
  <2> HIDE DEF q
  <2>5. turn'[t] = q
    BY <2>2, <2>4, Setting
  <2>6. Own(t)'
    BY <1>1, <2>1, <2>4, <2>5 DEF Own, Settle, Phases
  <2> QED BY <2>2, <2>3, <2>4, <2>6, LocalTypes DEF Settle, TypeOK
<1>3. CASE Set(t, [turn[t] EXCEPT !.todo = turn[t].todo \ {c}]) /\ UNCHANGED ran
  <2> DEFINE q == [turn[t] EXCEPT !.todo = turn[t].todo \ {c}]
  <2>1. q \in TurnRec /\ q.pc = "settle" /\ q.st = turn[t].st /\ q.yes = turn[t].yes
    BY <1>1, TurnIs DEF TurnRec
  <2>2. Set(t, q)
    BY <1>3
  <2> HIDE DEF q
  <2>3. turn'[t] = q
    BY <2>1, <2>2, Setting
  <2>4. Own(t)'
    BY <1>1, <2>1, <2>3 DEF Own, Settle, Phases
  <2> QED BY <1>3, <2>1, <2>2, <2>4, LocalTypes DEF Settle, TypeOK
<1> QED BY <1>0, <1>2, <1>3

LEMMA SettledTypes ==
  ASSUME Typed, NEW t \in Turn, Settled(t)
  PROVE  Typed'
<1> USE DEF Typed
<1> DEFINE st == [turn[t].st EXCEPT !.held = {}]
           q == [turn[t] EXCEPT !.pc = "complete", !.yes = {}, !.no = {}, !.st = st]
<1>1. st \in State /\ st.of = turn[t].st.of
  BY TurnIs DEF State
<1>2. Set(t, q)
  BY DEF Settled
<1> HIDE DEF st
<1>3. q \in TurnRec /\ q.pc = "complete" /\ q.st = st
  BY <1>1, TurnIs DEF TurnRec
<1> HIDE DEF q
<1>4. turn'[t] = q
  BY <1>2, <1>3, Setting
<1>5. Own(t)'
  BY <1>1, <1>3, <1>4 DEF Own, Settled, Phases, At
<1> QED BY <1>2, <1>3, <1>5, LocalTypes DEF Settled, TypeOK, history

\* A step of the end of a turn, by its next phase.
LEMMA GoTypes ==
  ASSUME Typed, NEW t \in Turn, NEW pc \in {"assistant", "row"}, Go(t, pc),
         turn[t].pc \in {"user", "assistant"},
         UNCHANGED <<drop, paused, allowed>>
  PROVE  turn' \in [Turn -> TurnRec] /\ Phases' /\ turn'[t].pc = pc
         /\ \A u \in Turn : u # t => turn'[u] = turn[u]
<1> USE DEF Typed
<1>1. [turn[t] EXCEPT !.pc = pc] \in TurnRec /\ [turn[t] EXCEPT !.pc = pc].pc = pc
      /\ [turn[t] EXCEPT !.pc = pc].st = turn[t].st
  <2>1. turn[t] \in TurnRec
    BY TurnIs
  <2> QED BY <2>1 DEF TurnRec
<1>2. /\ turn' \in [Turn -> TurnRec] /\ turn'[t].pc = pc /\ turn'[t].st = turn[t].st
      /\ \A u \in Turn : u # t => turn'[u] = turn[u]
  BY <1>1, Setting DEF Go
<1>3. Own(t)'
  BY <1>2 DEF Own, Phases
<1> QED BY <1>2, <1>3, OwnStep

LEMMA WriteTypes ==
  ASSUME Typed, NEW t \in Turn, WriteUser(t) \/ WriteAssistant(t)
  PROVE  Typed'
<1> USE DEF Typed
<1>1. CASE Fails(t, "append") /\ UNCHANGED trans
  BY <1>1, Failing DEF WriteUser, WriteAssistant, TypeOK
<1>2. CASE WriteUser(t) /\ trans' = Append(trans, User(turn[t].st)) /\ Go(t, "assistant")
           /\ UNCHANGED <<reg, mishaps, excused>>
  <2>1. trans' \in Seq(Entry)
    BY <1>2, TurnIs, Entries, Appending DEF TypeOK
  <2>2. turn' \in [Turn -> TurnRec] /\ Phases'
    BY <1>2, GoTypes DEF WriteUser, At
  <2> QED BY <1>2, <2>1, <2>2 DEF WriteUser, TypeOK
<1>3. CASE WriteAssistant(t) /\ trans' = Append(trans, Assistant(turn[t].st)) /\ Go(t, "row")
           /\ UNCHANGED <<reg, mishaps, excused>>
  <2>1. trans' \in Seq(Entry)
    BY <1>3, TurnIs, Entries, Appending DEF TypeOK
  <2>2. turn' \in [Turn -> TurnRec] /\ Phases'
    BY <1>3, GoTypes DEF WriteAssistant, At
  <2> QED BY <1>3, <2>1, <2>2 DEF WriteAssistant, TypeOK
<1> QED BY <1>1, <1>2, <1>3 DEF WriteUser, WriteAssistant

LEMMA PutTurnTypes ==
  ASSUME Typed, NEW t \in Turn, PutTurn(t)
  PROVE  Typed'
<1> USE DEF Typed
<1>1. /\ turn' \in [Turn -> TurnRec] /\ turn'[t].pc = "done" /\ reg' \in 0 .. T
      /\ \A u \in Turn : u # t => turn'[u] = turn[u]
  BY Ending DEF PutTurn
<1>2. mishaps' \in 0 .. Mishaps
  BY Mishapping DEF PutTurn
<1>3. rows' \in Seq(0 .. T)
  <2>1. \A s \in Seq(0 .. T), q \in 0 .. T : Append(s, q) \in Seq(0 .. T)
    OBVIOUS
  <2>2. rows' = rows \/ rows' = Append(rows, turn[t].q)
    BY DEF PutTurn
  <2>3. turn[t].q \in 0 .. T
    BY TurnIs DEF TurnRec
  <2> QED BY <2>1, <2>2, <2>3 DEF TypeOK
<1>4. Phases'
  BY <1>1, OwnStep, OwnDone DEF PutTurn, Phases, history
<1> QED BY <1>1, <1>2, <1>3, <1>4 DEF PutTurn, TypeOK, history

-----------------------------------------------------------------------------
(* Types: the goroutine of dropQuestion, the commands and the process.     *)

DropRec == [pc : {"none", "answer", "user", "assistant"}, st : State]

LEMMA DropIs ==
  ASSUME Typed, NEW t \in Turn
  PROVE  /\ drop[t] \in DropRec /\ drop \in [Turn -> DropRec]
         /\ drop[t].st \in State /\ drop[t].st.of \in 0 .. T
<1>1. drop[t] \in DropRec /\ drop \in [Turn -> DropRec]
  BY DEF Typed, TypeOK, DropRec
<1> QED BY <1>1 DEF DropRec, State

\* A step of the goroutine that leaves what it holds the turn's own.
LEMMA DropTypes ==
  ASSUME Typed, NEW t \in Turn, NEW d \in DropRec, drop' = [drop EXCEPT ![t] = d],
         d.pc # "none" => d.st.of = t, turn' = turn, allowed' = allowed,
         paused' = paused \/ paused' = NoState
  PROVE  /\ drop' \in [Turn -> DropRec] /\ drop'[t] = d
         /\ \A u \in Turn : u # t => drop'[u] = drop[u]
         /\ Phases'
<1>1. /\ drop' \in [Turn -> DropRec] /\ drop'[t] = d
      /\ \A u \in Turn : u # t => drop'[u] = drop[u]
  BY DropIs
<1>2. Own(t)'
  BY <1>1 DEF Own, Typed, Phases
<1> QED BY <1>1, <1>2, OwnStep

LEMMA DropAnswerTypes ==
  ASSUME Typed, NEW t \in Turn, DropAnswer(t)
  PROVE  Typed'
<1>1. CASE drop' = [drop EXCEPT ![t] = NoDrop] /\ UNCHANGED paused
  <2>1. NoDrop \in DropRec /\ NoDrop.pc = "none"
    BY IdleIsTurn DEF DropRec
  <2>2. drop' \in [Turn -> DropRec] /\ Phases'
    BY <1>1, <2>1, DropTypes DEF DropAnswer, history
  <2> QED BY <1>1, <2>2 DEF DropAnswer, Typed, TypeOK, DropRec, store, bounds, history
<1>2. CASE /\ paused # NoState /\ SameToken(drop[t].st) /\ paused' = NoState
           /\ drop' = [drop EXCEPT ![t] = [pc |-> "user", st |-> paused]]
  <2> DEFINE d == [pc |-> "user", st |-> paused]
  <2>1. d \in DropRec
    BY DEF DropRec, Typed, TypeOK
  <2>2. d.st.of = t
    BY <1>2 DEF SameToken, DropAnswer, Typed, Phases, Own
  <2>3. drop' = [drop EXCEPT ![t] = d]
    BY <1>2
  <2> HIDE DEF d
  <2>4. drop' \in [Turn -> DropRec] /\ Phases'
    BY <1>2, <2>1, <2>2, <2>3, DropTypes DEF DropAnswer, history
  <2> QED BY <1>2, <2>4, NoStateIsState DEF DropAnswer, Typed, TypeOK, DropRec, store, bounds, history
<1> QED BY <1>1, <1>2 DEF DropAnswer

LEMMA DropWriteTypes ==
  ASSUME Typed, NEW t \in Turn, DropWrite(t)
  PROVE  Typed'
<1> DEFINE d == [drop[t] EXCEPT !.pc = "assistant"]
<1>1. d \in DropRec /\ d.st = drop[t].st
  BY DropIs DEF DropRec
<1>2. drop[t].st.of = t
  BY DEF DropWrite, Typed, Phases, Own
<1>3. drop' = [drop EXCEPT ![t] = d] \/ drop' = [drop EXCEPT ![t] = NoDrop]
  BY DEF DropWrite
<1> HIDE DEF d
<1>4. NoDrop \in DropRec /\ NoDrop.pc = "none"
  BY IdleIsTurn DEF DropRec
<1>5. drop' \in [Turn -> DropRec] /\ Phases'
  BY <1>1, <1>2, <1>3, <1>4, DropTypes DEF DropWrite
<1>6. trans' \in Seq(Entry)
  <2>1. /\ Append(trans, User(drop[t].st)) \in Seq(Entry)
        /\ Append(trans, Assistant(drop[t].st)) \in Seq(Entry)
    BY DropIs, Entries, Appending DEF Typed, TypeOK
  <2>2. \/ trans' = trans \/ trans' = Append(trans, User(drop[t].st))
        \/ trans' = Append(trans, Assistant(drop[t].st))
    BY DEF DropWrite
  <2> QED BY <2>1, <2>2 DEF Typed, TypeOK
<1>7. mishaps' \in 0 .. Mishaps
  BY Mishapping DEF DropWrite, Typed
<1>8. excused' \subseteq 0 .. T
  BY DropIs DEF DropWrite, Typed, TypeOK
<1> QED BY <1>5, <1>6, <1>7, <1>8 DEF DropWrite, Typed, TypeOK, DropRec

LEMMA StopTypes == Typed /\ Stop => Typed'
<1> SUFFICES ASSUME Typed, Stop PROVE Typed'
  OBVIOUS
<1> USE DEF Typed
<1>1. reg \in Turn
  BY DEF Stop, TypeOK, Turn
<1> DEFINE q == [turn[reg] EXCEPT !.stop = TRUE]
<1>2. /\ q \in TurnRec /\ q.pc = turn[reg].pc /\ q.st = turn[reg].st /\ q.old = turn[reg].old
      /\ q.round = turn[reg].round /\ q.yes = turn[reg].yes
  <2>1. turn[reg] \in TurnRec
    BY <1>1, TurnIs
  <2> QED BY <2>1 DEF TurnRec
<1>3. turn' = [turn EXCEPT ![reg] = q]
  BY DEF Stop
<1> HIDE DEF q
<1>4. /\ turn' \in [Turn -> TurnRec] /\ turn'[reg] = q
      /\ \A u \in Turn : u # reg => turn'[u] = turn[u]
  BY <1>1, <1>2, <1>3, Setting DEF Set
<1>5. allowed' = allowed /\ drop' = drop /\ paused' = paused
  BY DEF Stop
<1>6. \A u \in Turn : Own(u)'
  <2>1. \A u \in Turn : /\ turn'[u].pc = turn[u].pc /\ turn'[u].st = turn[u].st
                        /\ turn'[u].old = turn[u].old
                        /\ turn'[u].round = turn[u].round /\ turn'[u].yes = turn[u].yes
    BY <1>1, <1>2, <1>4
  <2> QED BY <1>5, <2>1 DEF Phases, Own
<1>7. commands' \in 0 .. Commands
  <2>1. commands \in 0 .. Commands /\ Commands \in Nat /\ commands < Commands
    BY TranscriptAssumption DEF Stop, TypeOK
  <2> QED BY <2>1 DEF Stop
<1>8. excused' \subseteq 0 .. T /\ reg' \in 0 .. T
  BY <1>1, Bounds DEF Stop, TypeOK
<1>9. Phases'
  BY <1>5, <1>6 DEF Phases
<1> QED BY <1>4, <1>7, <1>8, <1>9 DEF Stop, TypeOK, store

\* What Trim and RemoveAt leave of a sequence.
LEMMA Trimming ==
  ASSUME NEW S, NEW s \in Seq(S)
  PROVE  /\ Trim(s) \in Seq(S) /\ Len(Trim(s)) <= Len(s)
         /\ \A i \in 1 .. Len(Trim(s)) : i \in 1 .. Len(s) /\ Trim(s)[i] = s[i]
         /\ \A i \in DOMAIN Trim(s) : i \in DOMAIN s /\ Trim(s)[i] = s[i]
<1>1. CASE Len(s) < 2
  BY <1>1 DEF Trim
<1>2. CASE Len(s) >= 2
  <2> DEFINE n == Len(s) - 2
  <2>1. n \in Nat /\ n <= Len(s) /\ Len(s) \in Nat /\ ~(Len(s) < 2)
    BY <1>2
  <2>2. Trim(s) = SubSeq(s, 1, n)
    BY <2>1 DEF Trim
  <2> HIDE DEF n
  <2>3. \A i \in 1 .. n : s[i] \in S
    BY <2>1
  <2>4. /\ SubSeq(s, 1, n) \in Seq(S) /\ Len(SubSeq(s, 1, n)) = n
        /\ \A i \in 1 .. n : SubSeq(s, 1, n)[i] = s[i]
    BY <2>1, <2>3
  <2> QED BY <2>1, <2>2, <2>4
<1> QED BY <1>1, <1>2

LEMMA Removing ==
  ASSUME NEW S, NEW s \in Seq(S), NEW i \in DOMAIN s
  PROVE  RemoveAt(s, i) \in Seq(S)
<1>1. SubSeq(s, 1, i - 1) \in Seq(S) /\ SubSeq(s, i + 1, Len(s)) \in Seq(S)
  <2>1. i \in Int /\ Len(s) \in Int /\ 1 <= i /\ i <= Len(s)
    OBVIOUS
  <2> QED BY <2>1
<1> QED BY <1>1 DEF RemoveAt

LEMMA UndoTypes == Typed /\ Undo => Typed'
<1> SUFFICES ASSUME Typed, Undo PROVE Typed'
  OBVIOUS
<1> USE DEF Typed
<1>1. trans' \in Seq(Entry)
  BY Trimming DEF Undo, TypeOK
<1>2. PICK i \in DOMAIN rows :
        /\ rows' = RemoveAt(rows, i)
        /\ excused' = excused \cup Runs(rows[i]) \cup {e.of : e \in ToSet(trans) \ ToSet(trans')}
  BY DEF Undo
<1>3. rows' \in Seq(0 .. T)
  BY <1>2, Removing DEF TypeOK
<1>4. excused' \subseteq 0 .. T
  <2>1. \A e \in ToSet(trans) : e.of \in 0 .. T
    <3>1. \A j \in DOMAIN trans : trans[j] \in Entry
      BY DEF TypeOK
    <3>2. \A e \in Entry : e.of \in 0 .. T
      BY DEF Entry
    <3> QED BY <3>1, <3>2 DEF ToSet
  <2>2. Runs(rows[i]) \subseteq 0 .. T
    BY Bounds DEF Runs
  <2> QED BY <1>2, <2>1, <2>2 DEF TypeOK
<1>5. commands' \in 0 .. Commands
  <2>1. commands \in 0 .. Commands /\ Commands \in Nat /\ commands < Commands
    BY TranscriptAssumption DEF Undo, TypeOK
  <2> QED BY <2>1 DEF Undo
<1>6. Phases'
  BY DEF Undo, Phases, Own, locals
<1> QED BY <1>1, <1>3, <1>4, <1>5, <1>6 DEF Undo, TypeOK, locals

LEMMA RestartTypes == Typed /\ Restart => Typed'
<1> SUFFICES ASSUME Typed, Restart PROVE Typed'
  OBVIOUS
<1> USE DEF Typed
<1>1. \A t \in Turn : /\ Ended(t) \in TurnRec /\ Ended(t).pc = "done"
                      /\ turn[t] \in TurnRec
  BY EndedIsTurn, TurnIs
<1>2. turn' \in [Turn -> TurnRec] /\ \A t \in Turn : turn'[t].pc \in {"idle", "done"}
  BY <1>1 DEF Restart, At
<1>3. drop' \in [Turn -> DropRec] /\ \A t \in Turn : drop'[t].pc = "none"
  BY IdleIsTurn DEF Restart, DropRec
<1>4. mishaps' \in 0 .. Mishaps
  BY Mishapping DEF Restart
<1>5. excused' \subseteq 0 .. T
  BY Bounds DEF Restart, TypeOK
<1>6. Phases'
  BY <1>2, <1>3 DEF Phases, Own, Restart
<1> QED BY <1>2, <1>3, <1>4, <1>5, <1>6, NoStateIsState, Bounds DEF Restart, TypeOK, DropRec, store

LEMMA StutterTypes == Typed /\ UNCHANGED vars => Typed'
BY DEF Typed, TypeOK, Phases, Own, vars, locals, store, bounds, history

LEMMA TypeKeeps == Typed /\ [Next]_vars => Typed'
<1> SUFFICES ASSUME Typed, [Next]_vars PROVE Typed'
  OBVIOUS
<1>1. ASSUME NEW t \in Turn,
             Abandon(t) \/ AbandonUser(t) \/ AbandonAssistant(t) \/ Read(t) \/ Complete(t)
      PROVE  Typed'
  BY <1>1, AbandonTypes, AbandonUserTypes, AbandonAssistantTypes, ReadTypes, CompleteTypes
<1>2. ASSUME NEW t \in Turn,
             HoldOrExec(t) \/ NextRound(t) \/ Pause(t) \/ Unanswered(t) \/ Dropped(t)
      PROVE  Typed'
  BY <1>2, HoldOrExecTypes, NextRoundTypes, PauseTypes, QuestionTypes, DroppedTypes
<1>3. ASSUME NEW t \in Turn,
             Answer(t) \/ Settle(t) \/ Settled(t) \/ WriteUser(t) \/ WriteAssistant(t)
             \/ PutTurn(t)
      PROVE  Typed'
  BY <1>3, AnswerTypes, SettleTypes, SettledTypes, WriteTypes, PutTurnTypes
<1>4. ASSUME NEW t \in Turn, Arrive(t) \/ DropStep(t) \/ Allow(t) \/ Deny(t)
      PROVE  Typed'
  BY <1>4, ArriveTypes, DropAnswerTypes, DropWriteTypes, QuestionTypes DEF DropStep
<1> QED BY <1>1, <1>2, <1>3, <1>4, StopTypes, UndoTypes, RestartTypes, StutterTypes
        DEF Next, TurnStep

\* Every variable keeps its type, for any number of turns, calls, rounds and
\* questions.
THEOREM TypeCorrect == Spec => []TypeOK
<1>1. Spec => []Typed
  BY TypeInit, TypeKeeps, PTL DEF Spec
<1>2. Typed => TypeOK
  BY DEF Typed
<1> QED BY <1>1, <1>2, PTL

-----------------------------------------------------------------------------
(* A call that wants a yes runs on the yes to that call.                   *)

LEMMA AllowedKeeps == Typed /\ OnlyAllowed /\ [Next]_vars => OnlyAllowed'
<1> SUFFICES ASSUME Typed, OnlyAllowed, [Next]_vars PROVE OnlyAllowed'
  OBVIOUS
<1>1. ASSUME ran' = ran, allowed \subseteq allowed' PROVE OnlyAllowed'
  BY <1>1 DEF OnlyAllowed
<1>2. ASSUME NEW t \in Turn, NEW c \in Call, c \notin Confirm, Exec(t, c), allowed' = allowed
      PROVE  OnlyAllowed'
  BY <1>2 DEF OnlyAllowed, Exec
<1>3. ASSUME NEW t \in Turn, NEW c \in turn[t].yes, At(t, "settle"), Exec(t, c),
             allowed' = allowed
      PROVE  OnlyAllowed'
  <2>1. turn[t].st.of = t /\ <<t, <<turn[t].st.n, c>>>> \in allowed
    BY <1>3 DEF Typed, Phases, Own, At
  <2> QED BY <1>3, <2>1 DEF OnlyAllowed, Exec
<1>4. ASSUME NEW t \in Turn, HoldOrExec(t) PROVE OnlyAllowed'
  BY <1>1, <1>2, <1>4 DEF HoldOrExec
<1>5. ASSUME NEW t \in Turn, Settle(t) PROVE OnlyAllowed'
  BY <1>1, <1>3, <1>5, SMTT(30) DEF Settle
<1>6. ASSUME NEW t \in Turn,
             \/ Arrive(t) \/ Abandon(t) \/ AbandonUser(t) \/ AbandonAssistant(t) \/ Read(t)
             \/ Complete(t) \/ NextRound(t) \/ Pause(t) \/ Unanswered(t) \/ Dropped(t)
             \/ Allow(t) \/ Deny(t)
      PROVE  OnlyAllowed'
  BY <1>1, <1>6 DEF Arrive, Abandon, AbandonUser, AbandonAssistant, Read, Complete, NextRound,
     Pause, Unanswered, Dropped, Allow, Deny, history
<1>7. ASSUME NEW t \in Turn,
             \/ Answer(t) \/ Settled(t) \/ WriteUser(t) \/ WriteAssistant(t) \/ PutTurn(t)
             \/ DropAnswer(t) \/ DropWrite(t)
      PROVE  OnlyAllowed'
  BY <1>1, <1>7 DEF Answer, Settled, WriteUser, WriteAssistant, PutTurn, DropAnswer,
     DropWrite, history
<1>8. CASE Stop \/ Undo \/ Restart \/ UNCHANGED vars
  BY <1>1, <1>8 DEF Stop, Undo, Restart, vars, history
<1> QED BY <1>4, <1>5, <1>6, <1>7, <1>8 DEF Next, TurnStep, DropStep

\* A call to a server marked `confirm' runs only on the owner's yes to that
\* very call, for any number of turns, questions and calls, whatever crosses
\* them: the yes is to the call of a completion, and an answer resumes that
\* completion or nothing.
THEOREM RunsOnAYes == Spec => []OnlyAllowed
<1>1. Init => OnlyAllowed
  BY DEF Init, OnlyAllowed
<1> QED BY <1>1, TypeInit, TypeKeeps, AllowedKeeps, PTL DEF Spec

-----------------------------------------------------------------------------
(* The state of a turn is in one place at a time: with its handler, in the *)
(* map, with a turn that closes it, or with the goroutine that does.       *)

Running == {"complete", "calls", "settle", "user", "assistant"}
Early == {"idle", "begin", "abandon user", "abandon assistant", "read"}
Closing == {"user", "assistant"}
Shuts(s, u) == turn[s].pc \in {"abandon user", "abandon assistant"} /\ turn[s].old.of = u

Place(u) ==
  /\ turn[u].pc \in Running => paused.of # u /\ drop[u].pc \notin Closing
  /\ drop[u].pc \in Closing => paused.of # u
  /\ \A s \in Turn : Shuts(s, u) =>
       turn[u].pc \notin Running /\ paused.of # u /\ drop[u].pc \notin Closing
  /\ \A s, r \in Turn : Shuts(s, u) /\ Shuts(r, u) => s = r
  /\ turn[u].pc \in Early =>
       paused.of # u /\ drop[u].pc \notin Closing /\ \A s \in Turn : ~Shuts(s, u)
OnePlace == \A u \in Turn : Place(u)

\* What is in the transcript has been written by whoever holds the state, or
\* nobody does any more.
Mark(u, role) ==
  /\ turn[u].pc \notin Early /\ paused.of # u
  /\ turn[u].pc \in Running => turn[u].pc = "assistant" /\ role = "user"
  /\ \A s \in Turn : Shuts(s, u) => turn[s].pc = "abandon assistant" /\ role = "user"
  /\ drop[u].pc \in Closing => drop[u].pc = "assistant" /\ role = "user"
Written ==
  \A i \in DOMAIN trans : \A u \in Turn : trans[i].of = u => Mark(u, trans[i].role)

Single == Typed /\ OnePlace /\ Written /\ OneRecordEach

\* A step after which nobody holds what they did not hold, and nothing new is
\* in the transcript.
Quieter ==
  /\ \A u \in Turn :
       /\ turn'[u].pc \in Running =>
            /\ turn[u].pc \in Running
            /\ turn[u].pc = "assistant" => turn'[u].pc = "assistant"
       /\ turn'[u].pc \in {"abandon user", "abandon assistant"} =>
            turn'[u].pc = turn[u].pc /\ turn'[u].old = turn[u].old
       /\ turn'[u].pc \in Early => turn[u].pc \in Early
       /\ drop'[u].pc \in Closing => drop'[u].pc = drop[u].pc
  /\ paused'.of \in {paused.of, 0}
  /\ \A i \in DOMAIN trans' : i \in DOMAIN trans /\ trans'[i] = trans[i]

LEMMA QuietKeeps ==
  ASSUME Single, Quieter
  PROVE  OnePlace' /\ Written' /\ OneRecordEach'
<1>1. \A s, u \in Turn : Shuts(s, u)' => Shuts(s, u) /\ turn'[s].pc = turn[s].pc
  BY DEF Shuts, Quieter
<1>2. ASSUME NEW u \in Turn
      PROVE  /\ paused'.of = u => paused.of = u
             /\ turn'[u].pc \in Running =>
                  turn[u].pc \in Running /\ (turn[u].pc = "assistant" => turn'[u].pc = "assistant")
             /\ turn'[u].pc \in Early => turn[u].pc \in Early
             /\ drop'[u].pc \in Closing => drop'[u].pc = drop[u].pc
  BY Bounds DEF Quieter
<1>3. OnePlace'
  <2> SUFFICES ASSUME NEW u \in Turn PROVE Place(u)'
    BY DEF OnePlace
  <2>1. Place(u)
    BY DEF Single, OnePlace
  <2> QED BY <1>1, <1>2, <2>1 DEF Place
<1>5. Written'
  <2> SUFFICES ASSUME NEW i \in DOMAIN trans', NEW u \in Turn, trans'[i].of = u
               PROVE  Mark(u, trans[i].role)'
    BY DEF Written
  <2>1. i \in DOMAIN trans /\ trans'[i] = trans[i]
    BY DEF Quieter
  <2> PICK role : role = trans[i].role
    OBVIOUS
  <2>2. Mark(u, role)
    BY <2>1 DEF Single, Written
  <2>3. Mark(u, role)'
    <3>1. turn'[u].pc \notin Early /\ paused'.of # u
      BY <1>2, <2>2 DEF Mark
    <3>2. turn'[u].pc \in Running => turn'[u].pc = "assistant" /\ role = "user"
      BY <1>2, <2>2 DEF Mark
    <3>3. \A s \in Turn : Shuts(s, u)' => turn'[s].pc = "abandon assistant" /\ role = "user"
      BY <1>1, <2>2 DEF Mark
    <3>4. drop'[u].pc \in Closing => drop'[u].pc = "assistant" /\ role = "user"
      BY <1>2, <2>2 DEF Mark
    <3> QED BY <3>1, <3>2, <3>3, <3>4 DEF Mark
  <2> QED BY <2>1, <2>3 DEF Mark
<1>4. OneRecordEach'
  BY ZenonT(60) DEF Quieter, Single, OneRecordEach
<1> QED BY <1>3, <1>4, <1>5

\* Setting a turn's locals, by the phase they are set to.
LEMMA SettingPc ==
  ASSUME TypeOK, NEW t \in Turn, NEW rec, Set(t, rec)
  PROVE  turn'[t] = rec /\ \A u \in Turn : u # t => turn'[u] = turn[u]
BY DEF Set, TypeOK

\* A turn that moves without taking or giving its state is quiet.
LEMMA QuietTurn ==
  ASSUME Typed, NEW t \in Turn, \A u \in Turn : u # t => turn'[u] = turn[u],
         turn'[t].pc \in Running => turn[t].pc \in Running \ {"assistant"},
         turn'[t].pc \notin {"abandon user", "abandon assistant"},
         turn'[t].pc \in Early => turn[t].pc \in Early,
         \A u \in Turn : drop'[u].pc \in Closing => drop'[u].pc = drop[u].pc,
         paused' = paused \/ paused' = NoState,
         trans' = trans
  PROVE  Quieter
<1>1. paused'.of \in {paused.of, 0}
  BY NoStateIsState
<1>2. turn[t].pc # "assistant" \/ turn'[t].pc \notin Running
  OBVIOUS
<1> QED BY <1>1, <1>2 DEF Quieter

LEMMA FailingQuiet ==
  ASSUME Typed, NEW t \in Turn, End(t) \/ Returned(t),
         \A u \in Turn : drop'[u].pc \in Closing => drop'[u].pc = drop[u].pc,
         paused' = paused \/ paused' = NoState, trans' = trans
  PROVE  Quieter
<1>1. turn'[t].pc \in {"done", "row"} /\ \A u \in Turn : u # t => turn'[u] = turn[u]
  BY Returning DEF Typed
<1> QED BY <1>1, QuietTurn DEF Running, Early

LEMMA RunQuiet ==
  ASSUME Typed, NEW t \in Turn, Complete(t) \/ NextRound(t) \/ HoldOrExec(t) \/ Settle(t) \/ Settled(t)
  PROVE  Quieter
<1>0. turn[t] \in TurnRec /\ TypeOK
  BY TurnIs DEF Typed
<1>1. CASE Fails(t, "model") /\ Complete(t)
  BY <1>1, FailingQuiet DEF Fails, Complete, store
<1>2. CASE \E rec : Set(t, rec) /\ rec.pc \in {"user", "complete", "calls", "settle"}
  <2>1. turn'[t].pc \in {"user", "complete", "calls", "settle"}
        /\ \A u \in Turn : u # t => turn'[u] = turn[u]
    BY <1>0, <1>2, SettingPc
  <2>2. turn[t].pc \in Running \ {"assistant"}
    BY DEF Complete, NextRound, HoldOrExec, Settle, Settled, At, Running
  <2>3. drop' = drop /\ paused' = paused /\ trans' = trans
    BY DEF Complete, NextRound, HoldOrExec, Settle, Settled, store
  <2>4. turn'[t].pc \notin {"abandon user", "abandon assistant"} /\ turn'[t].pc \notin Early
    BY <2>1 DEF Early
  <2> QED BY <2>1, <2>2, <2>3, <2>4, QuietTurn
<1>3. Complete(t) /\ ~Fails(t, "model") =>
        \E rec : Set(t, rec) /\ rec.pc \in {"user", "complete", "calls", "settle"}
  <2> SUFFICES ASSUME Complete(t), ~Fails(t, "model")
               PROVE  \E rec : Set(t, rec) /\ rec.pc \in {"user", "complete", "calls", "settle"}
    OBVIOUS
  <2>1. PICK calls \in SUBSET Call :
                Set(t, [turn[t] EXCEPT
                     !.st = [turn[t].st EXCEPT !.n = Another(turn[t].st.n)],
                     !.todo = calls,
                     !.pc = IF calls = {} THEN "user" ELSE "calls"])
    BY DEF Complete
  <2> DEFINE pc == IF calls = {} THEN "user" ELSE "calls"
  <2>2. pc \in {"user", "calls"}
    OBVIOUS
  <2>3. [turn[t] EXCEPT !.st = [turn[t].st EXCEPT !.n = Another(turn[t].st.n)],
                        !.todo = calls, !.pc = pc].pc = pc
    BY <1>0 DEF TurnRec
  <2> QED BY <2>1, <2>2, <2>3
<1>4. NextRound(t) \/ Settled(t) =>
        \E rec : Set(t, rec) /\ rec.pc \in {"user", "complete", "calls", "settle"}
  <2>1. [turn[t] EXCEPT !.pc = "complete", !.round = turn[t].round + 1].pc = "complete"
    BY <1>0 DEF TurnRec
  <2>2. [turn[t] EXCEPT !.pc = "complete", !.yes = {}, !.no = {},
               !.st = [turn[t].st EXCEPT !.held = {}]].pc = "complete"
    BY <1>0 DEF TurnRec
  <2> QED BY <2>1, <2>2 DEF NextRound, Settled
<1>5. HoldOrExec(t) \/ Settle(t) =>
        \E rec : Set(t, rec) /\ rec.pc \in {"user", "complete", "calls", "settle"}
  <2>1. \A c : /\ [turn[t] EXCEPT !.todo = turn[t].todo \ {c}].pc = turn[t].pc
               /\ [turn[t] EXCEPT !.todo = turn[t].todo \ {c}, !.st = Using(t, c)].pc = turn[t].pc
               /\ [turn[t] EXCEPT !.todo = turn[t].todo \ {c},
                         !.st = [turn[t].st EXCEPT !.held = turn[t].st.held \cup {c}]].pc = turn[t].pc
    BY <1>0 DEF TurnRec
  <2>2. HoldOrExec(t) => \E c :
          \/ Set(t, [turn[t] EXCEPT !.todo = turn[t].todo \ {c},
                         !.st = [turn[t].st EXCEPT !.held = turn[t].st.held \cup {c}]])
          \/ Set(t, [turn[t] EXCEPT !.todo = turn[t].todo \ {c}, !.st = Using(t, c)])
    BY DEF HoldOrExec
  <2>3. Settle(t) => \E c :
          \/ Set(t, [turn[t] EXCEPT !.todo = turn[t].todo \ {c}])
          \/ Set(t, [turn[t] EXCEPT !.todo = turn[t].todo \ {c}, !.st = Using(t, c)])
    BY DEF Settle
  <2>4. HoldOrExec(t) \/ Settle(t) => turn[t].pc \in {"calls", "settle"}
    BY DEF HoldOrExec, Settle, At
  <2> QED BY <2>1, <2>2, <2>3, <2>4
<1> QED BY <1>1, <1>2, <1>3, <1>4, <1>5

LEMMA AskedQuiet ==
  ASSUME Typed, NEW t \in Turn, Allow(t) \/ Deny(t) \/ Unanswered(t)
  PROVE  Quieter
<1>0. turn[t] \in TurnRec /\ TypeOK
  BY TurnIs DEF Typed
<1>1. \A c, s : /\ Left(t, c).pc = turn[t].pc
                /\ [Left(t, c) EXCEPT !.yes = s].pc = turn[t].pc
                /\ [Left(t, c) EXCEPT !.no = s].pc = turn[t].pc
  BY <1>0 DEF TurnRec, Left
<1>2. turn[t].pc = "asked"
  BY DEF Allow, Deny, Unanswered, Asked, At
<1>3. \E c, s : \/ Set(t, Left(t, c)) \/ Set(t, [Left(t, c) EXCEPT !.yes = s])
                \/ Set(t, [Left(t, c) EXCEPT !.no = s])
  BY DEF Allow, Deny, Unanswered
<1>4. \E rec : Set(t, rec) /\ rec.pc = "asked"
  <2>1. PICK c, s : \/ Set(t, Left(t, c)) \/ Set(t, [Left(t, c) EXCEPT !.yes = s])
                    \/ Set(t, [Left(t, c) EXCEPT !.no = s])
    BY <1>3
  <2>2. CASE Set(t, Left(t, c))
    BY <2>2, <1>1, <1>2
  <2>3. CASE Set(t, [Left(t, c) EXCEPT !.yes = s])
    <3> DEFINE q == [Left(t, c) EXCEPT !.yes = s]
    <3>1. q.pc = "asked"
      BY <1>0, <1>2 DEF TurnRec, Left
    <3>2. Set(t, q)
      BY <2>3
    <3> HIDE DEF q
    <3> QED BY <3>1, <3>2
  <2>4. CASE Set(t, [Left(t, c) EXCEPT !.no = s])
    <3> DEFINE q == [Left(t, c) EXCEPT !.no = s]
    <3>1. q.pc = "asked"
      BY <1>0, <1>2 DEF TurnRec, Left
    <3>2. Set(t, q)
      BY <2>4
    <3> HIDE DEF q
    <3> QED BY <3>1, <3>2
  <2> QED BY <2>1, <2>2, <2>3, <2>4
<1>5. turn'[t].pc = "asked" /\ \A u \in Turn : u # t => turn'[u] = turn[u]
  BY <1>0, <1>4, SettingPc
<1>6. drop' = drop /\ paused' = paused /\ trans' = trans
  BY DEF Allow, Deny, Unanswered, store
<1> QED BY <1>5, <1>6, QuietTurn DEF Running, Early

LEMMA DroppedQuiet ==
  ASSUME Typed, NEW t \in Turn, Dropped(t)
  PROVE  Quieter
<1>1. \A u \in Turn : drop'[u].pc \in Closing => drop'[u].pc = drop[u].pc
  <2>1. /\ drop'[t] = [pc |-> "answer", st |-> turn[t].st]
        /\ \A u \in Turn : u # t => drop'[u] = drop[u]
    BY DropIs DEF Dropped
  <2> QED BY <2>1 DEF Closing
<1> QED BY <1>1, FailingQuiet DEF Dropped, store

LEMMA EndQuiet ==
  ASSUME Typed, NEW t \in Turn, PutTurn(t)
  PROVE  Quieter
BY FailingQuiet DEF PutTurn

LEMMA CommandsQuiet ==
  ASSUME Typed, \/ Stop \/ Undo \/ Restart \/ UNCHANGED vars
                \/ \E m \in Turn : Arrive(m)
  PROVE  Quieter
<1>0. \A t \in Turn : turn[t] \in TurnRec
  BY TurnIs DEF Typed
<1>1. CASE Stop
  <2>1. reg \in Turn
    BY <1>1 DEF Stop, Typed, TypeOK, Turn
  <2>2. [turn[reg] EXCEPT !.stop = TRUE].pc = turn[reg].pc
        /\ [turn[reg] EXCEPT !.stop = TRUE].old = turn[reg].old
    BY <1>0, <2>1 DEF TurnRec
  <2>3. \A u \in Turn : turn'[u].pc = turn[u].pc /\ turn'[u].old = turn[u].old
    BY <1>1, <2>1, <2>2, SettingPc DEF Stop, Typed, TypeOK
  <2>4. drop' = drop /\ paused' = paused /\ trans' = trans
    BY <1>1 DEF Stop, store
  <2> QED BY <2>3, <2>4 DEF Quieter
<1>2. CASE Undo
  <2>1. turn' = turn /\ drop' = drop /\ paused' = paused /\ trans' = Trim(trans)
    BY <1>2 DEF Undo, locals
  <2>2. \A i \in DOMAIN trans' : i \in DOMAIN trans /\ trans'[i] = trans[i]
    BY <2>1, Trimming DEF Typed, TypeOK
  <2>3. /\ \A u \in Turn : turn'[u].pc = turn[u].pc /\ turn'[u].old = turn[u].old
        /\ \A u \in Turn : drop'[u].pc = drop[u].pc
        /\ paused'.of = paused.of
    BY <2>1
  <2> QED BY <2>2, <2>3 DEF Quieter
<1>3. CASE Restart
  <2>1. \A u \in Turn : turn'[u].pc = "done" \/ (turn[u].pc = "idle" /\ turn'[u] = turn[u])
    BY <1>3, EndedIsTurn DEF Restart, At, Typed
  <2>2. \A u \in Turn : drop'[u].pc = "none"
    BY <1>3, IdleIsTurn DEF Restart
  <2>3. paused'.of = 0 /\ trans' = trans
    BY <1>3, NoStateIsState DEF Restart, store
  <2> QED BY <2>1, <2>2, <2>3 DEF Quieter, Running, Early, Closing
<1>4. CASE UNCHANGED vars
  BY <1>4 DEF vars, locals, store, Quieter
<1>5. CASE \E m \in Turn : Arrive(m)
  <2>1. PICK m \in Turn : Arrive(m)
    BY <1>5
  <2>2. turn[m].pc = "idle" /\ drop' = drop /\ paused' = paused /\ trans' = trans
    BY <2>1 DEF Arrive, At, store
  <2>3. turn'[m].pc = "begin" /\ \A u \in Turn : u # m => turn'[u].pc = turn[u].pc /\ turn'[u].old = turn[u].old
    <3>1. PICK q : turn' = [t \in Turn |->
         IF t = m THEN [IdleTurn EXCEPT !.pc = "begin", !.q = q]
         ELSE [turn[t] EXCEPT !.stop = turn[t].stop \/ t \in Cancelled,
                              !.dropped = turn[t].dropped \/ (At(t, "asked") /\ turn[t].todo # {})]]
      BY <2>1 DEF Arrive
    <3>2. [IdleTurn EXCEPT !.pc = "begin", !.q = q].pc = "begin"
      BY IdleIsTurn DEF TurnRec
    <3>3. \A u \in Turn : u # m =>
            turn'[u] = [turn[u] EXCEPT !.stop = turn[u].stop \/ u \in Cancelled,
                              !.dropped = turn[u].dropped \/ (At(u, "asked") /\ turn[u].todo # {})]
      BY <3>1
    <3>4. turn'[m].pc = "begin"
      BY <3>1, <3>2
    <3>5. ASSUME NEW u \in Turn, u # m
          PROVE  turn'[u].pc = turn[u].pc /\ turn'[u].old = turn[u].old
      <4>1. PICK a, b : turn'[u] = [turn[u] EXCEPT !.stop = a, !.dropped = b]
        BY <3>3, <3>5
      <4>2. turn[u] \in TurnRec
        BY <1>0
      <4> QED BY <4>1, <4>2 DEF TurnRec
    <3> QED BY <3>4, <3>5
  <2> QED BY <2>2, <2>3 DEF Quieter, Running, Early
<1> QED BY <1>1, <1>2, <1>3, <1>4, <1>5

\* What an entry more makes of the transcript.
LEMMA Appended ==
  ASSUME Single, NEW e \in Entry, trans' = Append(trans, e)
  PROVE  \A i \in DOMAIN trans' : \/ i \in DOMAIN trans /\ trans'[i] = trans[i]
                                 \/ trans'[i] = e
<1>1. trans \in Seq(Entry)
  BY DEF Single, Typed, TypeOK
<1>2. /\ DOMAIN trans = 1 .. Len(trans) /\ Len(trans) \in Nat
      /\ DOMAIN Append(trans, e) = 1 .. Len(trans) + 1
      /\ \A i \in 1 .. Len(trans) : Append(trans, e)[i] = trans[i]
      /\ Append(trans, e)[Len(trans) + 1] = e
  BY <1>1
<1> QED BY <1>2

LEMMA RecordedOnce ==
  ASSUME Single, NEW e \in Entry, trans' = Append(trans, e),
         \A i \in DOMAIN trans : trans[i].of = e.of => trans[i].role # e.role
  PROVE  OneRecordEach'
<1>1. trans \in Seq(Entry) /\ OneRecordEach
  BY DEF Single, Typed, TypeOK
<1>2. /\ DOMAIN trans = 1 .. Len(trans) /\ Len(trans) \in Nat
      /\ DOMAIN trans' = 1 .. Len(trans) + 1
      /\ \A i \in 1 .. Len(trans) : trans'[i] = trans[i]
      /\ trans'[Len(trans) + 1] = e
  BY <1>1
<1>3. \A i \in DOMAIN trans' : i = Len(trans) + 1 \/ i \in DOMAIN trans
  BY <1>2
<1> QED BY <1>1, <1>2, <1>3 DEF OneRecordEach

LEMMA SameRecord ==
  ASSUME Single, trans' = trans PROVE OneRecordEach'
BY DEF Single, OneRecordEach

\* The invariant of an entry in the old state, and of those in the new one.
LEMMA Marked ==
  ASSUME Single, NEW i \in DOMAIN trans, trans[i].of \in Turn
  PROVE  Mark(trans[i].of, trans[i].role)
BY DEF Single, Written

LEMMA MarkAll ==
  ASSUME Single, trans' = trans,
         \A u \in Turn, role \in {"user", "assistant"} : Mark(u, role) => Mark(u, role)'
  PROVE  Written'
<1>1. \A i \in DOMAIN trans : trans[i].role \in {"user", "assistant"}
  <2>1. \A i \in DOMAIN trans : trans[i] \in Entry
    BY DEF Single, Typed, TypeOK
  <2> QED BY <2>1 DEF Entry
<1> QED BY <1>1 DEF Single, Written

LEMMA MarkMore ==
  ASSUME Single, NEW e \in Entry, e.of \in Turn, trans' = Append(trans, e),
         \A u \in Turn, role \in {"user", "assistant"} : u # e.of => (Mark(u, role) => Mark(u, role)'),
         Mark(e.of, "user") => Mark(e.of, "user")',
         \A i \in DOMAIN trans : trans[i].of = e.of => trans[i].role = "user",
         Mark(e.of, e.role)'
  PROVE  Written'
<1>1. \A i \in DOMAIN trans : trans[i].role \in {"user", "assistant"}
  <2>1. \A i \in DOMAIN trans : trans[i] \in Entry
    BY DEF Single, Typed, TypeOK
  <2> QED BY <2>1 DEF Entry
<1> SUFFICES ASSUME NEW i \in DOMAIN trans', NEW u \in Turn, trans'[i].of = u
             PROVE  Mark(u, trans[i].role)'
  BY DEF Written
<1>2. CASE i \in DOMAIN trans /\ trans'[i] = trans[i]
  <2>1. Mark(u, trans[i].role) /\ trans[i].of = u
    BY <1>2, Marked
  <2> QED BY <1>1, <1>2, <2>1
<1>3. CASE trans'[i] = e
  BY <1>3
<1> QED BY <1>2, <1>3, Appended

LEMMA ReadSingle ==
  ASSUME Single, NEW t \in Turn, Read(t)
  PROVE  OnePlace' /\ Written' /\ OneRecordEach'
<1>0. Typed /\ TypeOK /\ OnePlace /\ turn[t] \in TurnRec /\ turn[t].pc = "read"
  BY TurnIs DEF Single, Typed, Read, At
<1>1. CASE Fails(t, "append")
  BY <1>0, <1>1, FailingQuiet, QuietKeeps DEF Fails, Read, store
<1>2. CASE Set(t, [turn[t] EXCEPT !.pc = "complete", !.st = [NoState EXCEPT !.of = t]])
  <2>1. [turn[t] EXCEPT !.pc = "complete", !.st = [NoState EXCEPT !.of = t]].pc = "complete"
    BY <1>0 DEF TurnRec
  <2>2. turn'[t].pc = "complete" /\ \A u \in Turn : u # t => turn'[u] = turn[u]
    BY <1>0, <1>2, <2>1, SettingPc
  <2>3. drop' = drop /\ paused' = paused /\ trans' = trans
    BY DEF Read, store
  <2>4. \A s, u \in Turn : Shuts(s, u)' => Shuts(s, u) /\ s # t /\ turn'[s] = turn[s]
    BY <2>2 DEF Shuts
  <2>5. \A u \in Turn : Place(u)'
    <3> SUFFICES ASSUME NEW u \in Turn PROVE Place(u)'
      OBVIOUS
    <3>1. Place(u)
      BY <1>0 DEF OnePlace
    <3>2. CASE u = t
      BY <1>0, <2>2, <2>3, <2>4, <3>1, <3>2 DEF Place, Early, Running
    <3>3. CASE u # t
      BY <2>2, <2>3, <2>4, <3>1, <3>3 DEF Place
    <3> QED BY <3>2, <3>3
  <2>6. \A u \in Turn, role \in {"user", "assistant"} : Mark(u, role) => Mark(u, role)'
    BY <1>0, <2>2, <2>3, <2>4 DEF Mark, Early, Running
  <2> QED BY <2>3, <2>5, <2>6, SameRecord, MarkAll DEF OnePlace
<1> QED BY <1>1, <1>2 DEF Read

LEMMA AbandonSingle ==
  ASSUME Single, NEW t \in Turn, Abandon(t)
  PROVE  OnePlace' /\ Written' /\ OneRecordEach'
<1>0. Typed /\ TypeOK /\ OnePlace /\ turn[t] \in TurnRec /\ turn[t].pc = "begin"
  BY TurnIs DEF Single, Typed, Abandon, At
<1>1. CASE Fails(t, "session") /\ UNCHANGED paused
  BY <1>0, <1>1, FailingQuiet, QuietKeeps DEF Fails, Abandon, store
<1>2. CASE paused' = NoState /\ paused = NoState /\ Go(t, "read")
  <2>1. [turn[t] EXCEPT !.pc = "read"].pc = "read"
    BY <1>0 DEF TurnRec
  <2>2. turn'[t].pc = "read" /\ \A u \in Turn : u # t => turn'[u] = turn[u]
    BY <1>0, <1>2, <2>1, SettingPc DEF Go
  <2>3. Quieter
    BY <1>0, <1>2, <2>2, QuietTurn DEF Abandon, store, Running, Early
  <2> QED BY <2>3, QuietKeeps
<1>3. CASE /\ paused' = NoState /\ paused # NoState
           /\ Set(t, [turn[t] EXCEPT !.pc = "abandon user", !.old = paused])
  <2>1. /\ [turn[t] EXCEPT !.pc = "abandon user", !.old = paused].pc = "abandon user"
        /\ [turn[t] EXCEPT !.pc = "abandon user", !.old = paused].old = paused
    BY <1>0 DEF TurnRec
  <2>2. /\ turn'[t].pc = "abandon user" /\ turn'[t].old = paused
        /\ \A u \in Turn : u # t => turn'[u] = turn[u]
    BY <1>0, <1>3, <2>1, SettingPc
  <2>3. drop' = drop /\ paused'.of \notin Turn /\ trans' = trans
    BY <1>3, NoStateIsState, Bounds DEF Abandon, store
  <2>4. \A s, u \in Turn : Shuts(s, u)' => \/ s = t /\ u = paused.of
                                           \/ Shuts(s, u) /\ s # t /\ turn'[s] = turn[s]
    BY <2>2 DEF Shuts
  <2>5. \A u \in Turn : Place(u)'
    <3> SUFFICES ASSUME NEW u \in Turn PROVE Place(u)'
      OBVIOUS
    <3>1. Place(u)
      BY <1>0 DEF OnePlace
    <3>2. turn'[u].pc \in Early <=> turn[u].pc \in Early
      BY <1>0, <2>2 DEF Early
    <3>3. turn'[u].pc \in Running <=> turn[u].pc \in Running
      BY <1>0, <2>2 DEF Running
    <3>4. CASE u = paused.of
      BY <2>3, <2>4, <3>1, <3>2, <3>3, <3>4 DEF Place
    <3>5. CASE u # paused.of
      BY <2>3, <2>4, <3>1, <3>2, <3>3, <3>5 DEF Place
    <3> QED BY <3>4, <3>5
  <2>6. \A u \in Turn, role \in {"user", "assistant"} : Mark(u, role) => Mark(u, role)'
    <3> SUFFICES ASSUME NEW u \in Turn, NEW role, Mark(u, role) PROVE Mark(u, role)'
      OBVIOUS
    <3>1. u # paused.of /\ u # t
      BY <1>0 DEF Mark, Early
    <3> QED BY <2>2, <2>3, <2>4, <3>1 DEF Mark
  <2> QED BY <2>3, <2>5, <2>6, SameRecord, MarkAll DEF OnePlace
<1> QED BY <1>1, <1>2, <1>3 DEF Abandon

LEMMA AbandonUserSingle ==
  ASSUME Single, NEW t \in Turn, AbandonUser(t)
  PROVE  OnePlace' /\ Written' /\ OneRecordEach'
<1>0. /\ Typed /\ TypeOK /\ OnePlace /\ turn[t] \in TurnRec /\ turn[t].pc = "abandon user"
      /\ turn[t].old \in State /\ turn[t].old.of \in Turn
  BY TurnIs DEF Single, Typed, AbandonUser, At, Phases, Own
<1>1. CASE Set(t, [turn[t] EXCEPT !.pc = "read", !.old = NoState]) /\ UNCHANGED trans
  <2>1. [turn[t] EXCEPT !.pc = "read", !.old = NoState].pc = "read"
    BY <1>0 DEF TurnRec
  <2>2. turn'[t].pc = "read" /\ \A u \in Turn : u # t => turn'[u] = turn[u]
    BY <1>0, <1>1, <2>1, SettingPc
  <2>3. Quieter
    BY <1>0, <1>1, <2>2, QuietTurn DEF AbandonUser, Running, Early
  <2> QED BY <2>3, QuietKeeps
<1>2. CASE trans' = Append(trans, User(turn[t].old)) /\ Go(t, "abandon assistant")
  <2> PICK e : e = User(turn[t].old)
    OBVIOUS
  <2>1. e \in Entry /\ e.of = turn[t].old.of /\ e.role = "user" /\ trans' = Append(trans, e)
    BY <1>0, <1>2, Entries
  <2>2. /\ [turn[t] EXCEPT !.pc = "abandon assistant"].pc = "abandon assistant"
        /\ [turn[t] EXCEPT !.pc = "abandon assistant"].old = turn[t].old
    BY <1>0 DEF TurnRec
  <2>3. /\ turn'[t].pc = "abandon assistant" /\ turn'[t].old = turn[t].old
        /\ \A u \in Turn : u # t => turn'[u] = turn[u]
    BY <1>0, <1>2, <2>2, SettingPc DEF Go
  <2>4. drop' = drop /\ paused' = paused
    BY DEF AbandonUser
  <2>5. /\ \A s, u \in Turn : Shuts(s, u)' => Shuts(s, u)
        /\ \A s \in Turn : turn'[s].pc = turn[s].pc \/ s = t
        /\ Shuts(t, e.of)
    BY <1>0, <2>1, <2>3 DEF Shuts
  <2>6. \A u \in Turn : /\ turn'[u].pc \in Early <=> turn[u].pc \in Early
                        /\ turn'[u].pc \in Running <=> turn[u].pc \in Running
    BY <1>0, <2>3 DEF Early, Running
  <2>7. \A u \in Turn : Place(u)'
    BY <1>0, <2>4, <2>5, <2>6 DEF OnePlace, Place
  <2>8. \A i \in DOMAIN trans : trans[i].of # e.of
    BY <1>0, <2>1, <2>5, Marked DEF Mark
  <2>9. \A u \in Turn, role \in {"user", "assistant"} : Mark(u, role) => Mark(u, role)'
    <3> SUFFICES ASSUME NEW u \in Turn, NEW role, Mark(u, role) PROVE Mark(u, role)'
      OBVIOUS
    <3>1. turn'[u].pc = turn[u].pc
      BY <1>0, <2>5 DEF Mark, Early
    <3>2. \A s \in Turn : Shuts(s, u)' => turn'[s].pc = "abandon assistant" /\ role = "user"
      BY <1>0, <2>3, <2>5 DEF Mark
    <3> QED BY <2>4, <2>6, <3>1, <3>2 DEF Mark
  <2>10. Mark(e.of, e.role)'
    <3>1. Place(e.of) /\ e.of \in Turn
      BY <1>0, <2>1 DEF OnePlace
    <3>2. /\ turn[e.of].pc \notin Early /\ turn[e.of].pc \notin Running
          /\ paused.of # e.of /\ drop[e.of].pc \notin Closing
          /\ \A s \in Turn : Shuts(s, e.of) => s = t
      BY <2>5, <3>1 DEF Place
    <3> QED BY <2>1, <2>3, <2>4, <2>5, <2>6, <3>1, <3>2 DEF Mark
  <2>11. Written'
    BY <1>0, <2>1, <2>8, <2>9, <2>10, MarkMore
  <2>12. OneRecordEach'
    BY <2>1, <2>8, RecordedOnce
  <2> QED BY <2>7, <2>11, <2>12 DEF OnePlace
<1> QED BY <1>1, <1>2 DEF AbandonUser

LEMMA AbandonAssistantSingle ==
  ASSUME Single, NEW t \in Turn, AbandonAssistant(t)
  PROVE  OnePlace' /\ Written' /\ OneRecordEach'
<1>0. /\ Typed /\ TypeOK /\ OnePlace /\ turn[t] \in TurnRec
      /\ turn[t].pc = "abandon assistant"
      /\ turn[t].old \in State /\ turn[t].old.of \in Turn
  BY TurnIs DEF Single, Typed, AbandonAssistant, At, Phases, Own
<1>1. [turn[t] EXCEPT !.pc = "read", !.old = NoState].pc = "read"
  BY <1>0 DEF TurnRec
<1>2. turn'[t].pc = "read" /\ \A u \in Turn : u # t => turn'[u] = turn[u]
  BY <1>0, <1>1, SettingPc DEF AbandonAssistant
<1>3. CASE UNCHANGED trans
  <2>1. Quieter
    BY <1>0, <1>2, <1>3, QuietTurn DEF AbandonAssistant, Running, Early
  <2> QED BY <2>1, QuietKeeps
<1>4. CASE trans' = Append(trans, Assistant(turn[t].old))
  <2> PICK e : e = Assistant(turn[t].old)
    OBVIOUS
  <2>1. e \in Entry /\ e.of = turn[t].old.of /\ e.role = "assistant" /\ trans' = Append(trans, e)
    BY <1>0, <1>4, Entries
  <2>2. drop' = drop /\ paused' = paused
    BY DEF AbandonAssistant
  <2>3. /\ \A s, u \in Turn : Shuts(s, u)' => Shuts(s, u) /\ s # t /\ turn'[s] = turn[s]
        /\ Shuts(t, e.of)
    BY <1>0, <1>2, <2>1 DEF Shuts
  <2>4. \A u \in Turn : /\ turn'[u].pc \in Early <=> turn[u].pc \in Early
                        /\ turn'[u].pc \in Running <=> turn[u].pc \in Running
                        /\ turn'[u].pc \in Running => turn'[u].pc = turn[u].pc
    BY <1>0, <1>2 DEF Early, Running
  <2>5. \A u \in Turn : Place(u)'
    BY <1>0, <2>2, <2>3, <2>4 DEF OnePlace, Place
  <2>6. \A i \in DOMAIN trans : trans[i].of = e.of => trans[i].role = "user"
    BY <1>0, <2>1, <2>3, Marked DEF Mark
  <2>7. \A u \in Turn, role \in {"user", "assistant"} : Mark(u, role) => Mark(u, role)'
    <3> SUFFICES ASSUME NEW u \in Turn, NEW role, Mark(u, role) PROVE Mark(u, role)'
      OBVIOUS
    <3>1. \A s \in Turn : Shuts(s, u)' => turn'[s].pc = "abandon assistant" /\ role = "user"
      BY <2>3 DEF Mark
    <3>2. turn'[u].pc \in Running => turn'[u].pc = "assistant" /\ role = "user"
      BY <2>4 DEF Mark
    <3> QED BY <2>2, <2>4, <3>1, <3>2 DEF Mark
  <2>8. Mark(e.of, e.role)'
    <3>1. Place(e.of) /\ e.of \in Turn
      BY <1>0, <2>1 DEF OnePlace
    <3>2. /\ turn[e.of].pc \notin Early /\ turn[e.of].pc \notin Running
          /\ paused.of # e.of /\ drop[e.of].pc \notin Closing
          /\ \A s \in Turn : Shuts(s, e.of) => s = t
      BY <2>3, <3>1 DEF Place
    <3> QED BY <2>2, <2>3, <2>4, <3>1, <3>2 DEF Mark
  <2>9. Written'
    BY <1>0, <2>1, <2>6, <2>7, <2>8, MarkMore
  <2>10. OneRecordEach'
    BY <2>1, <2>6, RecordedOnce
  <2> QED BY <2>5, <2>9, <2>10 DEF OnePlace
<1> QED BY <1>3, <1>4 DEF AbandonAssistant

LEMMA PauseSingle ==
  ASSUME Single, NEW t \in Turn, Pause(t)
  PROVE  OnePlace' /\ Written' /\ OneRecordEach'
<1>0. /\ Typed /\ TypeOK /\ OnePlace /\ turn[t] \in TurnRec /\ turn[t].pc = "calls"
      /\ turn[t].st.of = t
  BY TurnIs DEF Single, Typed, Pause, At, Phases, Own
<1>1. [turn[t] EXCEPT !.pc = "asked", !.todo = turn[t].st.held,
                       !.asks = turn[t].asks + 1, !.yes = {}, !.no = {}, !.dropped = FALSE].pc = "asked"
  BY <1>0 DEF TurnRec
<1>2. turn'[t].pc \in {"asked", "done", "row"} /\ \A u \in Turn : u # t => turn'[u] = turn[u]
  <2>1. CASE Returned(t)
    BY <1>0, <2>1, Returning
  <2>2. CASE Set(t, [turn[t] EXCEPT !.pc = "asked", !.todo = turn[t].st.held,
                       !.asks = turn[t].asks + 1, !.yes = {}, !.no = {}, !.dropped = FALSE])
    BY <1>0, <1>1, <2>2, SettingPc
  <2> QED BY <2>1, <2>2 DEF Pause
<1>3. drop' = drop /\ paused'.of = t /\ trans' = trans
  BY <1>0 DEF Pause, store
<1>4. \A s, u \in Turn : Shuts(s, u)' => Shuts(s, u) /\ s # t /\ turn'[s] = turn[s]
  BY <1>2 DEF Shuts
<1>5. \A u \in Turn : Place(u)'
  <2> SUFFICES ASSUME NEW u \in Turn PROVE Place(u)'
    OBVIOUS
  <2>1. Place(u)
    BY <1>0 DEF OnePlace
  <2>2. CASE u = t
    <3>1. turn'[t].pc \notin Running /\ turn'[t].pc \notin Early /\ turn[t].pc \in Running
      BY <1>0, <1>2 DEF Running, Early
    <3> QED BY <1>3, <1>4, <2>1, <2>2, <3>1 DEF Place
  <2>3. CASE u # t
    BY <1>2, <1>3, <1>4, <2>1, <2>3 DEF Place
  <2> QED BY <2>2, <2>3
<1>6. \A u \in Turn, role \in {"user", "assistant"} : Mark(u, role) => Mark(u, role)'
  <2> SUFFICES ASSUME NEW u \in Turn, NEW role, Mark(u, role) PROVE Mark(u, role)'
    OBVIOUS
  <2>1. u # t
    BY <1>0 DEF Mark, Running
  <2> QED BY <1>2, <1>3, <1>4, <2>1 DEF Mark
<1> QED BY <1>3, <1>5, <1>6, SameRecord, MarkAll DEF OnePlace

LEMMA AnswerSingle ==
  ASSUME Single, NEW t \in Turn, Answer(t)
  PROVE  OnePlace' /\ Written' /\ OneRecordEach'
<1>0. /\ Typed /\ TypeOK /\ OnePlace /\ turn[t] \in TurnRec /\ turn[t].pc = "asked"
      /\ turn[t].st.of = t
  BY TurnIs DEF Single, Typed, Answer, At, Phases, Own
<1>1. CASE Returned(t) /\ UNCHANGED paused
  BY <1>0, <1>1, FailingQuiet, QuietKeeps DEF Answer, store
<1>3. CASE /\ SameToken(turn[t].st) /\ paused' = NoState
           /\ Set(t, [turn[t] EXCEPT !.st = paused, !.round = 0,
                       !.todo = IF turn[t].yes \cup turn[t].no = {} THEN {} ELSE paused.held,
                       !.pc = IF turn[t].yes \cup turn[t].no = {} THEN "user" ELSE "settle"])
  <2> DEFINE pc == IF turn[t].yes \cup turn[t].no = {} THEN "user" ELSE "settle"
             todo == IF turn[t].yes \cup turn[t].no = {} THEN {} ELSE paused.held
             q == [turn[t] EXCEPT !.st = paused, !.round = 0, !.todo = todo, !.pc = pc]
  <2>1. pc \in {"user", "settle"} /\ Set(t, q)
    BY <1>3
  <2> HIDE DEF pc, todo
  <2>2. q.pc = pc
    BY <1>0 DEF TurnRec
  <2> HIDE DEF q
  <2>3. turn'[t].pc \in {"user", "settle"} /\ \A u \in Turn : u # t => turn'[u] = turn[u]
    BY <1>0, <2>1, <2>2, SettingPc
  <2>4. drop' = drop /\ paused'.of \notin Turn /\ trans' = trans /\ paused.of = t
    BY <1>0, <1>3, NoStateIsState, Bounds DEF Answer, store, SameToken
  <2>5. \A s, u \in Turn : Shuts(s, u)' => Shuts(s, u) /\ s # t /\ turn'[s] = turn[s]
    BY <2>3 DEF Shuts
  <2>6. \A u \in Turn : Place(u)'
    <3> SUFFICES ASSUME NEW u \in Turn PROVE Place(u)'
      OBVIOUS
    <3>1. Place(u)
      BY <1>0 DEF OnePlace
    <3>2. CASE u = t
      <4>1. turn'[t].pc \notin Early
        BY <2>3 DEF Early
      <4>2. drop[t].pc \notin Closing /\ \A s \in Turn : ~Shuts(s, t)
        BY <2>4, <3>1, <3>2 DEF Place
      <4> QED BY <2>4, <2>5, <3>2, <4>1, <4>2 DEF Place
    <3>3. CASE u # t
      BY <2>3, <2>4, <2>5, <3>1, <3>3 DEF Place
    <3> QED BY <3>2, <3>3
  <2>7. \A u \in Turn, role \in {"user", "assistant"} : Mark(u, role) => Mark(u, role)'
    <3> SUFFICES ASSUME NEW u \in Turn, NEW role, Mark(u, role) PROVE Mark(u, role)'
      OBVIOUS
    <3>1. u # t
      BY <2>4 DEF Mark
    <3> QED BY <2>3, <2>4, <2>5, <3>1 DEF Mark
  <2> QED BY <2>4, <2>6, <2>7, SameRecord, MarkAll DEF OnePlace
<1> QED BY <1>1, <1>3 DEF Answer

LEMMA WriteSingle ==
  ASSUME Single, NEW t \in Turn, WriteUser(t) \/ WriteAssistant(t)
  PROVE  OnePlace' /\ Written' /\ OneRecordEach'
<1>0. /\ Typed /\ TypeOK /\ OnePlace /\ turn[t] \in TurnRec
      /\ turn[t].st \in State /\ turn[t].st.of = t
  BY TurnIs DEF Single, Typed, WriteUser, WriteAssistant, At, Phases, Own
<1>1. drop' = drop /\ paused' = paused
  BY DEF WriteUser, WriteAssistant
<1>2. CASE Fails(t, "append") /\ UNCHANGED trans
  BY <1>0, <1>1, <1>2, FailingQuiet, QuietKeeps DEF Fails
<1>3. CASE turn[t].pc = "user" /\ trans' = Append(trans, User(turn[t].st)) /\ Go(t, "assistant")
  <2> PICK e : e = User(turn[t].st)
    OBVIOUS
  <2>1. e \in Entry /\ e.of = t /\ e.role = "user" /\ trans' = Append(trans, e)
    BY <1>0, <1>3, Entries
  <2>2. [turn[t] EXCEPT !.pc = "assistant"].pc = "assistant"
    BY <1>0 DEF TurnRec
  <2>3. turn'[t].pc = "assistant" /\ \A u \in Turn : u # t => turn'[u] = turn[u]
    BY <1>0, <1>3, <2>2, SettingPc DEF Go
  <2>4. \A s, u \in Turn : Shuts(s, u)' => Shuts(s, u) /\ s # t /\ turn'[s] = turn[s]
    BY <2>3 DEF Shuts
  <2>5. \A u \in Turn : /\ turn'[u].pc \in Early <=> turn[u].pc \in Early
                        /\ turn'[u].pc \in Running <=> turn[u].pc \in Running
    BY <1>3, <2>3 DEF Early, Running
  <2>6. \A u \in Turn : Place(u)'
    BY <1>0, <1>1, <2>4, <2>5 DEF OnePlace, Place
  <2>7. \A i \in DOMAIN trans : trans[i].of # e.of
    BY <1>3, <2>1, Marked DEF Mark, Running
  <2>8. \A u \in Turn, role \in {"user", "assistant"} : u # e.of => (Mark(u, role) => Mark(u, role)')
    <3> SUFFICES ASSUME NEW u \in Turn, NEW role, u # t, Mark(u, role) PROVE Mark(u, role)'
      BY <2>1
    <3> QED BY <1>1, <2>3, <2>4 DEF Mark
  <2>9. Mark(e.of, "user")'
    <3>1. Place(t)
      BY <1>0 DEF OnePlace
    <3>2. /\ turn[t].pc \notin Early /\ paused.of # t /\ drop[t].pc \notin Closing
          /\ \A s \in Turn : ~Shuts(s, t)
      BY <1>3, <3>1 DEF Place, Running, Early
    <3> QED BY <1>1, <2>1, <2>3, <2>4, <2>5, <3>2 DEF Mark
  <2>10. Written'
    BY <2>1, <2>7, <2>8, <2>9, MarkMore
  <2>11. OneRecordEach'
    BY <2>1, <2>7, RecordedOnce
  <2> QED BY <2>6, <2>10, <2>11 DEF OnePlace
<1>4. CASE turn[t].pc = "assistant" /\ trans' = Append(trans, Assistant(turn[t].st)) /\ Go(t, "row")
  <2> PICK e : e = Assistant(turn[t].st)
    OBVIOUS
  <2>1. e \in Entry /\ e.of = t /\ e.role = "assistant" /\ trans' = Append(trans, e)
    BY <1>0, <1>4, Entries
  <2>2. [turn[t] EXCEPT !.pc = "row"].pc = "row"
    BY <1>0 DEF TurnRec
  <2>3. turn'[t].pc = "row" /\ \A u \in Turn : u # t => turn'[u] = turn[u]
    BY <1>0, <1>4, <2>2, SettingPc DEF Go
  <2>4. \A s, u \in Turn : Shuts(s, u)' => Shuts(s, u) /\ s # t /\ turn'[s] = turn[s]
    BY <2>3 DEF Shuts
  <2>5. \A u \in Turn : /\ turn'[u].pc \in Early => turn[u].pc \in Early
                        /\ turn'[u].pc \in Running => turn[u].pc \in Running
    BY <1>4, <2>3 DEF Early, Running
  <2>6. \A u \in Turn : Place(u)'
    BY <1>0, <1>1, <2>4, <2>5 DEF OnePlace, Place
  <2>7. \A i \in DOMAIN trans : trans[i].of = e.of => trans[i].role = "user"
    <3> SUFFICES ASSUME NEW i \in DOMAIN trans, trans[i].of = e.of PROVE trans[i].role = "user"
      OBVIOUS
    <3>1. Mark(t, trans[i].role)
      BY <2>1, Marked
    <3>2. turn[t].pc \in Running
      BY <1>4 DEF Running
    <3> QED BY <3>1, <3>2 DEF Mark
  <2>8. \A u \in Turn, role \in {"user", "assistant"} : u # e.of => (Mark(u, role) => Mark(u, role)')
    <3> SUFFICES ASSUME NEW u \in Turn, NEW role, u # t, Mark(u, role) PROVE Mark(u, role)'
      BY <2>1
    <3> QED BY <1>1, <2>3, <2>4 DEF Mark
  <2>9. \A role : Mark(e.of, role)'
    <3> SUFFICES ASSUME NEW role PROVE Mark(e.of, role)'
      OBVIOUS
    <3>1. Place(t)
      BY <1>0 DEF OnePlace
    <3>2. /\ turn[t].pc \notin Early /\ paused.of # t /\ drop[t].pc \notin Closing
          /\ \A s \in Turn : ~Shuts(s, t)
      BY <1>4, <3>1 DEF Place, Running, Early
    <3>3. turn'[t].pc \notin Running /\ turn'[t].pc \notin Early
      BY <2>3 DEF Running, Early
    <3> QED BY <1>1, <2>1, <2>4, <3>2, <3>3 DEF Mark
  <2>10. Written'
    BY <2>1, <2>7, <2>8, <2>9, MarkMore
  <2>11. OneRecordEach'
    BY <2>1, <2>7, RecordedOnce
  <2> QED BY <2>6, <2>10, <2>11 DEF OnePlace
<1> QED BY <1>2, <1>3, <1>4 DEF WriteUser, WriteAssistant, At

LEMMA DropAnswerSingle ==
  ASSUME Single, NEW t \in Turn, DropAnswer(t)
  PROVE  OnePlace' /\ Written' /\ OneRecordEach'
<1>0. /\ Typed /\ TypeOK /\ OnePlace /\ drop \in [Turn -> DropRec]
      /\ drop[t].pc = "answer" /\ drop[t].st.of = t /\ turn' = turn /\ trans' = trans
  BY DropIs DEF Single, Typed, DropAnswer, Phases, Own, store
<1>1. \A s, u \in Turn : Shuts(s, u)' <=> Shuts(s, u)
  BY <1>0 DEF Shuts
<1>2. CASE drop' = [drop EXCEPT ![t] = NoDrop] /\ UNCHANGED paused
  <2>1. \A u \in Turn : drop'[u].pc \in Closing => drop'[u].pc = drop[u].pc
    BY <1>0, <1>2, IdleIsTurn DEF Closing
  <2>2. \A u \in Turn : turn'[u].pc = turn[u].pc /\ turn'[u].old = turn[u].old
    BY <1>0
  <2>3. Quieter
    BY <1>0, <1>2, <2>1, <2>2 DEF Quieter
  <2> QED BY <2>3, QuietKeeps
<1>3. CASE /\ SameToken(drop[t].st) /\ paused' = NoState
           /\ drop' = [drop EXCEPT ![t] = [pc |-> "user", st |-> paused]]
  <2>1. /\ paused.of = t /\ paused'.of \notin Turn /\ drop'[t].pc = "user"
        /\ \A u \in Turn : u # t => drop'[u] = drop[u]
    BY <1>0, <1>3, NoStateIsState, Bounds DEF SameToken
  <2>2. \A u \in Turn : Place(u)'
    <3> SUFFICES ASSUME NEW u \in Turn PROVE Place(u)'
      OBVIOUS
    <3>1. Place(u)
      BY <1>0 DEF OnePlace
    <3>2. CASE u = t
      <4>1. /\ turn[t].pc \notin Running /\ turn[t].pc \notin Early
            /\ \A s \in Turn : ~Shuts(s, t)
        BY <2>1, <3>1, <3>2 DEF Place
      <4> QED BY <1>0, <1>1, <2>1, <3>2, <4>1 DEF Place
    <3>3. CASE u # t
      BY <1>0, <1>1, <2>1, <3>1, <3>3 DEF Place
    <3> QED BY <3>2, <3>3
  <2>3. \A u \in Turn, role \in {"user", "assistant"} : Mark(u, role) => Mark(u, role)'
    <3> SUFFICES ASSUME NEW u \in Turn, NEW role, Mark(u, role) PROVE Mark(u, role)'
      OBVIOUS
    <3>1. u # t
      BY <2>1 DEF Mark
    <3> QED BY <1>0, <1>1, <2>1, <3>1 DEF Mark
  <2> QED BY <1>0, <2>2, <2>3, SameRecord, MarkAll DEF OnePlace
<1> QED BY <1>2, <1>3 DEF DropAnswer

LEMMA DropWriteSingle ==
  ASSUME Single, NEW t \in Turn, DropWrite(t)
  PROVE  OnePlace' /\ Written' /\ OneRecordEach'
<1>0. /\ Typed /\ TypeOK /\ OnePlace /\ drop \in [Turn -> DropRec]
      /\ drop[t].pc \in {"user", "assistant"} /\ drop[t].st.of = t /\ drop[t].st \in State
      /\ turn' = turn /\ paused' = paused
  BY DropIs DEF Single, Typed, DropWrite, Phases, Own
<1>1. \A s, u \in Turn : Shuts(s, u)' <=> Shuts(s, u)
  BY <1>0 DEF Shuts
<1>2. Place(t) /\ drop[t].pc \in Closing
  BY <1>0 DEF OnePlace, Closing
<1>3. /\ turn[t].pc \notin Running /\ turn[t].pc \notin Early /\ paused.of # t
      /\ \A s \in Turn : ~Shuts(s, t)
  BY <1>2 DEF Place
<1>4. CASE drop' = [drop EXCEPT ![t] = NoDrop] /\ UNCHANGED trans
  <2>1. \A u \in Turn : drop'[u].pc \in Closing => drop'[u].pc = drop[u].pc
    BY <1>0, <1>4, IdleIsTurn DEF Closing
  <2>2. \A u \in Turn : turn'[u].pc = turn[u].pc /\ turn'[u].old = turn[u].old
    BY <1>0
  <2>3. Quieter
    BY <1>0, <1>4, <2>1, <2>2 DEF Quieter
  <2> QED BY <2>3, QuietKeeps
<1>5. CASE /\ drop[t].pc = "user" /\ trans' = Append(trans, User(drop[t].st))
           /\ drop' = [drop EXCEPT ![t] = [drop[t] EXCEPT !.pc = "assistant"]]
  <2> PICK e : e = User(drop[t].st)
    OBVIOUS
  <2>1. e \in Entry /\ e.of = t /\ e.role = "user" /\ trans' = Append(trans, e)
    BY <1>0, <1>5, Entries
  <2>2. [drop[t] EXCEPT !.pc = "assistant"].pc = "assistant"
    BY <1>0 DEF DropRec
  <2>3. drop'[t].pc = "assistant" /\ \A u \in Turn : u # t => drop'[u] = drop[u]
    BY <1>0, <1>5, <2>2
  <2>4. \A u \in Turn : drop'[u].pc \in Closing => drop[u].pc \in Closing
    BY <1>2, <2>3
  <2>5. \A u \in Turn : Place(u)'
    BY <1>0, <1>1, <2>4 DEF OnePlace, Place
  <2>6. \A i \in DOMAIN trans : trans[i].of # e.of
    BY <1>2, <1>5, <2>1, Marked DEF Mark
  <2>7. \A u \in Turn, role \in {"user", "assistant"} : u # e.of => (Mark(u, role) => Mark(u, role)')
    <3> SUFFICES ASSUME NEW u \in Turn, NEW role, u # t, Mark(u, role) PROVE Mark(u, role)'
      BY <2>1
    <3> QED BY <1>0, <1>1, <2>3 DEF Mark
  <2>8. Mark(e.of, "user")'
    BY <1>0, <1>1, <1>3, <2>1, <2>3 DEF Mark
  <2>9. Written'
    BY <2>1, <2>6, <2>7, <2>8, MarkMore
  <2>10. OneRecordEach'
    BY <2>1, <2>6, RecordedOnce
  <2> QED BY <2>5, <2>9, <2>10 DEF OnePlace
<1>6. CASE /\ drop[t].pc = "assistant" /\ trans' = Append(trans, Assistant(drop[t].st))
           /\ drop' = [drop EXCEPT ![t] = NoDrop]
  <2> PICK e : e = Assistant(drop[t].st)
    OBVIOUS
  <2>1. e \in Entry /\ e.of = t /\ e.role = "assistant" /\ trans' = Append(trans, e)
    BY <1>0, <1>6, Entries
  <2>2. drop'[t].pc \notin Closing /\ \A u \in Turn : u # t => drop'[u] = drop[u]
    BY <1>0, <1>6, IdleIsTurn DEF Closing
  <2>3. \A u \in Turn : drop'[u].pc \in Closing => drop[u].pc \in Closing
    BY <1>2, <2>2
  <2>4. \A u \in Turn : Place(u)'
    BY <1>0, <1>1, <2>3 DEF OnePlace, Place
  <2>5. \A i \in DOMAIN trans : trans[i].of = e.of => trans[i].role = "user"
    BY <1>2, <2>1, Marked DEF Mark
  <2>6. \A u \in Turn, role \in {"user", "assistant"} : u # e.of => (Mark(u, role) => Mark(u, role)')
    <3> SUFFICES ASSUME NEW u \in Turn, NEW role, u # t, Mark(u, role) PROVE Mark(u, role)'
      BY <2>1
    <3> QED BY <1>0, <1>1, <2>2 DEF Mark
  <2>7. \A role : Mark(e.of, role)'
    BY <1>0, <1>1, <1>3, <2>1, <2>2 DEF Mark
  <2>8. Written'
    BY <2>1, <2>5, <2>6, <2>7, MarkMore
  <2>9. OneRecordEach'
    BY <2>1, <2>5, RecordedOnce
  <2> QED BY <2>4, <2>8, <2>9 DEF OnePlace
<1> QED BY <1>0, <1>4, <1>5, <1>6 DEF DropWrite

LEMMA SingleInit == Init => Single
<1> SUFFICES ASSUME Init PROVE Single
  OBVIOUS
<1>1. Typed
  BY TypeInit
<1>2. \A u \in Turn : turn[u].pc = "idle" /\ drop[u].pc = "none"
  BY IdleIsTurn DEF Init
<1>3. paused.of \notin Turn
  BY NoStateIsState, Bounds DEF Init
<1>4. OnePlace
  BY <1>2, <1>3 DEF OnePlace, Place, Running, Early, Closing, Shuts
<1>5. trans = <<>> \/ trans = <<Seed>>
  BY DEF Init
<1>6. \A i \in DOMAIN trans : i = 1 /\ trans[i] = Seed
  <2>1. CASE trans = <<>>
    BY <2>1
  <2>2. CASE trans = <<Seed>>
    BY <2>2
  <2> QED BY <1>5, <2>1, <2>2
<1>7. Seed.of \notin Turn
  BY Bounds DEF Seed
<1>8. Written
  BY <1>6, <1>7 DEF Written
<1>9. OneRecordEach
  BY <1>6 DEF OneRecordEach
<1> QED BY <1>1, <1>4, <1>8, <1>9 DEF Single

LEMMA SingleKeeps == Single /\ [Next]_vars => Single'
<1> SUFFICES ASSUME Single, [Next]_vars PROVE Single'
  OBVIOUS
<1>1. Typed /\ Typed'
  BY TypeKeeps DEF Single
<1>2. ASSUME NEW t \in Turn,
             \/ Abandon(t) \/ AbandonUser(t) \/ AbandonAssistant(t) \/ Read(t) \/ Pause(t)
             \/ Answer(t) \/ WriteUser(t) \/ WriteAssistant(t) \/ DropStep(t)
      PROVE  OnePlace' /\ Written' /\ OneRecordEach'
  BY <1>2, AbandonSingle, AbandonUserSingle, AbandonAssistantSingle, ReadSingle, PauseSingle,
     AnswerSingle, WriteSingle, DropAnswerSingle, DropWriteSingle DEF DropStep
<1>3. ASSUME NEW t \in Turn,
             \/ Complete(t) \/ HoldOrExec(t) \/ NextRound(t) \/ Settle(t) \/ Settled(t)
             \/ Allow(t) \/ Deny(t) \/ Unanswered(t) \/ Dropped(t) \/ PutTurn(t)
      PROVE  OnePlace' /\ Written' /\ OneRecordEach'
  BY <1>1, <1>3, RunQuiet, AskedQuiet, DroppedQuiet, EndQuiet, QuietKeeps
<1>4. ASSUME \/ Stop \/ Undo \/ Restart \/ UNCHANGED vars
             \/ \E m \in Turn : Arrive(m)
      PROVE  OnePlace' /\ Written' /\ OneRecordEach'
  <2>1. Quieter
    BY <1>1, <1>4, CommandsQuiet
  <2> QED BY <2>1, QuietKeeps
<1>5. \/ Stop \/ Undo \/ Restart \/ UNCHANGED vars
      \/ \E t \in Turn : Arrive(t) \/ TurnStep(t) \/ DropStep(t) \/ Allow(t) \/ Deny(t)
  BY DEF Next
<1>6. OnePlace' /\ Written' /\ OneRecordEach'
  BY <1>2, <1>3, <1>4, <1>5 DEF TurnStep
<1> QED BY <1>1, <1>6 DEF Single

\* A turn is recorded once, for any number of turns, questions, drops and
\* failures: its state is with its handler, in the map, with the turn that
\* closes it or with the goroutine that does, never with two of them, and
\* whoever has it writes each entry once.
THEOREM RecordedOnlyOnce == Spec => []OneRecordEach
<1>1. Spec => []Single
  BY SingleInit, SingleKeeps, PTL DEF Spec
<1>2. Single => OneRecordEach
  BY DEF Single
<1> QED BY <1>1, <1>2, PTL

-----------------------------------------------------------------------------
(* A tool that ran is on a list that ends in the transcript.               *)

\* Who has the list of tools with this one on it, or why nobody has to.
Carried(u, use) ==
  \/ u \in excused
  \/ paused.of = u /\ use \in paused.used
  \/ \E s \in Turn : Shuts(s, u) /\ use \in turn[s].old.used
  \/ drop[u].pc \in Closing /\ use \in drop[u].st.used
  \/ turn[u].pc \in Running /\ use \in turn[u].st.used
  \/ \E i \in DOMAIN trans : trans[i].of = u /\ use \in trans[i].used
RanCarried == \A call \in ran : Carried(call[1], call[2])

\* What is carried stays so.
CarriedOn == \A u \in Turn : \A use \in Made : Carried(u, use) => Carried(u, use)'

\* A handler goes on with its list, or its turn is excused, and nothing else
\* moves.
LEMMA TurnCarries ==
  ASSUME Typed, NEW t \in Turn, \A u \in Turn : u # t => turn'[u] = turn[u],
         drop' = drop, excused \subseteq excused', paused' = paused, trans' = trans,
         turn[t].pc \in Running =>
           \/ t \in excused'
           \/ turn'[t].pc \in Running /\ turn[t].st.used \subseteq turn'[t].st.used,
         \A u : Shuts(t, u) => u \in excused' \/ (Shuts(t, u)' /\ turn'[t].old = turn[t].old)
  PROVE  CarriedOn
<1> SUFFICES ASSUME NEW u \in Turn, NEW use \in Made, Carried(u, use)
             PROVE  Carried(u, use)'
  BY DEF CarriedOn
<1>1. CASE turn[u].pc \in Running /\ use \in turn[u].st.used
  BY <1>1 DEF Carried
<1>2. ASSUME NEW s \in Turn, Shuts(s, u), use \in turn[s].old.used
      PROVE  Carried(u, use)'
  <2>1. u \in excused' \/ (Shuts(s, u)' /\ turn'[s].old = turn[s].old)
    BY <1>2 DEF Shuts
  <2> QED BY <1>2, <2>1 DEF Carried
<1>3. CASE \/ u \in excused
           \/ paused.of = u /\ use \in paused.used
           \/ drop[u].pc \in Closing /\ use \in drop[u].st.used
           \/ \E i \in DOMAIN trans : trans[i].of = u /\ use \in trans[i].used
  BY <1>3 DEF Carried
<1> QED BY <1>1, <1>2, <1>3 DEF Carried

\* A handler that holds no state returns.
LEMMA AwayCarries ==
  ASSUME Typed, NEW t \in Turn, End(t) \/ Returned(t), drop' = drop,
         excused \subseteq excused', paused' = paused, trans' = trans,
         turn[t].pc \in Running => t \in excused',
         turn[t].pc \notin {"abandon user", "abandon assistant"}
  PROVE  CarriedOn
<1>1. \A u \in Turn : u # t => turn'[u] = turn[u]
  BY Returning DEF Typed
<1> QED BY <1>1, TurnCarries DEF Shuts

LEMMA FailCarries ==
  ASSUME Typed, NEW t \in Turn, NEW what, Fails(t, what), drop' = drop,
         paused' = paused, trans' = trans,
         turn[t].pc \notin {"abandon user", "abandon assistant"}
  PROVE  CarriedOn
<1>1. End(t) \/ Returned(t)
  BY DEF Fails
<1>2. t \in excused' /\ excused \subseteq excused'
  BY DEF Fails
<1> QED BY <1>1, <1>2, AwayCarries

LEMMA BeginCarries ==
  ASSUME Typed, NEW t \in Turn, Abandon(t)
  PROVE  CarriedOn
<1>0. Typed /\ TypeOK /\ turn[t] \in TurnRec /\ turn[t].pc = "begin" /\ drop' = drop
      /\ trans' = trans
  BY TurnIs DEF Typed, Abandon, At, store
<1>1. CASE Fails(t, "session") /\ UNCHANGED paused
  BY <1>0, <1>1, FailCarries
<1>2. CASE paused' = NoState /\ paused = NoState /\ Go(t, "read") /\ excused' = excused
  <2>1. \A u \in Turn : u # t => turn'[u] = turn[u]
    BY <1>0, <1>2, SettingPc DEF Go
  <2> QED BY <1>0, <1>2, <2>1, TurnCarries DEF Shuts, Running
<1>3. CASE /\ paused' = NoState /\ paused # NoState /\ excused' = excused
           /\ Set(t, [turn[t] EXCEPT !.pc = "abandon user", !.old = paused])
  <2>1. /\ [turn[t] EXCEPT !.pc = "abandon user", !.old = paused].pc = "abandon user"
        /\ [turn[t] EXCEPT !.pc = "abandon user", !.old = paused].old = paused
    BY <1>0 DEF TurnRec
  <2>2. /\ turn'[t].pc = "abandon user" /\ turn'[t].old = paused
        /\ \A u \in Turn : u # t => turn'[u] = turn[u]
    BY <1>0, <1>3, <2>1, SettingPc
  <2>3. \A s, u \in Turn : Shuts(s, u) => s # t /\ Shuts(s, u)' /\ turn'[s] = turn[s]
    BY <1>0, <2>2 DEF Shuts
  <2>4. \A u \in Turn : turn[u].pc \in Running => turn'[u] = turn[u]
    BY <1>0, <2>2 DEF Running
  <2>5. \A u \in Turn : paused.of = u => Shuts(t, u)'
    BY <2>2 DEF Shuts
  <2> SUFFICES ASSUME NEW u \in Turn, NEW use \in Made, Carried(u, use)
               PROVE  Carried(u, use)'
    BY DEF CarriedOn
  <2>6. CASE paused.of = u /\ use \in paused.used
    BY <2>2, <2>5, <2>6 DEF Carried
  <2>7. ASSUME NEW s \in Turn, Shuts(s, u), use \in turn[s].old.used
        PROVE  Carried(u, use)'
    BY <2>3, <2>7 DEF Carried
  <2>8. CASE \/ u \in excused
             \/ turn[u].pc \in Running /\ use \in turn[u].st.used
             \/ drop[u].pc \in Closing /\ use \in drop[u].st.used
             \/ \E i \in DOMAIN trans : trans[i].of = u /\ use \in trans[i].used
    BY <1>0, <1>3, <2>4, <2>8 DEF Carried
  <2> QED BY <2>6, <2>7, <2>8 DEF Carried
<1> QED BY <1>1, <1>2, <1>3 DEF Abandon

\* What an entry more leaves in the transcript, and what it adds.
LEMMA StaysOnRecord ==
  ASSUME Typed, NEW e \in Entry, trans' = Append(trans, e)
  PROVE  /\ \A u, use : (\E i \in DOMAIN trans : trans[i].of = u /\ use \in trans[i].used)
              => \E i \in DOMAIN trans' : trans'[i].of = u /\ use \in trans'[i].used
         /\ \E i \in DOMAIN trans' : trans'[i] = e
<1>1. trans \in Seq(Entry)
  BY DEF Typed, TypeOK
<1>2. /\ DOMAIN trans = 1 .. Len(trans) /\ Len(trans) \in Nat
      /\ DOMAIN trans' = 1 .. Len(trans) + 1
      /\ \A i \in 1 .. Len(trans) : trans'[i] = trans[i]
      /\ trans'[Len(trans) + 1] = e
  BY <1>1
<1>3. \A i \in DOMAIN trans : i \in DOMAIN trans' /\ trans'[i] = trans[i]
  BY <1>2
<1>4. Len(trans) + 1 \in DOMAIN trans'
  BY <1>2
<1> QED BY <1>2, <1>3, <1>4

LEMMA AbandonCarries ==
  ASSUME Typed, NEW t \in Turn, AbandonUser(t) \/ AbandonAssistant(t)
  PROVE  CarriedOn
<1>0. /\ Typed /\ TypeOK /\ turn[t] \in TurnRec /\ turn[t].old \in State
      /\ turn[t].pc \in {"abandon user", "abandon assistant"}
      /\ drop' = drop /\ paused' = paused /\ turn[t].old.of \in Turn
  BY TurnIs DEF Typed, AbandonUser, AbandonAssistant, At, Phases, Own
<1>1. \A u \in Turn : u # t => turn'[u] = turn[u]
  BY <1>0, SettingPc DEF AbandonUser, AbandonAssistant, Go
<1>2. CASE trans' = trans /\ excused' = excused \cup {turn[t].old.of}
  BY <1>0, <1>1, <1>2, TurnCarries DEF Shuts, Running
<1>3. ASSUME NEW e \in Entry, trans' = Append(trans, e), excused' = excused,
             \/ turn'[t].pc = "abandon assistant" /\ turn'[t].old = turn[t].old
             \/ e.of = turn[t].old.of /\ e.used = turn[t].old.used
      PROVE  CarriedOn
  <2>4. \A u \in Turn : turn[u].pc \in Running => turn'[u] = turn[u]
    BY <1>0, <1>1 DEF Running
  <2>5. \A u, use : (\E i \in DOMAIN trans : trans[i].of = u /\ use \in trans[i].used)
            => \E i \in DOMAIN trans' : trans'[i].of = u /\ use \in trans'[i].used
    BY <1>0, <1>3, StaysOnRecord
  <2>6. \E i \in DOMAIN trans' : trans'[i] = e
    BY <1>0, <1>3, StaysOnRecord
  <2> SUFFICES ASSUME NEW u \in Turn, NEW use \in Made, Carried(u, use)
               PROVE  Carried(u, use)'
    BY DEF CarriedOn
  <2>7. ASSUME NEW s \in Turn, s # t, Shuts(s, u), use \in turn[s].old.used
        PROVE  Carried(u, use)'
    <3>1. Shuts(s, u)' /\ turn'[s] = turn[s]
      BY <1>1, <2>7 DEF Shuts
    <3> QED BY <2>7, <3>1 DEF Carried
  <2>8. CASE Shuts(t, u) /\ use \in turn[t].old.used
    <3>1. CASE turn'[t].pc = "abandon assistant" /\ turn'[t].old = turn[t].old
      <4>1. Shuts(t, u)'
        BY <2>8, <3>1 DEF Shuts
      <4> QED BY <2>8, <3>1, <4>1 DEF Carried
    <3>2. CASE e.of = turn[t].old.of /\ e.used = turn[t].old.used
      BY <2>6, <2>8, <3>2 DEF Carried, Shuts
    <3> QED BY <1>3, <3>1, <3>2
  <2>9. CASE \/ u \in excused
             \/ turn[u].pc \in Running /\ use \in turn[u].st.used
             \/ drop[u].pc \in Closing /\ use \in drop[u].st.used
             \/ paused.of = u /\ use \in paused.used
    BY <1>0, <1>3, <2>4, <2>9 DEF Carried
  <2>10. CASE \E i \in DOMAIN trans : trans[i].of = u /\ use \in trans[i].used
    BY <2>5, <2>10 DEF Carried
  <2> QED BY <2>7, <2>8, <2>9, <2>10 DEF Carried
<1>4. CASE /\ trans' = Append(trans, User(turn[t].old)) /\ excused' = excused
           /\ Go(t, "abandon assistant")
  <2>1. turn'[t] = [turn[t] EXCEPT !.pc = "abandon assistant"]
    BY <1>0, <1>4, SettingPc DEF Go
  <2>2. turn'[t].pc = "abandon assistant" /\ turn'[t].old = turn[t].old
    BY <1>0, <2>1 DEF TurnRec
  <2> QED BY <1>0, <1>3, <1>4, <2>2, Entries
<1>5. CASE trans' = Append(trans, Assistant(turn[t].old)) /\ excused' = excused
  <2>1. Assistant(turn[t].old).used = turn[t].old.used
    BY DEF Assistant
  <2> QED BY <1>0, <1>3, <1>5, <2>1, Entries
<1> QED BY <1>2, <1>4, <1>5 DEF AbandonUser, AbandonAssistant

LEMMA ReadCarries ==
  ASSUME Typed, NEW t \in Turn, Read(t)
  PROVE  CarriedOn
<1>0. Typed /\ TypeOK /\ turn[t].pc = "read" /\ drop' = drop /\ paused' = paused /\ trans' = trans
  BY DEF Typed, Read, At, store
<1>1. CASE Fails(t, "append")
  BY <1>0, <1>1, FailCarries
<1>2. CASE /\ Set(t, [turn[t] EXCEPT !.pc = "complete", !.st = [NoState EXCEPT !.of = t]])
           /\ excused' = excused
  BY <1>0, <1>2, SettingPc, TurnCarries DEF Shuts, Running
<1> QED BY <1>1, <1>2 DEF Read

\* The steps of the loop keep the list; one that runs a call puts it there.
LEMMA LoopCarries ==
  ASSUME Typed, NEW t \in Turn,
         Complete(t) \/ NextRound(t) \/ Settled(t) \/ HoldOrExec(t) \/ Settle(t)
  PROVE  /\ CarriedOn
         /\ \A call \in ran' : call \in ran \/ Carried(call[1], call[2])'
<1>0. /\ Typed /\ TypeOK /\ turn[t] \in TurnRec /\ turn[t].st \in State /\ turn[t].st.of = t
      /\ turn[t].pc \in Running \ Closing
      /\ drop' = drop /\ paused' = paused /\ trans' = trans
  BY TurnIs DEF Typed, Complete, NextRound, Settled, HoldOrExec, Settle, At, store, Phases,
     Own, Running, Closing
<1>1. CASE Complete(t) /\ Fails(t, "model")
  <2>1. turn[t].pc \notin {"abandon user", "abandon assistant"}
    BY <1>0 DEF Running
  <2> QED BY <1>0, <1>1, <2>1, FailCarries DEF Complete
<1>2. ASSUME NEW rec, Set(t, rec), excused' = excused, rec.pc \in Running,
             turn[t].st.used \subseteq rec.st.used
      PROVE  CarriedOn /\ turn'[t] = rec
  <2>1. turn'[t] = rec /\ \A u \in Turn : u # t => turn'[u] = turn[u]
    BY <1>0, <1>2, SettingPc
  <2>2. \A u : ~Shuts(t, u)
    BY <1>0 DEF Shuts, Running
  <2> QED BY <1>0, <1>2, <2>1, <2>2, TurnCarries
<1>3. CASE Complete(t) /\ ~Fails(t, "model")
  <2>1. PICK calls \in SUBSET Call :
                Set(t, [turn[t] EXCEPT
                     !.st = [turn[t].st EXCEPT !.n = Another(turn[t].st.n)],
                     !.todo = calls,
                     !.pc = IF calls = {} THEN "user" ELSE "calls"])
    BY <1>3 DEF Complete
  <2> DEFINE pc == IF calls = {} THEN "user" ELSE "calls"
             rec == [turn[t] EXCEPT !.st = [turn[t].st EXCEPT !.n = Another(turn[t].st.n)],
                        !.todo = calls, !.pc = pc]
  <2>2. pc \in {"user", "calls"} /\ Set(t, rec)
    BY <2>1
  <2> HIDE DEF pc
  <2>3. rec.pc = pc /\ rec.st = [turn[t].st EXCEPT !.n = Another(turn[t].st.n)]
    BY <1>0 DEF TurnRec
  <2>4. rec.st.used = turn[t].st.used
    BY <1>0, <2>3 DEF State
  <2> HIDE DEF rec
  <2>5. rec.pc \in Running
    BY <2>2, <2>3 DEF Running
  <2>6. excused' = excused /\ ran' = ran
    BY <1>3 DEF Complete
  <2> QED BY <1>2, <2>2, <2>4, <2>5, <2>6
<1>4. CASE NextRound(t)
  <2> DEFINE rec == [turn[t] EXCEPT !.pc = "complete", !.round = turn[t].round + 1]
  <2>1. rec.pc = "complete" /\ rec.st = turn[t].st /\ Set(t, rec)
    BY <1>0, <1>4 DEF TurnRec, NextRound
  <2> HIDE DEF rec
  <2> QED BY <1>2, <1>4, <2>1 DEF NextRound, history, Running
<1>5. CASE Settled(t)
  <2> DEFINE rec == [turn[t] EXCEPT !.pc = "complete", !.yes = {}, !.no = {},
               !.st = [turn[t].st EXCEPT !.held = {}]]
  <2>1. rec.pc = "complete" /\ rec.st = [turn[t].st EXCEPT !.held = {}] /\ Set(t, rec)
    BY <1>0, <1>5 DEF TurnRec, Settled
  <2>2. rec.st.used = turn[t].st.used
    BY <1>0, <2>1 DEF State
  <2> HIDE DEF rec
  <2> QED BY <1>2, <1>5, <2>1, <2>2 DEF Settled, history, Running
<1>6. ASSUME NEW c \in Call, excused' = excused, Exec(t, c), turn[t].st.of = t,
             Set(t, [turn[t] EXCEPT !.todo = turn[t].todo \ {c}, !.st = Using(t, c)])
      PROVE  /\ CarriedOn
             /\ \A call \in ran' : call \in ran \/ Carried(call[1], call[2])'
  <2> DEFINE rec == [turn[t] EXCEPT !.todo = turn[t].todo \ {c}, !.st = Using(t, c)]
  <2>1. rec.pc = turn[t].pc /\ rec.st = Using(t, c) /\ Set(t, rec)
    BY <1>0, <1>6 DEF TurnRec
  <2>2. rec.st.used = turn[t].st.used \cup {<<turn[t].st.n, c>>}
    BY <1>0, <2>1 DEF State, Using
  <2> HIDE DEF rec
  <2>3. CarriedOn /\ turn'[t] = rec
    BY <1>0, <1>2, <1>6, <2>1, <2>2
  <2>4. turn'[t].pc \in Running /\ <<turn[t].st.n, c>> \in turn'[t].st.used
    BY <1>0, <2>1, <2>2, <2>3
  <2>5. \A call \in ran' : call \in ran \/ (call[1] = t /\ call[2] = <<turn[t].st.n, c>>)
    BY <1>6 DEF Exec
  <2> QED BY <2>3, <2>4, <2>5 DEF Carried
<1>7. ASSUME NEW c, ran' = ran, excused' = excused,
             \/ Set(t, [turn[t] EXCEPT !.todo = turn[t].todo \ {c}])
             \/ Set(t, [turn[t] EXCEPT !.todo = turn[t].todo \ {c},
                         !.st = [turn[t].st EXCEPT !.held = turn[t].st.held \cup {c}]])
      PROVE  CarriedOn
  <2>1. CASE Set(t, [turn[t] EXCEPT !.todo = turn[t].todo \ {c}])
    <3> DEFINE rec == [turn[t] EXCEPT !.todo = turn[t].todo \ {c}]
    <3>1. rec.pc = turn[t].pc /\ rec.st = turn[t].st /\ Set(t, rec)
      BY <1>0, <2>1 DEF TurnRec
    <3> HIDE DEF rec
    <3> QED BY <1>0, <1>2, <1>7, <3>1
  <2>2. CASE Set(t, [turn[t] EXCEPT !.todo = turn[t].todo \ {c},
                         !.st = [turn[t].st EXCEPT !.held = turn[t].st.held \cup {c}]])
    <3> DEFINE rec == [turn[t] EXCEPT !.todo = turn[t].todo \ {c},
                         !.st = [turn[t].st EXCEPT !.held = turn[t].st.held \cup {c}]]
    <3>1. rec.pc = turn[t].pc /\ Set(t, rec)
          /\ rec.st = [turn[t].st EXCEPT !.held = turn[t].st.held \cup {c}]
      BY <1>0, <2>2 DEF TurnRec
    <3>2. rec.st.used = turn[t].st.used
      BY <1>0, <3>1 DEF State
    <3> HIDE DEF rec
    <3> QED BY <1>0, <1>2, <1>7, <3>1, <3>2
  <2> QED BY <1>7, <2>1, <2>2
<1>8. CASE HoldOrExec(t)
  <2>1. PICK c \in Call :
       IF c \in Confirm
       THEN /\ Set(t, [turn[t] EXCEPT !.todo = turn[t].todo \ {c},
                         !.st = [turn[t].st EXCEPT !.held = turn[t].st.held \cup {c}]])
            /\ UNCHANGED ran
       ELSE /\ Exec(t, c)
            /\ Set(t, [turn[t] EXCEPT !.todo = turn[t].todo \ {c}, !.st = Using(t, c)])
    BY <1>8 DEF HoldOrExec
  <2>2. excused' = excused
    BY <1>8 DEF HoldOrExec
  <2> QED BY <1>0, <1>6, <1>7, <2>1, <2>2
<1>9. CASE Settle(t)
  <2>1. PICK c \in Call :
       IF c \in turn[t].yes
       THEN /\ Exec(t, c)
            /\ Set(t, [turn[t] EXCEPT !.todo = turn[t].todo \ {c}, !.st = Using(t, c)])
       ELSE /\ Set(t, [turn[t] EXCEPT !.todo = turn[t].todo \ {c}])
            /\ UNCHANGED ran
    BY <1>9 DEF Settle
  <2>2. excused' = excused
    BY <1>9 DEF Settle
  <2> QED BY <1>0, <1>6, <1>7, <2>1, <2>2
<1> QED BY <1>1, <1>3, <1>4, <1>5, <1>8, <1>9 DEF Complete

\* Nobody who has a list moves.
LEMMA StillCarries ==
  ASSUME Typed,
         \A u \in Turn : turn[u].pc \in Running => turn'[u].pc = turn[u].pc /\ turn'[u].st = turn[u].st,
         \A s \in Turn : turn[s].pc \in {"abandon user", "abandon assistant"} =>
           turn'[s].pc = turn[s].pc /\ turn'[s].old = turn[s].old,
         \A u \in Turn : drop[u].pc \in Closing => drop'[u] = drop[u],
         excused \subseteq excused', paused' = paused, trans' = trans
  PROVE  CarriedOn
<1> SUFFICES ASSUME NEW u \in Turn, NEW use \in Made, Carried(u, use)
             PROVE  Carried(u, use)'
  BY DEF CarriedOn
<1>1. ASSUME NEW s \in Turn, Shuts(s, u), use \in turn[s].old.used
      PROVE  Carried(u, use)'
  <2>1. Shuts(s, u)' /\ turn'[s].old = turn[s].old
    BY <1>1 DEF Shuts
  <2> QED BY <1>1, <2>1 DEF Carried
<1>2. CASE turn[u].pc \in Running /\ use \in turn[u].st.used
  BY <1>2 DEF Carried
<1>3. CASE \/ u \in excused
           \/ paused.of = u /\ use \in paused.used
           \/ drop[u].pc \in Closing /\ use \in drop[u].st.used
  BY <1>3 DEF Carried
<1>4. CASE \E i \in DOMAIN trans : trans[i].of = u /\ use \in trans[i].used
  BY <1>4 DEF Carried
<1> QED BY <1>1, <1>2, <1>3, <1>4 DEF Carried

\* What the goroutine closes is no handler's any more.
DropDone == \A t \in Turn : drop[t].pc # "none" => turn[t].pc = "done"

\* A step of a turn is a step of that turn, and of one that has not ended.
LEMMA OneTurnSteps ==
  ASSUME Typed, NEW t \in Turn, TurnStep(t) \/ Allow(t) \/ Deny(t)
  PROVE  turn[t].pc # "done" /\ \A u \in Turn : u # t => turn'[u] = turn[u]
<1>1. turn[t].pc # "done"
  BY DEF TurnStep, Abandon, AbandonUser, AbandonAssistant, Read, Complete, HoldOrExec, NextRound,
     Pause, Unanswered, Dropped, Answer, Settle, Settled, WriteUser, WriteAssistant, PutTurn,
     Allow, Deny, Asked, At
<1>2. \A rec : Set(t, rec) => \A u \in Turn : u # t => turn'[u] = turn[u]
  BY SettingPc DEF Typed
<1>3. End(t) \/ Returned(t) => \A u \in Turn : u # t => turn'[u] = turn[u]
  BY Returning DEF Typed
<1>4. \A what : Fails(t, what) => End(t) \/ Returned(t)
  BY DEF Fails
<1>5. CASE Abandon(t) \/ AbandonUser(t) \/ AbandonAssistant(t) \/ Read(t)
  BY <1>1, <1>2, <1>3, <1>4, <1>5 DEF Abandon, AbandonUser, AbandonAssistant, Read, Go
<1>6. CASE Complete(t) \/ HoldOrExec(t) \/ NextRound(t) \/ Pause(t)
  <2>1. CASE Complete(t)
    BY <1>1, <1>2, <1>3, <1>4, <2>1 DEF Complete
  <2>2. CASE HoldOrExec(t)
    BY <1>1, <1>2, <2>2 DEF HoldOrExec
  <2>3. CASE NextRound(t)
    BY <1>1, <1>2, <2>3 DEF NextRound
  <2>4. CASE Pause(t)
    BY <1>1, <1>2, <1>3, <2>4 DEF Pause
  <2> QED BY <1>6, <2>1, <2>2, <2>3, <2>4
<1>7. CASE Unanswered(t) \/ Dropped(t) \/ Answer(t) \/ Settle(t) \/ Settled(t)
  <2>1. CASE Unanswered(t) \/ Settled(t)
    BY <1>1, <1>2, <2>1 DEF Unanswered, Settled
  <2>2. CASE Dropped(t)
    BY <1>1, <1>3, <2>2 DEF Dropped
  <2>3. CASE Answer(t)
    BY <1>1, <1>2, <1>3, <2>3 DEF Answer
  <2>4. CASE Settle(t)
    BY <1>1, <1>2, <2>4 DEF Settle
  <2> QED BY <1>7, <2>1, <2>2, <2>3, <2>4
<1>8. CASE WriteUser(t) \/ WriteAssistant(t) \/ PutTurn(t)
  BY <1>1, <1>2, <1>3, <1>4, <1>8 DEF WriteUser, WriteAssistant, PutTurn, Go
<1>9. CASE Allow(t) \/ Deny(t)
  BY <1>1, <1>2, <1>9 DEF Allow, Deny
<1> QED BY <1>5, <1>6, <1>7, <1>8, <1>9, SMTT(30) DEF TurnStep

LEMMA AskedCarries ==
  ASSUME Typed, DropDone, NEW t \in Turn,
         Allow(t) \/ Deny(t) \/ Unanswered(t) \/ Dropped(t) \/ PutTurn(t)
  PROVE  CarriedOn
<1>1. /\ turn[t].pc \notin Running /\ turn[t].pc \notin {"abandon user", "abandon assistant"}
      /\ excused' = excused /\ paused' = paused /\ trans' = trans
  BY DEF Allow, Deny, Unanswered, Dropped, PutTurn, Asked, At, Running, store, history
<1>2. turn[t].pc # "done" /\ \A u \in Turn : u # t => turn'[u] = turn[u]
  BY OneTurnSteps DEF TurnStep
<1>3. \A u \in Turn : drop[u].pc \in Closing => drop'[u] = drop[u]
  <2>1. CASE Dropped(t)
    <3>1. \A u \in Turn : u # t => drop'[u] = drop[u]
      BY <2>1, DropIs DEF Dropped
    <3>2. drop[t].pc \notin Closing
      BY <1>2 DEF DropDone, Closing
    <3> QED BY <3>1, <3>2
  <2>2. CASE ~Dropped(t)
    BY <2>2 DEF Allow, Deny, Unanswered, PutTurn
  <2> QED BY <2>1, <2>2
<1> QED BY <1>1, <1>2, <1>3, StillCarries

\* The list goes into the map, and out of it.
LEMMA PauseCarries ==
  ASSUME Typed, NEW t \in Turn, Pause(t)
  PROVE  CarriedOn
<1>0. /\ turn[t].pc = "calls" /\ turn[t].st.of = t /\ paused' = turn[t].st
      /\ drop' = drop /\ trans' = trans /\ excused' = excused \cup {paused.of}
  BY DEF Typed, Pause, At, Phases, Own, store
<1>1. \A u \in Turn : u # t => turn'[u] = turn[u]
  BY OneTurnSteps DEF TurnStep
<1> SUFFICES ASSUME NEW u \in Turn, NEW use \in Made, Carried(u, use)
             PROVE  Carried(u, use)'
  BY DEF CarriedOn
<1>2. CASE turn[u].pc \in Running /\ use \in turn[u].st.used
  <2>1. CASE u = t
    BY <1>0, <1>2, <2>1 DEF Carried
  <2>2. CASE u # t
    BY <1>1, <1>2, <2>2 DEF Carried
  <2> QED BY <2>1, <2>2
<1>3. ASSUME NEW s \in Turn, Shuts(s, u), use \in turn[s].old.used
      PROVE  Carried(u, use)'
  <2>1. Shuts(s, u)' /\ turn'[s] = turn[s]
    BY <1>0, <1>1, <1>3 DEF Shuts
  <2> QED BY <1>3, <2>1 DEF Carried
<1>4. CASE \/ u \in excused
           \/ paused.of = u /\ use \in paused.used
           \/ drop[u].pc \in Closing /\ use \in drop[u].st.used
  BY <1>0, <1>4 DEF Carried
<1>5. CASE \E i \in DOMAIN trans : trans[i].of = u /\ use \in trans[i].used
  BY <1>0, <1>5 DEF Carried
<1> QED BY <1>2, <1>3, <1>4, <1>5 DEF Carried

LEMMA AnswerCarries ==
  ASSUME Typed, NEW t \in Turn, Answer(t)
  PROVE  CarriedOn
<1>0. /\ Typed /\ TypeOK /\ turn[t] \in TurnRec /\ turn[t].pc = "asked" /\ turn[t].st.of = t
      /\ drop' = drop /\ trans' = trans /\ excused' = excused
  BY TurnIs DEF Typed, Answer, At, Phases, Own, store, history
<1>1. \A u \in Turn : u # t => turn'[u] = turn[u]
  BY OneTurnSteps DEF TurnStep
<1>2. CASE Returned(t) /\ UNCHANGED paused
  BY <1>0, <1>2, AwayCarries DEF Running
<1>3. CASE /\ SameToken(turn[t].st) /\ paused' = NoState
           /\ Set(t, [turn[t] EXCEPT !.st = paused, !.round = 0,
                       !.todo = IF turn[t].yes \cup turn[t].no = {} THEN {} ELSE paused.held,
                       !.pc = IF turn[t].yes \cup turn[t].no = {} THEN "user" ELSE "settle"])
  <2> DEFINE pc == IF turn[t].yes \cup turn[t].no = {} THEN "user" ELSE "settle"
             todo == IF turn[t].yes \cup turn[t].no = {} THEN {} ELSE paused.held
             q == [turn[t] EXCEPT !.st = paused, !.round = 0, !.todo = todo, !.pc = pc]
  <2>1. pc \in {"user", "settle"} /\ Set(t, q)
    BY <1>3
  <2> HIDE DEF pc, todo
  <2>2. q.pc = pc /\ q.st = paused
    BY <1>0 DEF TurnRec
  <2> HIDE DEF q
  <2>3. turn'[t].pc \in Running /\ turn'[t].st = paused /\ paused.of = t
    BY <1>0, <1>3, <2>1, <2>2, SettingPc DEF Running, SameToken
  <2> SUFFICES ASSUME NEW u \in Turn, NEW use \in Made, Carried(u, use)
               PROVE  Carried(u, use)'
    BY DEF CarriedOn
  <2>4. CASE paused.of = u /\ use \in paused.used
    BY <2>3, <2>4 DEF Carried
  <2>5. CASE turn[u].pc \in Running /\ use \in turn[u].st.used
    <3>1. turn'[u] = turn[u]
      BY <1>0, <1>1, <2>5 DEF Running
    <3> QED BY <2>5, <3>1 DEF Carried
  <2>6. ASSUME NEW s \in Turn, Shuts(s, u), use \in turn[s].old.used
        PROVE  Carried(u, use)'
    <3>1. Shuts(s, u)' /\ turn'[s] = turn[s]
      BY <1>0, <1>1, <2>6 DEF Shuts
    <3> QED BY <2>6, <3>1 DEF Carried
  <2>7. CASE u \in excused \/ (drop[u].pc \in Closing /\ use \in drop[u].st.used)
    BY <1>0, <2>7 DEF Carried
  <2>8. CASE \E i \in DOMAIN trans : trans[i].of = u /\ use \in trans[i].used
    BY <1>0, <2>8 DEF Carried
  <2> QED BY <2>4, <2>5, <2>6, <2>7, <2>8 DEF Carried
<1> QED BY <1>2, <1>3 DEF Answer

\* An entry more in the transcript keeps what is on record.
LEMMA WriteCarries ==
  ASSUME Typed, NEW t \in Turn, WriteUser(t) \/ WriteAssistant(t)
  PROVE  CarriedOn
<1>0. /\ Typed /\ TypeOK /\ turn[t] \in TurnRec /\ turn[t].st \in State /\ turn[t].st.of = t
      /\ turn[t].pc \in Closing /\ drop' = drop /\ paused' = paused
  BY TurnIs DEF Typed, WriteUser, WriteAssistant, At, Phases, Own, Closing
<1>1. \A u \in Turn : u # t => turn'[u] = turn[u]
  BY OneTurnSteps DEF TurnStep
<1>2. CASE Fails(t, "append") /\ UNCHANGED trans
  BY <1>0, <1>2, FailCarries DEF Closing
<1>3. ASSUME NEW e \in Entry, trans' = Append(trans, e), excused' = excused,
             \/ turn'[t].pc = "assistant" /\ turn'[t].st = turn[t].st
             \/ e.of = t /\ e.used = turn[t].st.used
      PROVE  CarriedOn
  <2>1. \A u, use : (\E i \in DOMAIN trans : trans[i].of = u /\ use \in trans[i].used)
            => \E i \in DOMAIN trans' : trans'[i].of = u /\ use \in trans'[i].used
    BY <1>3, StaysOnRecord
  <2>2. \E i \in DOMAIN trans' : trans'[i] = e
    BY <1>3, StaysOnRecord
  <2> SUFFICES ASSUME NEW u \in Turn, NEW use \in Made, Carried(u, use)
               PROVE  Carried(u, use)'
    BY DEF CarriedOn
  <2>3. CASE turn[u].pc \in Running /\ use \in turn[u].st.used
    <3>1. CASE u # t
      BY <1>1, <2>3, <3>1 DEF Carried
    <3>2. CASE u = t /\ turn'[t].pc = "assistant" /\ turn'[t].st = turn[t].st
      BY <2>3, <3>2 DEF Carried, Running
    <3>3. CASE u = t /\ e.of = t /\ e.used = turn[t].st.used
      BY <2>2, <2>3, <3>3 DEF Carried
    <3> QED BY <1>3, <3>1, <3>2, <3>3
  <2>4. ASSUME NEW s \in Turn, Shuts(s, u), use \in turn[s].old.used
        PROVE  Carried(u, use)'
    <3>1. Shuts(s, u)' /\ turn'[s] = turn[s]
      BY <1>0, <1>1, <2>4 DEF Shuts, Closing
    <3> QED BY <2>4, <3>1 DEF Carried
  <2>5. CASE \/ u \in excused
             \/ paused.of = u /\ use \in paused.used
             \/ drop[u].pc \in Closing /\ use \in drop[u].st.used
    BY <1>0, <1>3, <2>5 DEF Carried
  <2>6. CASE \E i \in DOMAIN trans : trans[i].of = u /\ use \in trans[i].used
    BY <2>1, <2>6 DEF Carried
  <2> QED BY <2>3, <2>4, <2>5, <2>6 DEF Carried
<1>4. CASE trans' = Append(trans, User(turn[t].st)) /\ Go(t, "assistant") /\ excused' = excused
  <2>1. turn'[t] = [turn[t] EXCEPT !.pc = "assistant"]
    BY <1>0, <1>4, SettingPc DEF Go
  <2>2. turn'[t].pc = "assistant" /\ turn'[t].st = turn[t].st
    BY <1>0, <2>1 DEF TurnRec
  <2> QED BY <1>0, <1>3, <1>4, <2>2, Entries
<1>5. CASE trans' = Append(trans, Assistant(turn[t].st)) /\ excused' = excused
  <2>1. Assistant(turn[t].st).used = turn[t].st.used
    BY DEF Assistant
  <2> QED BY <1>0, <1>3, <1>5, <2>1, Entries
<1> QED BY <1>2, <1>4, <1>5 DEF WriteUser, WriteAssistant

LEMMA DropAnswerCarries ==
  ASSUME Typed, NEW t \in Turn, DropAnswer(t)
  PROVE  CarriedOn
<1>0. /\ drop \in [Turn -> DropRec] /\ drop[t].pc = "answer" /\ drop[t].st.of = t
      /\ turn' = turn /\ trans' = trans /\ excused' = excused
  BY DropIs DEF Typed, DropAnswer, Phases, Own, store, history
<1>1. \A u \in Turn : u # t => drop'[u] = drop[u]
  BY <1>0 DEF DropAnswer
<1>2. CASE UNCHANGED paused
  BY <1>0, <1>1, <1>2, StillCarries DEF Closing
<1>3. CASE /\ SameToken(drop[t].st) /\ paused' = NoState
           /\ drop' = [drop EXCEPT ![t] = [pc |-> "user", st |-> paused]]
  <2>1. paused.of = t /\ drop'[t].pc \in Closing /\ drop'[t].st = paused
    BY <1>0, <1>3 DEF SameToken, Closing
  <2> SUFFICES ASSUME NEW u \in Turn, NEW use \in Made, Carried(u, use)
               PROVE  Carried(u, use)'
    BY DEF CarriedOn
  <2>2. CASE paused.of = u /\ use \in paused.used
    BY <2>1, <2>2 DEF Carried
  <2>3. CASE drop[u].pc \in Closing /\ use \in drop[u].st.used
    <3>1. drop'[u] = drop[u]
      BY <1>0, <1>1, <2>3 DEF Closing
    <3> QED BY <2>3, <3>1 DEF Carried
  <2>4. ASSUME NEW s \in Turn, Shuts(s, u), use \in turn[s].old.used
        PROVE  Carried(u, use)'
    BY <1>0, <2>4 DEF Carried, Shuts
  <2>5. CASE u \in excused \/ (turn[u].pc \in Running /\ use \in turn[u].st.used)
    BY <1>0, <2>5 DEF Carried
  <2>6. CASE \E i \in DOMAIN trans : trans[i].of = u /\ use \in trans[i].used
    BY <1>0, <2>6 DEF Carried
  <2> QED BY <2>2, <2>3, <2>4, <2>5, <2>6 DEF Carried
<1> QED BY <1>2, <1>3 DEF DropAnswer

LEMMA DropWriteCarries ==
  ASSUME Typed, NEW t \in Turn, DropWrite(t)
  PROVE  CarriedOn
<1>0. /\ drop \in [Turn -> DropRec] /\ drop[t].pc \in Closing /\ drop[t].st.of = t
      /\ drop[t].st \in State /\ turn' = turn /\ paused' = paused
  BY DropIs DEF Typed, DropWrite, Phases, Own, Closing
<1>1. \A u \in Turn : u # t => drop'[u] = drop[u]
  BY <1>0 DEF DropWrite
<1>2. ASSUME NEW u \in Turn, NEW use \in Made, excused \subseteq excused',
             \/ u \in excused
             \/ paused.of = u /\ use \in paused.used
             \/ \E s \in Turn : Shuts(s, u) /\ use \in turn[s].old.used
             \/ turn[u].pc \in Running /\ use \in turn[u].st.used
             \/ u # t /\ drop[u].pc \in Closing /\ use \in drop[u].st.used
      PROVE  Carried(u, use)'
  <2>1. ASSUME NEW s \in Turn, Shuts(s, u), use \in turn[s].old.used
        PROVE  Carried(u, use)'
    BY <1>0, <2>1 DEF Carried, Shuts
  <2>2. CASE \/ u \in excused
             \/ paused.of = u /\ use \in paused.used
             \/ turn[u].pc \in Running /\ use \in turn[u].st.used
             \/ u # t /\ drop[u].pc \in Closing /\ use \in drop[u].st.used
    BY <1>0, <1>1, <1>2, <2>2 DEF Carried
  <2> QED BY <1>2, <2>1, <2>2
<1>3. CASE trans' = trans /\ excused' = excused \cup {drop[t].st.of}
  <2> SUFFICES ASSUME NEW u \in Turn, NEW use \in Made, Carried(u, use)
               PROVE  Carried(u, use)'
    BY DEF CarriedOn
  <2>1. CASE \E i \in DOMAIN trans : trans[i].of = u /\ use \in trans[i].used
    BY <1>3, <2>1 DEF Carried
  <2>2. CASE u = t
    BY <1>0, <1>3, <2>2 DEF Carried
  <2> QED BY <1>2, <1>3, <2>1, <2>2 DEF Carried
<1>4. ASSUME NEW e \in Entry, trans' = Append(trans, e), excused' = excused,
             \/ drop'[t].pc \in Closing /\ drop'[t].st = drop[t].st
             \/ e.of = t /\ e.used = drop[t].st.used
      PROVE  CarriedOn
  <2>1. \A u, use : (\E i \in DOMAIN trans : trans[i].of = u /\ use \in trans[i].used)
            => \E i \in DOMAIN trans' : trans'[i].of = u /\ use \in trans'[i].used
    BY <1>4, StaysOnRecord
  <2>2. \E i \in DOMAIN trans' : trans'[i] = e
    BY <1>4, StaysOnRecord
  <2> SUFFICES ASSUME NEW u \in Turn, NEW use \in Made, Carried(u, use)
               PROVE  Carried(u, use)'
    BY DEF CarriedOn
  <2>3. CASE \E i \in DOMAIN trans : trans[i].of = u /\ use \in trans[i].used
    BY <2>1, <2>3 DEF Carried
  <2>4. CASE u = t /\ use \in drop[t].st.used
    BY <1>4, <2>2, <2>4 DEF Carried
  <2> QED BY <1>2, <1>4, <2>3, <2>4 DEF Carried
<1>5. CASE /\ drop[t].pc = "user" /\ trans' = Append(trans, User(drop[t].st))
           /\ drop' = [drop EXCEPT ![t] = [drop[t] EXCEPT !.pc = "assistant"]]
           /\ excused' = excused
  <2>1. drop'[t].pc \in Closing /\ drop'[t].st = drop[t].st
    BY <1>0, <1>5 DEF DropRec, Closing
  <2> QED BY <1>0, <1>4, <1>5, <2>1, Entries
<1>6. CASE trans' = Append(trans, Assistant(drop[t].st)) /\ excused' = excused
  <2>1. Assistant(drop[t].st).used = drop[t].st.used
    BY DEF Assistant
  <2> QED BY <1>0, <1>4, <1>6, <2>1, Entries
<1> QED BY <1>3, <1>5, <1>6 DEF DropWrite

LEMMA ArriveCarries ==
  ASSUME Typed, NEW m \in Turn, Arrive(m)
  PROVE  CarriedOn /\ \A u \in Turn : turn[u].pc # "idle" => turn'[u].pc = turn[u].pc
<1>0. \A u \in Turn : turn[u] \in TurnRec
  BY TurnIs DEF Typed
<1>1. /\ turn[m].pc = "idle" /\ drop' = drop /\ paused' = paused /\ trans' = trans
      /\ excused \subseteq excused'
  BY DEF Arrive, At, store
<1>2. ASSUME NEW u \in Turn, u # m
      PROVE  turn'[u].pc = turn[u].pc /\ turn'[u].st = turn[u].st /\ turn'[u].old = turn[u].old
  <2>1. \A v \in Turn : v # m =>
          turn'[v] = [turn[v] EXCEPT !.stop = turn[v].stop \/ v \in Cancelled,
                            !.dropped = turn[v].dropped \/ (At(v, "asked") /\ turn[v].todo # {})]
    BY DEF Arrive
  <2>2. PICK a, b : turn'[u] = [turn[u] EXCEPT !.stop = a, !.dropped = b]
    BY <1>2, <2>1
  <2>3. turn[u] \in TurnRec
    BY <1>0
  <2> QED BY <2>2, <2>3 DEF TurnRec
<1>3. \A u \in Turn : turn[u].pc # "idle" =>
        turn'[u].pc = turn[u].pc /\ turn'[u].st = turn[u].st /\ turn'[u].old = turn[u].old
  BY <1>1, <1>2
<1>4. CarriedOn
  BY <1>1, <1>3, StillCarries DEF Running
<1> QED BY <1>3, <1>4

LEMMA StopCarries ==
  ASSUME Typed, Stop
  PROVE  CarriedOn /\ \A u \in Turn : turn'[u].pc = turn[u].pc
<1>1. reg \in Turn /\ turn[reg] \in TurnRec
  <2>1. reg \in Turn
    BY DEF Stop, Typed, TypeOK, Turn
  <2> QED BY <2>1, TurnIs DEF Typed
<1>2. LET r == [turn[reg] EXCEPT !.stop = TRUE]
      IN  r.pc = turn[reg].pc /\ r.old = turn[reg].old /\ r.st = turn[reg].st
  BY <1>1 DEF TurnRec
<1>3. \A u \in Turn : turn'[u].pc = turn[u].pc /\ turn'[u].old = turn[u].old
                      /\ turn'[u].st = turn[u].st
  BY <1>1, <1>2, SettingPc DEF Stop, Typed, TypeOK
<1>4. drop' = drop /\ paused' = paused /\ trans' = trans /\ excused \subseteq excused'
  BY DEF Stop, store
<1> QED BY <1>3, <1>4, StillCarries

\* /undo excuses the turns whose entries it takes.
LEMMA UndoCarries ==
  ASSUME Typed, Undo
  PROVE  CarriedOn
<1>1. PICK i \in DOMAIN rows :
        excused' = excused \cup Runs(rows[i]) \cup {e.of : e \in ToSet(trans) \ ToSet(trans')}
  BY DEF Undo
<1>2. turn' = turn /\ drop' = drop /\ paused' = paused
  BY DEF Undo, locals
<1> SUFFICES ASSUME NEW u \in Turn, NEW use \in Made, Carried(u, use)
             PROVE  Carried(u, use)'
  BY DEF CarriedOn
<1>3. ASSUME NEW j \in DOMAIN trans, trans[j].of = u, use \in trans[j].used
      PROVE  Carried(u, use)'
  <2>1. CASE trans[j] \in ToSet(trans')
    <3>1. PICK k \in DOMAIN trans' : trans'[k] = trans[j]
      BY <2>1 DEF ToSet
    <3> QED BY <1>3, <3>1 DEF Carried
  <2>2. CASE trans[j] \notin ToSet(trans')
    <3>1. trans[j] \in ToSet(trans)
      BY DEF ToSet
    <3>2. u \in excused'
      BY <1>1, <1>3, <2>2, <3>1
    <3> QED BY <3>2 DEF Carried
  <2> QED BY <2>1, <2>2
<1>4. ASSUME NEW s \in Turn, Shuts(s, u), use \in turn[s].old.used
      PROVE  Carried(u, use)'
  BY <1>2, <1>4 DEF Carried, Shuts
<1>5. CASE \/ u \in excused
           \/ paused.of = u /\ use \in paused.used
           \/ turn[u].pc \in Running /\ use \in turn[u].st.used
           \/ drop[u].pc \in Closing /\ use \in drop[u].st.used
  BY <1>1, <1>2, <1>5 DEF Carried
<1> QED BY <1>3, <1>4, <1>5 DEF Carried

\* A restart excuses whatever was held.
LEMMA RestartCarries ==
  ASSUME Typed, Restart
  PROVE  CarriedOn /\ \A t \in Turn : drop'[t].pc = "none"
<1>1. excused' = excused \cup {t \in Turn : Live(t) \/ ~Over(t)} /\ trans' = trans
  BY DEF Restart, store
<1>2. \A t \in Turn : drop'[t].pc = "none"
  BY IdleIsTurn DEF Restart
<1> SUFFICES ASSUME NEW u \in Turn, NEW use \in Made, Carried(u, use)
             PROVE  Carried(u, use)'
  BY <1>2 DEF CarriedOn
<1>3. CASE \E j \in DOMAIN trans : trans[j].of = u /\ use \in trans[j].used
  BY <1>1, <1>3 DEF Carried
<1>4. ASSUME NEW s \in Turn, Shuts(s, u)
      PROVE  Carried(u, use)'
  BY <1>1, <1>4 DEF Carried, Shuts, Live
<1>5. CASE paused.of = u \/ turn[u].pc \in Running
  BY <1>1, <1>5 DEF Carried, Live, Over, Running
<1>6. CASE drop[u].pc \in Closing
  <2>1. drop[u].st.of = u
    BY <1>6 DEF Typed, Phases, Own, Closing
  <2> QED BY <1>1, <2>1 DEF Carried, Live
<1>7. CASE u \in excused
  BY <1>1, <1>7 DEF Carried
<1> QED BY <1>3, <1>4, <1>5, <1>6, <1>7 DEF Carried

LEMMA DropDoneKeeps ==
  ASSUME Typed, DropDone, [Next]_vars
  PROVE  DropDone'
<1>1. ASSUME NEW t \in Turn, TurnStep(t) \/ Allow(t) \/ Deny(t)
      PROVE  DropDone'
  <2>1. turn[t].pc # "done" /\ \A u \in Turn : u # t => turn'[u] = turn[u]
    BY <1>1, OneTurnSteps
  <2>2. CASE Dropped(t)
    <3>1. turn'[t].pc = "done"
      BY <2>2, Ending DEF Dropped, Typed
    <3>2. \A u \in Turn : u # t => drop'[u] = drop[u]
      BY <2>2, DropIs DEF Dropped
    <3> QED BY <2>1, <3>1, <3>2 DEF DropDone
  <2>3. CASE ~Dropped(t)
    <3>1. drop' = drop
      BY <1>1, <2>3 DEF TurnStep, Abandon, AbandonUser, AbandonAssistant, Read, Complete,
         HoldOrExec, NextRound, Pause, Unanswered, Answer, Settle, Settled, WriteUser,
         WriteAssistant, PutTurn, Allow, Deny
    <3> QED BY <2>1, <3>1, SMTT(30) DEF DropDone
  <2> QED BY <2>2, <2>3
<1>2. ASSUME NEW t \in Turn, DropStep(t)
      PROVE  DropDone'
  <2>1. turn' = turn /\ drop[t].pc # "none" /\ drop \in [Turn -> DropRec]
    BY <1>2, DropIs DEF DropStep, DropAnswer, DropWrite
  <2>2. \A u \in Turn : u # t => drop'[u] = drop[u]
    BY <1>2, <2>1 DEF DropStep, DropAnswer, DropWrite
  <2> QED BY <2>1, <2>2 DEF DropDone
<1>3. ASSUME NEW m \in Turn, Arrive(m)
      PROVE  DropDone'
  BY <1>3, ArriveCarries DEF DropDone, Arrive
<1>4. CASE Stop
  BY <1>4, StopCarries DEF DropDone, Stop
<1>5. CASE Undo
  BY <1>5 DEF DropDone, Undo, locals
<1>6. CASE Restart
  BY <1>6, RestartCarries DEF DropDone
<1>7. CASE UNCHANGED vars
  BY <1>7 DEF DropDone, vars, locals
<1> QED BY <1>1, <1>2, <1>3, <1>4, <1>5, <1>6, <1>7 DEF Next

LEMMA RanCarriedKeeps ==
  ASSUME Typed, DropDone, RanCarried, [Next]_vars
  PROVE  RanCarried'
<1>1. \A call \in ran : call[1] \in Turn /\ call[2] \in Made
  BY DEF Typed, TypeOK
<1>2. ASSUME CarriedOn, \A call \in ran' : call \in ran \/ Carried(call[1], call[2])'
      PROVE  RanCarried'
  <2> SUFFICES ASSUME NEW call \in ran' PROVE Carried(call[1], call[2])'
    BY DEF RanCarried
  <2>1. CASE call \in ran
    <3>1. Carried(call[1], call[2])
      BY <2>1 DEF RanCarried
    <3> QED BY <1>1, <1>2, <2>1, <3>1 DEF CarriedOn
  <2> QED BY <1>2, <2>1
<1>3. ASSUME NEW t \in Turn, TurnStep(t) \/ Allow(t) \/ Deny(t)
      PROVE  RanCarried'
  <2>1. CASE Complete(t) \/ NextRound(t) \/ Settled(t) \/ HoldOrExec(t) \/ Settle(t)
    BY <1>2, <2>1, LoopCarries
  <2>2. CASE ~(Complete(t) \/ NextRound(t) \/ Settled(t) \/ HoldOrExec(t) \/ Settle(t))
    <3>1. ran' = ran
      BY <1>3, <2>2 DEF TurnStep, Abandon, AbandonUser, AbandonAssistant, Read, Pause,
         Unanswered, Dropped, Answer, WriteUser, WriteAssistant, PutTurn, Allow, Deny, history
    <3>2. CarriedOn
      BY <1>3, <2>2, BeginCarries, AbandonCarries, ReadCarries, AskedCarries, PauseCarries,
         AnswerCarries, WriteCarries DEF TurnStep
    <3> QED BY <1>2, <3>1, <3>2
  <2> QED BY <2>1, <2>2
<1>4. ASSUME NEW t \in Turn, DropStep(t)
      PROVE  RanCarried'
  BY <1>2, <1>4, DropAnswerCarries, DropWriteCarries DEF DropStep, DropAnswer, DropWrite, history
<1>5. ASSUME NEW m \in Turn, Arrive(m)
      PROVE  RanCarried'
  BY <1>2, <1>5, ArriveCarries DEF Arrive
<1>6. CASE Stop \/ Undo \/ Restart
  BY <1>2, <1>6, StopCarries, UndoCarries, RestartCarries DEF Stop, Undo, Restart
<1>7. CASE UNCHANGED vars
  <2>1. CarriedOn
    BY <1>7, StillCarries DEF vars, locals, store, history
  <2> QED BY <1>2, <1>7, <2>1 DEF vars, history
<1> QED BY <1>3, <1>4, <1>5, <1>6, <1>7 DEF Next

\* A tool that ran is named on record for any number of turns, calls, rounds,
\* questions, restarts and failures: from the moment it is called it is on a
\* list that somebody carries, the handler, the map, the turn that closes the
\* question or the goroutine that drops it, until the list is written; who
\* loses one is excused.
THEOREM RanIsNamed == Spec => []NamedOnRecord
<1>1. Init => Typed /\ DropDone /\ RanCarried
  <2> SUFFICES ASSUME Init PROVE Typed /\ DropDone /\ RanCarried
    OBVIOUS
  <2>1. \A t \in Turn : drop[t].pc = "none"
    BY IdleIsTurn DEF Init
  <2> QED BY <2>1, TypeInit DEF Init, DropDone, RanCarried
<1>2. (Typed /\ DropDone /\ RanCarried) /\ [Next]_vars => (Typed /\ DropDone /\ RanCarried)'
  BY TypeKeeps, DropDoneKeeps, RanCarriedKeeps
<1>3. Typed /\ RanCarried => NamedOnRecord
  <2> SUFFICES ASSUME Typed, RanCarried, NEW call \in ran
               PROVE  \/ Live(call[1]) \/ call[1] \in excused
                      \/ \E i \in DOMAIN trans : trans[i].of = call[1] /\ call[2] \in trans[i].used
    BY DEF NamedOnRecord
  <2> DEFINE u == call[1]
  <2>1. u \in Turn /\ Carried(u, call[2])
    BY DEF RanCarried, Typed, TypeOK
  <2> HIDE DEF u
  <2>2. ASSUME NEW s \in Turn, Shuts(s, u)
        PROVE  Live(u)
    BY <2>2 DEF Live, Shuts
  <2>3. turn[u].pc \in Running => Live(u)
    BY <2>1 DEF Live, Typed, Phases, Own, Running
  <2>4. drop[u].pc \in Closing => Live(u)
    BY <2>1 DEF Live, Typed, Phases, Own, Closing
  <2>5. paused.of = u => Live(u)
    BY DEF Live
  <2> QED BY <2>1, <2>2, <2>3, <2>4, <2>5 DEF Carried, u
<1> QED BY <1>1, <1>2, <1>3, PTL DEF Spec

-----------------------------------------------------------------------------
(* What /undo takes is nothing of a turn before the question it takes.     *)
(* Turns that do not cross write in the order they came, and the map holds *)
(* the state of the latest that asked.                                     *)

\* Turns come in order, and a question that is asked again has a row; a turn
\* that begins has asked nothing.
InTurn ==
  /\ \A t, u \in Turn : t < u /\ ~At(u, "idle") => ~At(t, "idle")
  /\ \A t \in Turn : ~At(t, "idle") => turn[t].q \in Turn /\ turn[t].q <= t
  /\ \A i \in DOMAIN rows : rows[i] \in Turn /\ ~At(rows[i], "idle")
  /\ \A t \in Turn : At(t, "begin") => turn[t].asks = 0

\* Past the map: what waits at a question, if anything does, is the turn's own.
Past == {"abandon user", "abandon assistant", "read", "complete", "calls",
         "asked", "settle", "user", "assistant", "row"}
Shutting == {"abandon user", "abandon assistant"}

\* Turns that do not cross: one at a time, and nobody drops a question.
Alone ==
  /\ \A t \in Turn : drop[t].pc = "none" /\ ~turn[t].dropped
  /\ \A t, u \in Turn : ~Over(t) /\ t < u => At(u, "idle")
  /\ \A t \in Turn : turn[t].pc \in Past => paused.of \in {0, t}

\* Nothing on record is of a turn after t.
UpTo(t) == \A i \in DOMAIN trans : trans[i].of <= t

\* The transcript is in the order of the turns, and whoever may still write
\* is not before what is there.
InOrder ==
  /\ \A i \in DOMAIN trans : trans[i].of \in Turn => ~At(trans[i].of, "idle")
  /\ \A i, j \in DOMAIN trans : i < j => trans[i].of <= trans[j].of
  /\ paused.of # 0 => ~At(paused.of, "idle") /\ UpTo(paused.of)
  /\ \A t \in Turn : turn[t].pc \in Shutting => ~At(turn[t].old.of, "idle") /\ UpTo(turn[t].old.of)

Uncrossed == crossed \/ (Alone /\ InOrder)

\* The step of a turn: its question stays, and what it takes over, writes and
\* leaves in the map is its own or what waited there.
Moved(t, rec) ==
  /\ rec.q = turn[t].q /\ rec.dropped \in {FALSE, turn[t].dropped}
  /\ rec.pc \in Past \ Shutting
Forward(t) ==
  /\ turn'[t].q = turn[t].q /\ turn'[t].dropped \in {FALSE, turn[t].dropped}
  /\ turn'[t].pc \in Past \cup {"done"}
  /\ turn'[t].pc \in Shutting =>
       \/ turn[t].pc = "begin" /\ turn'[t].old = paused /\ paused # NoState
       \/ turn[t].pc \in Shutting /\ turn'[t].old = turn[t].old
  /\ turn'[t].pc \in Past /\ turn[t].pc \notin Past => paused' = NoState
  /\ paused' = paused \/ paused' = NoState \/ paused'.of = t
Writer(t) == IF turn[t].pc \in Shutting THEN turn[t].old.of ELSE t
Writes(t) ==
  \/ trans' = trans
  \/ turn[t].pc \in Past /\ \E e \in Entry : trans' = Append(trans, e) /\ e.of = Writer(t)

LEMMA LeavingKeeps ==
  ASSUME TypeOK, NEW t \in Turn, End(t) \/ Returned(t)
  PROVE  /\ turn'[t].q = turn[t].q /\ turn'[t].dropped \in {FALSE, turn[t].dropped}
         /\ turn'[t].pc \in {"done", "row"} /\ (End(t) => turn'[t].pc = "done")
<1>0. turn[t] \in TurnRec
  BY TurnIs
<1>1. CASE End(t)
  <2>1. turn'[t] = Ended(t)
    BY <1>1, SettingPc DEF End
  <2>2. /\ Ended(t).q = turn[t].q /\ Ended(t).dropped = FALSE /\ Ended(t).pc = "done"
    BY DEF Ended, IdleTurn
  <2> QED BY <2>1, <2>2
<1>2. CASE ~End(t)
  <2>1. turn'[t] = [turn[t] EXCEPT !.pc = "row"]
    BY <1>2, SettingPc DEF Returned, Go
  <2>2. LET r == [turn[t] EXCEPT !.pc = "row"]
        IN  r.q = turn[t].q /\ r.dropped = turn[t].dropped /\ r.pc = "row"
    BY <1>0 DEF TurnRec
  <2> QED BY <1>2, <2>1, <2>2
<1> QED BY <1>1, <1>2

\* The steps of the loop and of the questions, but for the map.
LEMMA LoopMoves ==
  ASSUME TypeOK, NEW t \in Turn,
         \/ Complete(t) \/ NextRound(t) \/ HoldOrExec(t) \/ Settle(t) \/ Settled(t) \/ Read(t)
         \/ Allow(t) \/ Deny(t) \/ Unanswered(t)
  PROVE  (End(t) \/ Returned(t)) \/ \E rec : Set(t, rec) /\ Moved(t, rec)
<1>0. turn[t] \in TurnRec
  BY TurnIs
<1> USE DEF Moved, Past, Shutting
<1>1. CASE Complete(t)
  <2>1. CASE Fails(t, "model")
    BY <2>1 DEF Fails
  <2>2. CASE ~Fails(t, "model")
    <3>1. PICK calls \in SUBSET Call :
                Set(t, [turn[t] EXCEPT
                     !.st = [turn[t].st EXCEPT !.n = Another(turn[t].st.n)],
                     !.todo = calls,
                     !.pc = IF calls = {} THEN "user" ELSE "calls"])
      BY <1>1, <2>2 DEF Complete
    <3> DEFINE pc == IF calls = {} THEN "user" ELSE "calls"
    <3> DEFINE r == [turn[t] EXCEPT !.st = [turn[t].st EXCEPT !.n = Another(turn[t].st.n)],
                                    !.todo = calls, !.pc = pc]
    <3>2. r.pc = pc /\ r.q = turn[t].q /\ r.dropped = turn[t].dropped
      BY <1>0 DEF TurnRec
    <3>3. Set(t, r)
      BY <3>1
    <3> HIDE DEF r
    <3> QED BY <3>2, <3>3
  <2> QED BY <2>1, <2>2
<1>2. CASE NextRound(t) \/ Settled(t)
  <2> DEFINE a == [turn[t] EXCEPT !.pc = "complete", !.round = turn[t].round + 1]
             b == [turn[t] EXCEPT !.pc = "complete", !.yes = {}, !.no = {},
                                  !.st = [turn[t].st EXCEPT !.held = {}]]
  <2>1. a.pc = "complete" /\ a.q = turn[t].q /\ a.dropped = turn[t].dropped
    BY <1>0 DEF TurnRec
  <2>2. b.pc = "complete" /\ b.q = turn[t].q /\ b.dropped = turn[t].dropped
    BY <1>0 DEF TurnRec
  <2>3. Set(t, a) \/ Set(t, b)
    BY <1>2 DEF NextRound, Settled
  <2> HIDE DEF a, b
  <2> QED BY <2>1, <2>2, <2>3
<1>3. CASE HoldOrExec(t) \/ Settle(t)
  <2> DEFINE a(c) == [turn[t] EXCEPT !.todo = turn[t].todo \ {c}]
             b(c) == [turn[t] EXCEPT !.todo = turn[t].todo \ {c}, !.st = Using(t, c)]
             d(c) == [turn[t] EXCEPT !.todo = turn[t].todo \ {c},
                         !.st = [turn[t].st EXCEPT !.held = turn[t].st.held \cup {c}]]
  <2>1. \A c : a(c).pc = turn[t].pc /\ a(c).q = turn[t].q /\ a(c).dropped = turn[t].dropped
    BY <1>0 DEF TurnRec
  <2>2. \A c : b(c).pc = turn[t].pc /\ b(c).q = turn[t].q /\ b(c).dropped = turn[t].dropped
    BY <1>0 DEF TurnRec
  <2>3. \A c : d(c).pc = turn[t].pc /\ d(c).q = turn[t].q /\ d(c).dropped = turn[t].dropped
    BY <1>0 DEF TurnRec
  <2>4. HoldOrExec(t) => \E c : Set(t, b(c)) \/ Set(t, d(c))
    BY DEF HoldOrExec
  <2>5. Settle(t) => \E c : Set(t, a(c)) \/ Set(t, b(c))
    BY DEF Settle
  <2>6. turn[t].pc \in {"calls", "settle"}
    BY <1>3 DEF HoldOrExec, Settle, At
  <2> HIDE DEF a, b, d
  <2>7. PICK c : Set(t, a(c)) \/ Set(t, b(c)) \/ Set(t, d(c))
    BY <1>3, <2>4, <2>5
  <2> QED BY <2>1, <2>2, <2>3, <2>6, <2>7
<1>4. CASE Read(t)
  <2> DEFINE r == [turn[t] EXCEPT !.pc = "complete", !.st = [NoState EXCEPT !.of = t]]
  <2>1. r.pc = "complete" /\ r.q = turn[t].q /\ r.dropped = turn[t].dropped
    BY <1>0 DEF TurnRec
  <2>2. Set(t, r) \/ Fails(t, "append")
    BY <1>4 DEF Read
  <2> HIDE DEF r
  <2> QED BY <2>1, <2>2 DEF Fails
<1>5. CASE Allow(t) \/ Deny(t) \/ Unanswered(t)
  <2> DEFINE a(c) == Left(t, c)
             b(c, s) == [Left(t, c) EXCEPT !.yes = s]
             d(c, s) == [Left(t, c) EXCEPT !.no = s]
  <2>1. \A c : a(c).pc = turn[t].pc /\ a(c).q = turn[t].q /\ a(c).dropped = FALSE
    BY <1>0 DEF TurnRec, Left
  <2>2. \A c, s : b(c, s).pc = turn[t].pc /\ b(c, s).q = turn[t].q /\ b(c, s).dropped = FALSE
    BY <1>0 DEF TurnRec, Left
  <2>3. \A c, s : d(c, s).pc = turn[t].pc /\ d(c, s).q = turn[t].q /\ d(c, s).dropped = FALSE
    BY <1>0 DEF TurnRec, Left
  <2>4. PICK c, s : Set(t, a(c)) \/ Set(t, b(c, s)) \/ Set(t, d(c, s))
    BY <1>5 DEF Allow, Deny, Unanswered
  <2>5. turn[t].pc = "asked"
    BY <1>5 DEF Allow, Deny, Unanswered, Asked, At
  <2> HIDE DEF a, b, d
  <2>6. Set(t, a(c)) => \E rec : Set(t, rec) /\ Moved(t, rec)
    BY <2>1, <2>5
  <2>7. Set(t, b(c, s)) => \E rec : Set(t, rec) /\ Moved(t, rec)
    BY <2>2, <2>5
  <2>8. Set(t, d(c, s)) => \E rec : Set(t, rec) /\ Moved(t, rec)
    BY <2>3, <2>5
  <2> QED BY <2>4, <2>6, <2>7, <2>8
<1> QED BY <1>1, <1>2, <1>3, <1>4, <1>5

LEMMA TurnForward ==
  ASSUME Typed, NEW t \in Turn, TurnStep(t) \/ Allow(t) \/ Deny(t),
         At(t, "begin") => turn[t].asks = 0
  PROVE  Forward(t) /\ Writes(t) /\ turn[t].pc \in Past \cup {"begin"}
<1>0. TypeOK /\ turn[t] \in TurnRec
  BY TurnIs DEF Typed
<1> USE DEF Past, Shutting
<1>1. CASE \/ Complete(t) \/ NextRound(t) \/ HoldOrExec(t) \/ Settle(t) \/ Settled(t) \/ Read(t)
           \/ Allow(t) \/ Deny(t) \/ Unanswered(t)
  <2>1. paused' = paused /\ trans' = trans
    BY <1>1 DEF Complete, NextRound, HoldOrExec, Settle, Settled, Read, Allow, Deny, Unanswered, store
  <2>2. turn[t].pc \in Past
    BY <1>1 DEF Complete, NextRound, HoldOrExec, Settle, Settled, Read, Allow, Deny, Unanswered,
       Asked, At
  <2>3. CASE End(t) \/ Returned(t)
    BY <1>0, <2>1, <2>2, <2>3, LeavingKeeps DEF Forward, Writes
  <2>4. CASE \E rec : Set(t, rec) /\ Moved(t, rec)
    <3>1. Moved(t, turn'[t])
      BY <1>0, <2>4, SettingPc
    <3> QED BY <2>1, <2>2, <3>1 DEF Moved, Forward, Writes
  <2> QED BY <1>0, <1>1, <2>3, <2>4, LoopMoves
<1>2. CASE PutTurn(t) \/ Dropped(t)
  <2>1. paused' = paused /\ trans' = trans /\ End(t) /\ turn[t].pc \in Past
    BY <1>2 DEF PutTurn, Dropped, At, store
  <2> QED BY <1>0, <2>1, LeavingKeeps DEF Forward, Writes
<1>3. CASE Abandon(t)
  <2>1. trans' = trans /\ turn[t].pc = "begin"
    BY <1>3 DEF Abandon, At, store
  <2>2. CASE Fails(t, "session") /\ UNCHANGED paused
    <3>1. End(t)
      BY <1>0, <2>1, <2>2 DEF Fails, At
    <3> QED BY <1>0, <2>1, <2>2, <3>1, LeavingKeeps DEF Forward, Writes
  <2>3. CASE paused' = NoState /\ paused = NoState /\ Go(t, "read")
    <3> DEFINE r == [turn[t] EXCEPT !.pc = "read"]
    <3>1. r.pc = "read" /\ r.q = turn[t].q /\ r.dropped = turn[t].dropped
      BY <1>0 DEF TurnRec
    <3>2. Set(t, r)
      BY <2>3 DEF Go
    <3> HIDE DEF r
    <3>3. turn'[t] = r
      BY <1>0, <3>2, SettingPc
    <3> QED BY <2>1, <2>3, <3>1, <3>3 DEF Forward, Writes
  <2>4. CASE /\ paused' = NoState /\ paused # NoState
             /\ Set(t, [turn[t] EXCEPT !.pc = "abandon user", !.old = paused])
    <3> DEFINE r == [turn[t] EXCEPT !.pc = "abandon user", !.old = paused]
    <3>1. r.pc = "abandon user" /\ r.q = turn[t].q /\ r.dropped = turn[t].dropped /\ r.old = paused
      BY <1>0 DEF TurnRec
    <3>2. Set(t, r)
      BY <2>4
    <3> HIDE DEF r
    <3>3. turn'[t] = r
      BY <1>0, <3>2, SettingPc
    <3> QED BY <2>1, <2>4, <3>1, <3>3 DEF Forward, Writes
  <2> QED BY <1>3, <2>2, <2>3, <2>4 DEF Abandon
<1>4. CASE AbandonUser(t) \/ AbandonAssistant(t)
  <2> DEFINE a == [turn[t] EXCEPT !.pc = "abandon assistant"]
             b == [turn[t] EXCEPT !.pc = "read", !.old = NoState]
  <2>1. a.pc = "abandon assistant" /\ a.q = turn[t].q /\ a.dropped = turn[t].dropped
        /\ a.old = turn[t].old
    BY <1>0 DEF TurnRec
  <2>2. b.pc = "read" /\ b.q = turn[t].q /\ b.dropped = turn[t].dropped
    BY <1>0 DEF TurnRec
  <2>3. Set(t, a) \/ Set(t, b)
    BY <1>4 DEF AbandonUser, AbandonAssistant, Go
  <2>4. paused' = paused /\ turn[t].pc \in Shutting
    BY <1>4 DEF AbandonUser, AbandonAssistant, At
  <2>5. \/ trans' = trans \/ trans' = Append(trans, User(turn[t].old))
        \/ trans' = Append(trans, Assistant(turn[t].old))
    BY <1>4 DEF AbandonUser, AbandonAssistant
  <2> HIDE DEF a, b
  <2>6. turn'[t] = a \/ turn'[t] = b
    BY <1>0, <2>3, SettingPc
  <2>7. Forward(t)
    BY <2>1, <2>2, <2>4, <2>6 DEF Forward
  <2>8. /\ User(turn[t].old) \in Entry /\ User(turn[t].old).of = turn[t].old.of
        /\ Assistant(turn[t].old) \in Entry /\ Assistant(turn[t].old).of = turn[t].old.of
    BY <1>0, TurnIs, Entries
  <2>9. Writes(t)
    BY <2>4, <2>5, <2>8 DEF Writes, Writer
  <2> QED BY <2>4, <2>7, <2>9
<1>5. CASE WriteUser(t) \/ WriteAssistant(t)
  <2>1. paused' = paused /\ turn[t].pc \in {"user", "assistant"} /\ turn[t].st.of = t
    BY <1>5 DEF WriteUser, WriteAssistant, At, Typed, Phases, Own
  <2>2. CASE Fails(t, "append") /\ UNCHANGED trans
    BY <1>0, <2>1, <2>2, LeavingKeeps DEF Fails, Forward, Writes
  <2>3. CASE ~(Fails(t, "append") /\ UNCHANGED trans)
    <3> DEFINE a == [turn[t] EXCEPT !.pc = "assistant"]
               b == [turn[t] EXCEPT !.pc = "row"]
    <3>1. a.pc = "assistant" /\ a.q = turn[t].q /\ a.dropped = turn[t].dropped
      BY <1>0 DEF TurnRec
    <3>2. b.pc = "row" /\ b.q = turn[t].q /\ b.dropped = turn[t].dropped
      BY <1>0 DEF TurnRec
    <3>3. Set(t, a) \/ Set(t, b)
      BY <1>5, <2>3 DEF WriteUser, WriteAssistant, Go
    <3>4. trans' = Append(trans, User(turn[t].st)) \/ trans' = Append(trans, Assistant(turn[t].st))
      BY <1>5, <2>3 DEF WriteUser, WriteAssistant
    <3> HIDE DEF a, b
    <3>5. turn'[t] = a \/ turn'[t] = b
      BY <1>0, <3>3, SettingPc
    <3>6. Forward(t)
      BY <2>1, <3>1, <3>2, <3>5 DEF Forward
    <3>7. /\ User(turn[t].st) \in Entry /\ User(turn[t].st).of = t
          /\ Assistant(turn[t].st) \in Entry /\ Assistant(turn[t].st).of = t
      BY <1>0, <2>1, TurnIs, Entries
    <3>8. Writes(t)
      BY <2>1, <3>4, <3>7 DEF Writes, Writer
    <3> QED BY <2>1, <3>6, <3>8
  <2> QED BY <2>2, <2>3
<1>6. CASE Pause(t)
  <2>1. /\ paused' = turn[t].st /\ turn[t].st.of = t /\ trans' = trans /\ turn[t].pc = "calls"
    BY <1>6 DEF Pause, At, Typed, Phases, Own, store
  <2>2. CASE Returned(t)
    BY <1>0, <2>1, <2>2, LeavingKeeps DEF Forward, Writes
  <2>3. CASE ~Returned(t)
    <3> DEFINE r == [turn[t] EXCEPT !.pc = "asked", !.todo = turn[t].st.held,
                       !.asks = turn[t].asks + 1, !.yes = {}, !.no = {}, !.dropped = FALSE]
    <3>1. r.pc = "asked" /\ r.q = turn[t].q /\ r.dropped = FALSE
      BY <1>0 DEF TurnRec
    <3>2. Set(t, r)
      BY <1>6, <2>3 DEF Pause
    <3> HIDE DEF r
    <3>3. turn'[t] = r
      BY <1>0, <3>2, SettingPc
    <3> QED BY <2>1, <3>1, <3>3 DEF Forward, Writes
  <2> QED BY <2>2, <2>3
<1>7. CASE Answer(t)
  <2>1. trans' = trans /\ turn[t].pc = "asked" /\ paused' \in {paused, NoState}
    BY <1>7 DEF Answer, At, store
  <2>2. CASE Returned(t)
    BY <1>0, <2>1, <2>2, LeavingKeeps DEF Forward, Writes
  <2>3. CASE ~Returned(t)
    <3> DEFINE r == [turn[t] EXCEPT !.st = paused, !.round = 0,
                       !.todo = IF turn[t].yes \cup turn[t].no = {} THEN {} ELSE paused.held,
                       !.pc = IF turn[t].yes \cup turn[t].no = {} THEN "user" ELSE "settle"]
    <3>1. r.pc \in {"user", "settle"} /\ r.q = turn[t].q /\ r.dropped = turn[t].dropped
      BY <1>0 DEF TurnRec
    <3>2. Set(t, r)
      BY <1>7, <2>3 DEF Answer
    <3> HIDE DEF r
    <3>3. turn'[t] = r
      BY <1>0, <3>2, SettingPc
    <3> QED BY <2>1, <3>1, <3>3 DEF Forward, Writes
  <2> QED BY <2>2, <2>3
<1> QED BY <1>1, <1>2, <1>3, <1>4, <1>5, <1>6, <1>7 DEF TurnStep

\* What the steps make of the rows, and the rest a turn's step leaves alone.
LEMMA TurnRows ==
  ASSUME TypeOK, NEW t \in Turn, TurnStep(t) \/ Allow(t) \/ Deny(t)
  PROVE  /\ rows' = rows \/ rows' = Append(rows, turn[t].q)
         /\ crossed' = crossed /\ (~turn[t].dropped => drop' = drop)
<1>1. rows' = rows \/ (PutTurn(t) /\ rows' = Append(rows, turn[t].q))
  BY DEF TurnStep, Abandon, AbandonUser, AbandonAssistant, Read, Complete, HoldOrExec, NextRound,
     Pause, Unanswered, Dropped, Answer, Settle, Settled, WriteUser, WriteAssistant, PutTurn,
     Allow, Deny, store
<1>2. crossed' = crossed
  BY DEF TurnStep, Abandon, AbandonUser, AbandonAssistant, Read, Complete, HoldOrExec, NextRound,
     Pause, Unanswered, Dropped, Answer, Settle, Settled, WriteUser, WriteAssistant, PutTurn,
     Allow, Deny, history
<1>3. ~turn[t].dropped => drop' = drop
  BY DEF TurnStep, Abandon, AbandonUser, AbandonAssistant, Read, Complete, HoldOrExec, NextRound,
     Pause, Unanswered, Dropped, Answer, Settle, Settled, WriteUser, WriteAssistant, PutTurn,
     Allow, Deny
<1>4. rows' = rows \/ rows' = Append(rows, turn[t].q)
  BY <1>1
<1> QED BY <1>2, <1>3, <1>4, Zenon

LEMMA RowAppended ==
  ASSUME TypeOK, NEW q \in 0 .. T, rows' = rows \/ rows' = Append(rows, q)
  PROVE  \A i \in DOMAIN rows' : (i \in DOMAIN rows /\ rows'[i] = rows[i]) \/ rows'[i] = q
<1>1. rows \in Seq(0 .. T)
  BY DEF TypeOK
<1>2. /\ DOMAIN rows = 1 .. Len(rows) /\ Len(rows) \in Nat
      /\ DOMAIN Append(rows, q) = 1 .. Len(rows) + 1
      /\ \A i \in 1 .. Len(rows) : Append(rows, q)[i] = rows[i]
      /\ Append(rows, q)[Len(rows) + 1] = q
  BY <1>1
<1> QED BY <1>2

LEMMA RowRemoved ==
  ASSUME NEW S, NEW s \in Seq(S), NEW i \in DOMAIN s
  PROVE  \A j \in DOMAIN RemoveAt(s, i) : \E k \in DOMAIN s : RemoveAt(s, i)[j] = s[k]
<1>1. i \in Int /\ Len(s) \in Int /\ 1 <= i /\ i <= Len(s) /\ DOMAIN s = 1 .. Len(s)
  OBVIOUS
<1> DEFINE a == SubSeq(s, 1, i - 1)
           b == SubSeq(s, i + 1, Len(s))
<1>2. a \in Seq(S) /\ Len(a) = i - 1 /\ \A j \in 1 .. i - 1 : a[j] = s[j]
  BY <1>1
<1>3. b \in Seq(S) /\ Len(b) = Len(s) - i /\ \A j \in 1 .. Len(s) - i : b[j] = s[i + j]
  BY <1>1
<1>4. RemoveAt(s, i) = a \o b
  BY DEF RemoveAt
<1> HIDE DEF a, b
<1>5. /\ DOMAIN (a \o b) = 1 .. Len(s) - 1
      /\ \A j \in 1 .. Len(s) - 1 :
           (a \o b)[j] = IF j <= i - 1 THEN a[j] ELSE b[j - (i - 1)]
  <2>1. a \in Seq(S) /\ b \in Seq(S) /\ Len(a) \in Nat /\ Len(b) \in Nat
    BY <1>2, <1>3
  <2>2. /\ DOMAIN (a \o b) = 1 .. Len(a) + Len(b)
        /\ \A j \in 1 .. Len(a) + Len(b) :
             (a \o b)[j] = IF j <= Len(a) THEN a[j] ELSE b[j - Len(a)]
    BY <2>1
  <2>3. Len(a) + Len(b) = Len(s) - 1
    BY <1>1, <1>2, <1>3
  <2> QED BY <1>2, <2>2, <2>3
<1>6. ASSUME NEW j \in 1 .. Len(s) - 1
      PROVE  \E k \in DOMAIN s : (a \o b)[j] = s[k]
  <2>1. CASE j <= i - 1
    <3>1. j \in 1 .. i - 1 /\ j \in DOMAIN s
      BY <1>1, <2>1
    <3> QED BY <1>2, <1>5, <2>1, <3>1
  <2>2. CASE ~(j <= i - 1)
    <3>1. j - (i - 1) \in 1 .. Len(s) - i /\ i + (j - (i - 1)) = j + 1 /\ j + 1 \in DOMAIN s
      BY <1>1, <2>2
    <3> QED BY <1>3, <1>5, <2>2, <3>1
  <2> QED BY <2>1, <2>2
<1> QED BY <1>4, <1>5, <1>6

\* Arriving is the one step that makes a turn, and no step takes one back.
LEMMA Arrives ==
  ASSUME Typed, NEW m \in Turn, Arrive(m)
  PROVE  /\ turn[m].pc = "idle" /\ turn'[m].pc = "begin" /\ turn'[m].asks = 0 /\ ~turn'[m].dropped
         /\ \A n \in Turn : n < m => turn[n].pc # "idle"
         /\ turn'[m].q = m \/ \E i \in DOMAIN rows : turn'[m].q = rows[i]
         /\ \A u \in Turn : u # m =>
              /\ turn'[u].pc = turn[u].pc /\ turn'[u].q = turn[u].q /\ turn'[u].old = turn[u].old
              /\ turn'[u].asks = turn[u].asks
              /\ ~turn[u].dropped /\ turn[u].pc # "asked" => ~turn'[u].dropped
         /\ drop' = drop /\ paused' = paused /\ trans' = trans /\ rows' = rows
         /\ crossed' = (crossed \/ \E t \in Turn : ~Over(t))
<1>1. PICK q \in {m} \cup (IF Reruns THEN {rows[i] : i \in DOMAIN rows} ELSE {}) :
       turn' = [t \in Turn |->
         IF t = m THEN [IdleTurn EXCEPT !.pc = "begin", !.q = q]
         ELSE [turn[t] EXCEPT !.stop = turn[t].stop \/ t \in Cancelled,
                              !.dropped = turn[t].dropped \/ (At(t, "asked") /\ turn[t].todo # {})]]
  BY DEF Arrive
<1>2. q = m \/ \E i \in DOMAIN rows : q = rows[i]
  OBVIOUS
<1>3. turn'[m] = [IdleTurn EXCEPT !.pc = "begin", !.q = q]
  BY <1>1
<1>4. LET r == [IdleTurn EXCEPT !.pc = "begin", !.q = q]
      IN  r.pc = "begin" /\ r.q = q /\ r.asks = 0 /\ r.dropped = FALSE
  BY DEF IdleTurn
<1>5. ASSUME NEW u \in Turn, u # m
      PROVE  /\ turn'[u].pc = turn[u].pc /\ turn'[u].q = turn[u].q /\ turn'[u].old = turn[u].old
             /\ turn'[u].asks = turn[u].asks
             /\ ~turn[u].dropped /\ turn[u].pc # "asked" => ~turn'[u].dropped
  <2> DEFINE a == turn[u].stop \/ u \in Cancelled
             b == turn[u].dropped \/ (At(u, "asked") /\ turn[u].todo # {})
             r == [turn[u] EXCEPT !.stop = a, !.dropped = b]
  <2>1. turn'[u] = r
    BY <1>1, <1>5
  <2>2. ~turn[u].dropped /\ turn[u].pc # "asked" => b = FALSE
    BY DEF At
  <2>3. turn[u] \in TurnRec
    BY TurnIs DEF Typed
  <2> HIDE DEF a, b
  <2>4. r.pc = turn[u].pc /\ r.q = turn[u].q /\ r.old = turn[u].old /\ r.asks = turn[u].asks
        /\ r.dropped = b
    BY <2>3 DEF TurnRec
  <2> HIDE DEF r
  <2> QED BY <2>1, <2>2, <2>4
<1>6. /\ turn[m].pc = "idle" /\ \A n \in Turn : n < m => turn[n].pc # "idle"
      /\ drop' = drop /\ paused' = paused /\ trans' = trans /\ rows' = rows
      /\ crossed' = (crossed \/ \E t \in Turn : ~Over(t))
  BY DEF Arrive, At, store
<1>7. /\ turn'[m].pc = "begin" /\ turn'[m].asks = 0 /\ ~turn'[m].dropped
      /\ turn'[m].q = m \/ \E i \in DOMAIN rows : turn'[m].q = rows[i]
  BY <1>2, <1>3, <1>4
<1> QED BY <1>5, <1>6, <1>7

\* What /stop, /undo and a restart leave of the turns.
LEMMA CommandKeeps ==
  ASSUME Typed, Stop \/ Undo \/ Restart
  PROVE  /\ \A u \in Turn :
              /\ turn'[u].q = turn[u].q
              /\ \/ turn'[u].pc = "done" /\ turn[u].pc # "idle"
                 \/ /\ turn'[u].pc = turn[u].pc /\ turn'[u].old = turn[u].old
                    /\ turn'[u].asks = turn[u].asks
              /\ turn'[u].dropped => turn[u].dropped
              /\ drop[u].pc = "none" => drop'[u].pc = "none"
         /\ paused' = paused \/ paused' = NoState
         /\ crossed' = crossed /\ (trans' = trans \/ trans' = Trim(trans))
<1>0. \A u \in Turn : turn[u] \in TurnRec
  BY TurnIs DEF Typed
<1>1. CASE Stop
  <2>1. reg \in Turn
    BY <1>1 DEF Stop, Typed, TypeOK, Turn
  <2> DEFINE r == [turn[reg] EXCEPT !.stop = TRUE]
  <2>2. /\ r.pc = turn[reg].pc /\ r.old = turn[reg].old /\ r.q = turn[reg].q
        /\ r.asks = turn[reg].asks /\ r.dropped = turn[reg].dropped
    BY <1>0, <2>1 DEF TurnRec
  <2>3. Set(reg, r)
    BY <1>1 DEF Stop, Set
  <2> HIDE DEF r
  <2>4. turn'[reg] = r /\ \A u \in Turn : u # reg => turn'[u] = turn[u]
    BY <2>1, <2>3, SettingPc DEF Typed
  <2>5. drop' = drop /\ paused' = paused /\ trans' = trans /\ crossed' = crossed
    BY <1>1 DEF Stop, store
  <2> QED BY <2>2, <2>4, <2>5
<1>2. CASE Undo
  BY <1>2 DEF Undo, locals
<1>3. CASE Restart
  <2>1. \A u \in Turn : turn'[u] = IF turn[u].pc = "idle" THEN turn[u] ELSE Ended(u)
    BY <1>3 DEF Restart, At
  <2>2. \A u \in Turn : Ended(u).pc = "done" /\ Ended(u).q = turn[u].q /\ Ended(u).dropped = FALSE
    BY DEF Ended, IdleTurn
  <2>3. \A u \in Turn : drop'[u].pc = "none"
    BY <1>3, IdleIsTurn DEF Restart
  <2>4. paused' = NoState /\ trans' = trans /\ crossed' = crossed
    BY <1>3 DEF Restart, store
  <2> QED BY <2>1, <2>2, <2>3, <2>4
<1> QED BY <1>1, <1>2, <1>3

LEMMA InTurnKeeps ==
  ASSUME Typed, InTurn, [Next]_vars
  PROVE  InTurn'
<1>0. TypeOK /\ rows \in Seq(0 .. T)
  BY DEF Typed, TypeOK
<1>1. ASSUME \A u \in Turn : (turn'[u].pc = "idle" <=> turn[u].pc = "idle"),
             \A u \in Turn : turn[u].pc # "idle" => turn'[u].q = turn[u].q,
             \A u \in Turn : turn'[u].pc = "begin" => turn'[u].asks = 0,
             \A i \in DOMAIN rows' : \/ \E k \in DOMAIN rows : rows'[i] = rows[k]
                                     \/ \E u \in Turn : turn[u].pc # "idle" /\ rows'[i] = turn[u].q
      PROVE  InTurn'
  <2>1. \A t, u \in Turn : t < u /\ turn'[u].pc # "idle" => turn'[t].pc # "idle"
    BY <1>1 DEF InTurn, At
  <2>2. \A t \in Turn : turn'[t].pc # "idle" => turn'[t].q \in Turn /\ turn'[t].q <= t
    BY <1>1 DEF InTurn, At
  <2>3. ASSUME NEW i \in DOMAIN rows'
        PROVE  rows'[i] \in Turn /\ turn'[rows'[i]].pc # "idle"
    <3>1. CASE \E k \in DOMAIN rows : rows'[i] = rows[k]
      BY <1>1, <3>1 DEF InTurn, At
    <3>2. ASSUME NEW u \in Turn, turn[u].pc # "idle", rows'[i] = turn[u].q
          PROVE  rows'[i] \in Turn /\ turn'[rows'[i]].pc # "idle"
      <4>1. turn[u].q \in Turn /\ turn[u].q <= u
        BY <3>2 DEF InTurn, At
      <4>2. turn[turn[u].q].pc # "idle"
        <5>1. turn[u].q = u \/ turn[u].q < u
          BY <4>1 DEF Turn
        <5> QED BY <3>2, <4>1, <5>1 DEF InTurn, At
      <4> QED BY <1>1, <3>2, <4>1, <4>2
    <3> QED BY <1>1, <3>1, <3>2
  <2> QED BY <1>1, <2>1, <2>2, <2>3 DEF InTurn, At
<1>2. ASSUME NEW t \in Turn, TurnStep(t) \/ Allow(t) \/ Deny(t)
      PROVE  InTurn'
  <2>1. /\ turn[t].pc # "idle" /\ turn'[t].pc \notin {"idle", "begin"} /\ turn'[t].q = turn[t].q
        /\ \A u \in Turn : u # t => turn'[u] = turn[u]
    <3>1. Forward(t) /\ turn[t].pc \in Past \cup {"begin"}
      BY <1>2, TurnForward DEF InTurn
    <3> QED BY <1>2, <3>1, OneTurnSteps DEF Forward, Past
  <2>2. turn[t].q \in 0 .. T
    BY <1>0, TurnIs DEF TurnRec
  <2>3. \A i \in DOMAIN rows' : (i \in DOMAIN rows /\ rows'[i] = rows[i]) \/ rows'[i] = turn[t].q
    BY <1>0, <1>2, <2>2, TurnRows, RowAppended
  <2>4. \A u \in Turn : turn'[u].pc = "begin" => turn'[u].asks = 0
    BY <2>1 DEF InTurn, At
  <2> QED BY <1>1, <2>1, <2>3, <2>4
<1>3. ASSUME NEW t \in Turn, DropStep(t)
      PROVE  InTurn'
  <2>1. turn' = turn /\ rows' = rows
    BY <1>3 DEF DropStep, DropAnswer, DropWrite, store
  <2> QED BY <1>1, <2>1 DEF InTurn, At
<1>4. ASSUME NEW m \in Turn, Arrive(m)
      PROVE  InTurn'
  <2>1. \A i \in DOMAIN rows : rows[i] \in Turn /\ rows[i] < m
    <3> SUFFICES ASSUME NEW i \in DOMAIN rows PROVE rows[i] \in Turn /\ rows[i] < m
      OBVIOUS
    <3>1. rows[i] \in Turn /\ turn[rows[i]].pc # "idle" /\ turn[m].pc = "idle"
      BY <1>4, Arrives DEF InTurn, At
    <3>2. ~(m < rows[i]) /\ rows[i] # m
      BY <3>1 DEF InTurn, At
    <3> QED BY <3>1, <3>2 DEF Turn
  <2>2. turn'[m].q \in Turn /\ turn'[m].q <= m
    BY <1>4, <2>1, Arrives DEF Turn
  <2>3. /\ turn[m].pc = "idle" /\ turn'[m].pc = "begin" /\ rows' = rows
        /\ \A n \in Turn : n < m => turn[n].pc # "idle"
        /\ \A u \in Turn : u # m => turn'[u].pc = turn[u].pc /\ turn'[u].q = turn[u].q
    BY <1>4, Arrives
  <2>4. \A t, u \in Turn : t < u /\ turn'[u].pc # "idle" => turn'[t].pc # "idle"
    BY <2>3 DEF InTurn, At
  <2>5. \A t \in Turn : turn'[t].pc # "idle" => turn'[t].q \in Turn /\ turn'[t].q <= t
    BY <2>2, <2>3 DEF InTurn, At
  <2>6. \A i \in DOMAIN rows' : rows'[i] \in Turn /\ turn'[rows'[i]].pc # "idle"
    BY <2>3 DEF InTurn, At
  <2>7. \A u \in Turn : turn'[u].pc = "begin" => turn'[u].asks = 0
    BY <1>4, Arrives DEF InTurn, At
  <2> QED BY <2>4, <2>5, <2>6, <2>7 DEF InTurn, At
<1>5. CASE Stop
  <2>1. rows' = rows
    BY <1>5 DEF Stop, store
  <2> QED BY <1>1, <1>5, <2>1, CommandKeeps DEF InTurn, At
<1>6. CASE Undo
  <2>1. PICK i \in DOMAIN rows : rows' = RemoveAt(rows, i)
    BY <1>6 DEF Undo
  <2>2. \A j \in DOMAIN rows' : \E k \in DOMAIN rows : rows'[j] = rows[k]
    BY <1>0, <2>1, RowRemoved DEF TypeOK
  <2> QED BY <1>1, <1>6, <2>2, CommandKeeps DEF InTurn, At
<1>7. CASE Restart
  <2>1. rows' = rows
    BY <1>7 DEF Restart, store
  <2> QED BY <1>1, <1>7, <2>1, CommandKeeps DEF InTurn, At
<1>8. CASE UNCHANGED vars
  BY <1>1, <1>8 DEF InTurn, At, vars, locals, store
<1> QED BY <1>2, <1>3, <1>4, <1>5, <1>6, <1>7, <1>8 DEF Next

\* Turns that do not cross: nobody is after the one that is under way.
LEMMA OnlyOne ==
  ASSUME Typed, InTurn, Alone, NEW t \in Turn, turn[t].pc \notin {"idle", "done"}
  PROVE  /\ \A u \in Turn : u # t => turn[u].pc \in {"idle", "done"}
         /\ \A u \in Turn : turn[u].pc # "idle" => u <= t
<1>1. \A u \in Turn : t < u => turn[u].pc = "idle"
  BY DEF Alone, Over, At
<1>2. \A u \in Turn : u < t => turn[u].pc \in {"idle", "done"}
  BY DEF Alone, Over, At
<1> QED BY <1>1, <1>2 DEF Turn

\* The order of the transcript, when something of turn n is added at its end.
LEMMA OrderAppended ==
  ASSUME Typed, NEW e \in Entry, NEW n \in 0 .. T, trans' = Append(trans, e), e.of = n, UpTo(n),
         \A i, j \in DOMAIN trans : i < j => trans[i].of <= trans[j].of
  PROVE  /\ \A i, j \in DOMAIN trans' : i < j => trans'[i].of <= trans'[j].of
         /\ \A i \in DOMAIN trans' : (i \in DOMAIN trans /\ trans'[i] = trans[i]) \/ trans'[i].of = n
         /\ \A m \in 0 .. T : n <= m /\ UpTo(m) => UpTo(m)'
<1>1. trans \in Seq(Entry)
  BY DEF Typed, TypeOK
<1>2. /\ DOMAIN trans = 1 .. Len(trans) /\ Len(trans) \in Nat
      /\ DOMAIN trans' = 1 .. Len(trans) + 1
      /\ \A i \in 1 .. Len(trans) : trans'[i] = trans[i]
      /\ trans'[Len(trans) + 1] = e
  BY <1>1
<1>3. \A i \in DOMAIN trans' : (i \in DOMAIN trans /\ trans'[i] = trans[i]) \/ trans'[i].of = n
  BY <1>2
<1>4. ASSUME NEW i \in DOMAIN trans', NEW j \in DOMAIN trans', i < j
      PROVE  trans'[i].of <= trans'[j].of
  <2>1. i \in DOMAIN trans /\ trans'[i] = trans[i]
    BY <1>2, <1>4
  <2>2. CASE j \in DOMAIN trans
    <3>1. trans'[j] = trans[j]
      BY <1>2, <2>2
    <3> QED BY <1>4, <2>1, <2>2, <3>1
  <2>3. CASE j \notin DOMAIN trans
    <3>1. trans'[j] = e
      BY <1>2, <2>3
    <3> QED BY <2>1, <3>1 DEF UpTo
  <2> QED BY <2>2, <2>3
<1>5. ASSUME NEW m \in 0 .. T, n <= m, UpTo(m)
      PROVE  UpTo(m)'
  BY <1>3, <1>5 DEF UpTo
<1> QED BY <1>3, <1>4, <1>5

\* An entry is of a turn or the seed.
LEMMA OfTurn ==
  ASSUME Typed, NEW i \in DOMAIN trans
  PROVE  trans[i].of \in 0 .. T /\ (trans[i].of # 0 => trans[i].of \in Turn)
<1>1. trans[i] \in Entry
  BY DEF Typed, TypeOK
<1> QED BY <1>1 DEF Entry, Turn

LEMMA TurnAlone ==
  ASSUME Typed, InTurn, Alone, NEW t \in Turn, TurnStep(t) \/ Allow(t) \/ Deny(t)
  PROVE  Alone'
<1>1. /\ Forward(t) /\ turn[t].pc \in Past \cup {"begin"}
      /\ \A u \in Turn : u # t => turn'[u] = turn[u]
  BY TurnForward, OneTurnSteps DEF InTurn
<1>2. turn[t].pc \notin {"idle", "done"} /\ turn'[t].pc \notin {"idle", "begin"}
  BY <1>1 DEF Forward, Past
<1>3. \A u \in Turn : u # t => turn'[u].pc \in {"idle", "done"}
  BY <1>1, <1>2, OnlyOne
<1>4. ASSUME NEW u \in Turn PROVE drop'[u].pc = "none" /\ ~turn'[u].dropped
  <2>1. drop' = drop
    BY TurnRows DEF Alone, Typed
  <2>2. ~turn'[u].dropped
    <3>1. CASE u = t
      BY <1>1, <3>1 DEF Alone, Forward
    <3>2. CASE u # t
      BY <1>1, <3>2 DEF Alone
    <3> QED BY <3>1, <3>2
  <2> QED BY <2>1, <2>2 DEF Alone
<1>5. ASSUME NEW s \in Turn, NEW u \in Turn, turn'[s].pc \notin {"idle", "done"}, s < u
      PROVE  turn'[u].pc = "idle"
  <2>1. s = t /\ u # t
    BY <1>3, <1>5 DEF Turn
  <2>2. turn[u].pc = "idle"
    BY <1>2, <1>5, <2>1 DEF Alone, Over, At
  <2> QED BY <1>1, <2>1, <2>2
<1>6. ASSUME NEW u \in Turn, turn'[u].pc \in Past
      PROVE  paused'.of \in {0, u}
  <2>1. u = t
    BY <1>3, <1>6 DEF Past
  <2>2. CASE paused' = NoState \/ paused'.of = t
    BY <2>1, <2>2, NoStateIsState
  <2>3. CASE paused' = paused
    <3>1. CASE turn[t].pc \in Past
      BY <2>1, <2>3, <3>1 DEF Alone
    <3>2. CASE turn[t].pc \notin Past
      BY <1>1, <1>6, <2>1, <3>2, NoStateIsState DEF Forward
    <3> QED BY <3>1, <3>2
  <2> QED BY <1>1, <2>2, <2>3 DEF Forward
<1> QED BY <1>4, <1>5, <1>6 DEF Alone, Over, At

\* What is on record, in the map or about to be closed stays in order.
LEMMA TurnInOrder ==
  ASSUME Typed, InTurn, Alone, InOrder, NEW t \in Turn, TurnStep(t) \/ Allow(t) \/ Deny(t)
  PROVE  InOrder'
<1>1. /\ Forward(t) /\ Writes(t) /\ turn[t].pc \in Past \cup {"begin"}
      /\ \A u \in Turn : u # t => turn'[u] = turn[u]
  BY TurnForward, OneTurnSteps DEF InTurn
<1>2. turn[t].pc \notin {"idle", "done"} /\ turn'[t].pc \notin {"idle", "begin"}
  BY <1>1 DEF Forward, Past
<1>3. /\ \A u \in Turn : u # t => turn'[u].pc \in {"idle", "done"}
      /\ \A u \in Turn : turn[u].pc # "idle" => u <= t
  BY <1>1, <1>2, OnlyOne
<1>4. UpTo(t)
  <2> SUFFICES ASSUME NEW i \in DOMAIN trans PROVE trans[i].of <= t
    BY DEF UpTo
  <2>1. trans[i].of = 0 \/ (trans[i].of \in Turn /\ turn[trans[i].of].pc # "idle")
    BY OfTurn DEF InOrder, At
  <2> QED BY <1>3, <2>1 DEF Turn
<1>5. \A u \in Turn : turn[u].pc # "idle" => turn'[u].pc # "idle"
  BY <1>1, <1>2
<1>6. paused.of \in 0 .. T /\ (paused.of # 0 => paused.of \in Turn)
  BY DEF Typed, TypeOK, State, Turn
<1>7. turn[t].pc \in Shutting =>
        turn[t].old.of \in Turn /\ turn[turn[t].old.of].pc # "idle" /\ UpTo(turn[t].old.of)
  BY DEF Typed, Phases, Own, InOrder, At, Shutting
<1> DEFINE n == Writer(t)
<1>8. /\ n \in Turn /\ n <= t /\ UpTo(n) /\ turn[n].pc # "idle"
      /\ turn[t].pc \in Shutting => n = turn[t].old.of
  <2>1. CASE turn[t].pc \in Shutting
    BY <1>3, <1>7, <2>1 DEF Writer
  <2>2. CASE turn[t].pc \notin Shutting
    <3>1. t <= t
      BY DEF Turn
    <3> QED BY <1>2, <1>4, <2>2, <3>1 DEF Writer
  <2> QED BY <2>1, <2>2
<1>9. trans' = trans \/ (turn[t].pc \in Past /\ \E e \in Entry : trans' = Append(trans, e) /\ e.of = n)
  BY <1>1 DEF Writes
<1> HIDE DEF n
<1>10. /\ \A i, j \in DOMAIN trans' : i < j => trans'[i].of <= trans'[j].of
       /\ \A i \in DOMAIN trans' : (i \in DOMAIN trans /\ trans'[i] = trans[i]) \/ trans'[i].of = n
       /\ \A m \in 0 .. T : n <= m /\ UpTo(m) => UpTo(m)'
  <2>1. CASE trans' = trans
    BY <2>1 DEF InOrder, UpTo
  <2>2. ASSUME NEW e \in Entry, trans' = Append(trans, e), e.of = n
        PROVE  /\ \A i, j \in DOMAIN trans' : i < j => trans'[i].of <= trans'[j].of
               /\ \A i \in DOMAIN trans' : (i \in DOMAIN trans /\ trans'[i] = trans[i]) \/ trans'[i].of = n
               /\ \A m \in 0 .. T : n <= m /\ UpTo(m) => UpTo(m)'
    <3>1. n \in 0 .. T /\ \A i, j \in DOMAIN trans : i < j => trans[i].of <= trans[j].of
      BY <1>8, Bounds DEF InOrder
    <3> QED BY <1>8, <2>2, <3>1, OrderAppended
  <2> QED BY <1>9, <2>1, <2>2
<1>11. ASSUME NEW i \in DOMAIN trans', trans'[i].of \in Turn
       PROVE  turn'[trans'[i].of].pc # "idle"
  BY <1>5, <1>8, <1>10, <1>11 DEF InOrder, At
<1>12. ASSUME paused'.of # 0
       PROVE  turn'[paused'.of].pc # "idle" /\ UpTo(paused.of)'
  <2>1. CASE paused' = NoState
    BY <1>12, <2>1, NoStateIsState
  <2> DEFINE p == paused'.of
  <2>2. CASE p = t
    <3>1. UpTo(t)'
      BY <1>4, <1>8, <1>10, Bounds
    <3> QED BY <1>2, <2>2, <3>1 DEF UpTo
  <2>3. CASE paused' = paused
    <3> DEFINE o == paused.of
    <3>0. o \in Turn /\ turn[o].pc # "idle" /\ UpTo(o) /\ p = o
      BY <1>6, <1>12, <2>3 DEF InOrder, At
    <3>1. CASE trans' = trans
      BY <1>5, <2>3, <3>0, <3>1 DEF UpTo
    <3>2. CASE turn[t].pc \in Past
      <4>1. o = t
        BY <3>0, <3>2, Bounds DEF Alone
      <4> QED BY <2>2, <3>0, <4>1
    <3> QED BY <1>9, <3>1, <3>2
  <2> QED BY <1>1, <2>1, <2>2, <2>3 DEF Forward
<1>13. ASSUME NEW u \in Turn, turn'[u].pc \in Shutting
       PROVE  turn'[turn'[u].old.of].pc # "idle" /\ UpTo(turn[u].old.of)'
  <2>1. u = t
    BY <1>3, <1>13 DEF Shutting
  <2> DEFINE o == turn'[t].old.of
  <2>2. CASE turn[t].pc = "begin" /\ turn'[t].old = paused /\ paused # NoState
    <3>1. trans' = trans
      BY <1>9, <2>2 DEF Past
    <3>2. paused.of \in Turn /\ turn[paused.of].pc # "idle" /\ UpTo(paused.of)
      BY <2>2, Bounds DEF Typed, Phases, InOrder, At
    <3> QED BY <1>5, <2>1, <2>2, <3>1, <3>2 DEF UpTo
  <2>3. CASE turn[t].pc \in Shutting /\ turn'[t].old = turn[t].old
    <3>1. n \in 0 .. T /\ n <= n
      BY <1>8, Bounds DEF Turn
    <3> PICK m \in 0 .. T : m = n
      BY <3>1
    <3>2. UpTo(m)'
      BY <1>8, <1>10, <3>1
    <3>3. turn'[m].pc # "idle" /\ turn'[u].old.of = m
      BY <1>5, <1>8, <2>1, <2>3
    <3> QED BY <3>2, <3>3 DEF UpTo
  <2> QED BY <1>1, <1>13, <2>1, <2>2, <2>3 DEF Forward
<1>14. \A i, j \in DOMAIN trans' : i < j => trans'[i].of <= trans'[j].of
  BY <1>10
<1> QED BY <1>11, <1>12, <1>13, <1>14 DEF InOrder, At

LEMMA ArriveUncrossed ==
  ASSUME Typed, InTurn, Alone, InOrder, NEW m \in Turn, Arrive(m), ~crossed'
  PROVE  Alone' /\ InOrder'
<1>1. /\ \A u \in Turn : turn[u].pc \in {"idle", "done"}
      /\ turn[m].pc = "idle" /\ turn'[m].pc = "begin" /\ ~turn'[m].dropped
      /\ \A n \in Turn : n < m => turn[n].pc # "idle"
      /\ \A u \in Turn : u # m => turn'[u].pc = turn[u].pc /\ ~turn'[u].dropped
      /\ drop' = drop /\ paused' = paused /\ trans' = trans
  <2>1. \A u \in Turn : turn[u].pc \in {"idle", "done"}
    BY Arrives DEF Over
  <2>2. \A u \in Turn : u # m => turn'[u].pc = turn[u].pc /\ ~turn'[u].dropped
    BY <2>1, Arrives DEF Alone
  <2> QED BY <2>1, <2>2, Arrives
<1>2. \A u \in Turn : drop'[u].pc = "none" /\ ~turn'[u].dropped
  BY <1>1 DEF Alone
<1>3. \A u \in Turn : m < u => turn'[u].pc = "idle"
  <2> SUFFICES ASSUME NEW u \in Turn, m < u PROVE turn'[u].pc = "idle"
    OBVIOUS
  <2>1. turn[u].pc = "idle" /\ u # m
    BY <1>1 DEF InTurn, At, Turn
  <2> QED BY <1>1, <2>1
<1>4. \A u \in Turn : turn'[u].pc \notin Past /\ (turn'[u].pc \notin {"idle", "done"} => u = m)
  BY <1>1 DEF Past
<1>5. \A u \in Turn : turn[u].pc # "idle" => turn'[u].pc # "idle"
  BY <1>1
<1>6. Alone'
  BY <1>2, <1>3, <1>4 DEF Alone, Over, At
<1>7. paused.of # 0 => paused.of \in Turn
  BY DEF Typed, TypeOK, State, Turn
<1>8. InOrder'
  <2>1. \A u \in Turn : turn'[u].pc \notin Shutting
    BY <1>4 DEF Past, Shutting
  <2> QED BY <1>1, <1>5, <1>7, <2>1 DEF InOrder, At, UpTo
<1> QED BY <1>6, <1>8

LEMMA CommandUncrossed ==
  ASSUME Typed, InTurn, Alone, InOrder, Stop \/ Undo \/ Restart \/ UNCHANGED vars
  PROVE  Alone' /\ InOrder'
<1>1. /\ \A u \in Turn :
              /\ \/ turn'[u].pc = "done" /\ turn[u].pc # "idle"
                 \/ turn'[u].pc = turn[u].pc /\ turn'[u].old = turn[u].old
              /\ turn'[u].dropped => turn[u].dropped
              /\ drop[u].pc = "none" => drop'[u].pc = "none"
      /\ paused' = paused \/ paused' = NoState
      /\ trans' = trans \/ trans' = Trim(trans)
  <2>1. CASE UNCHANGED vars
    BY <2>1 DEF vars, locals, store
  <2> QED BY <2>1, CommandKeeps
<1>2. \A i \in DOMAIN trans' : i \in DOMAIN trans /\ trans'[i] = trans[i]
  <2>1. trans \in Seq(Entry)
    BY DEF Typed, TypeOK
  <2> QED BY <1>1, <2>1, Trimming
<1>3. Alone'
  <2>1. \A u \in Turn : drop'[u].pc = "none" /\ ~turn'[u].dropped
    BY <1>1 DEF Alone
  <2>2. ASSUME NEW t \in Turn, NEW u \in Turn, turn'[t].pc \notin {"idle", "done"}, t < u
        PROVE  turn'[u].pc = "idle"
    <3>1. turn[t].pc \notin {"idle", "done"}
      BY <1>1, <2>2
    <3>2. turn[u].pc = "idle"
      BY <2>2, <3>1 DEF Alone, Over, At
    <3> QED BY <1>1, <3>2
  <2>3. ASSUME NEW t \in Turn, turn'[t].pc \in Past
        PROVE  paused'.of \in {0, t}
    <3>1. turn[t].pc \in Past
      BY <1>1, <2>3 DEF Past
    <3>2. paused.of \in {0, t}
      BY <3>1 DEF Alone
    <3> QED BY <1>1, <3>2, NoStateIsState
  <2> QED BY <2>1, <2>2, <2>3 DEF Alone, Over, At
<1>4. \A u \in Turn : turn[u].pc # "idle" => turn'[u].pc # "idle"
  BY <1>1
<1>5. \A m : UpTo(m) => UpTo(m)'
  BY <1>2 DEF UpTo
<1>6. InOrder'
  <2>1. \A i \in DOMAIN trans' : trans'[i].of \in Turn => turn'[trans'[i].of].pc # "idle"
    BY <1>2, <1>4 DEF InOrder, At
  <2>2. \A i, j \in DOMAIN trans' : i < j => trans'[i].of <= trans'[j].of
    BY <1>2 DEF InOrder
  <2>3. ASSUME paused'.of # 0
        PROVE  turn'[paused'.of].pc # "idle" /\ UpTo(paused.of)'
    <3>1. paused' = paused
      BY <1>1, <2>3, NoStateIsState
    <3>2. paused.of \in Turn /\ turn[paused.of].pc # "idle" /\ UpTo(paused.of)
      BY <2>3, <3>1 DEF InOrder, At, Typed, TypeOK, State, Turn
    <3> QED BY <1>2, <1>4, <3>1, <3>2 DEF UpTo
  <2>4. ASSUME NEW u \in Turn, turn'[u].pc \in Shutting
        PROVE  turn'[turn'[u].old.of].pc # "idle" /\ UpTo(turn[u].old.of)'
    <3>1. turn'[u].pc = turn[u].pc /\ turn'[u].old = turn[u].old
      BY <1>1, <2>4 DEF Shutting
    <3>2. turn[u].old.of \in Turn /\ turn[turn[u].old.of].pc # "idle" /\ UpTo(turn[u].old.of)
      BY <2>4, <3>1 DEF InOrder, At, Typed, Phases, Own, Shutting
    <3> QED BY <1>2, <1>4, <3>1, <3>2 DEF UpTo
  <2> QED BY <2>1, <2>2, <2>3, <2>4 DEF InOrder, At
<1> QED BY <1>3, <1>6

LEMMA UncrossedKeeps ==
  ASSUME Typed, InTurn, Uncrossed, [Next]_vars
  PROVE  Uncrossed'
<1> SUFFICES ASSUME ~crossed' PROVE Alone' /\ InOrder'
  BY DEF Uncrossed
<1>1. ASSUME NEW t \in Turn, TurnStep(t) \/ Allow(t) \/ Deny(t)
      PROVE  Alone' /\ InOrder'
  <2>1. ~crossed
    BY <1>1, TurnRows DEF Typed
  <2> QED BY <1>1, <2>1, TurnAlone, TurnInOrder DEF Uncrossed
<1>2. ASSUME NEW t \in Turn, DropStep(t)
      PROVE  Alone' /\ InOrder'
  <2>1. ~crossed
    BY <1>2 DEF DropStep, DropAnswer, DropWrite, history
  <2>2. drop[t].pc # "none"
    BY <1>2 DEF DropStep, DropAnswer, DropWrite
  <2> QED BY <2>1, <2>2 DEF Uncrossed, Alone
<1>3. ASSUME NEW m \in Turn, Arrive(m)
      PROVE  Alone' /\ InOrder'
  <2>1. ~crossed
    BY <1>3, Arrives
  <2> QED BY <1>3, <2>1, ArriveUncrossed DEF Uncrossed
<1>4. CASE Stop \/ Undo \/ Restart \/ UNCHANGED vars
  <2>1. ~crossed
    BY <1>4, CommandKeeps DEF vars, history
  <2> QED BY <1>4, <2>1, CommandUncrossed DEF Uncrossed
<1> QED BY <1>1, <1>2, <1>3, <1>4 DEF Next

\* Only /undo makes the rows fewer.
LEMMA FewerRows ==
  ASSUME Typed, [Next]_vars, Len(rows') < Len(rows)
  PROVE  Undo
<1>1. rows \in Seq(0 .. T) /\ Len(rows) \in Nat
  BY DEF Typed, TypeOK
<1>2. ~(rows' = rows)
  BY <1>1
<1>3. \A q : ~(rows' = Append(rows, q))
  BY <1>1
<1>4. \A t \in Turn : ~(TurnStep(t) \/ Allow(t) \/ Deny(t))
  BY <1>2, <1>3, TurnRows DEF Typed
<1>5. \A t \in Turn : ~DropStep(t) /\ ~Arrive(t)
  BY <1>2 DEF DropStep, DropAnswer, DropWrite, Arrive, store
<1>6. ~Stop /\ ~Restart /\ ~UNCHANGED vars
  BY <1>2 DEF Stop, Restart, vars, store
<1> QED BY <1>4, <1>5, <1>6 DEF Next

\* What Trim takes is among the newest two.
LEMMA TakesTwo ==
  ASSUME NEW S, NEW s \in Seq(S), NEW e \in ToSet(s) \ ToSet(Trim(s))
  PROVE  \E k \in DOMAIN s : e = s[k] /\ \A i, j \in DOMAIN s : i < j => i <= k
<1>1. PICK k \in DOMAIN s : e = s[k]
  BY DEF ToSet
<1>2. DOMAIN s = 1 .. Len(s) /\ Len(s) \in Nat
  OBVIOUS
<1>3. k >= Len(s) - 1
  <2>1. CASE Len(s) < 2
    BY <1>2, <2>1
  <2>2. CASE Len(s) >= 2
    <3> DEFINE n == Len(s) - 2
    <3>1. n \in Nat /\ n <= Len(s) /\ ~(Len(s) < 2)
      BY <1>2, <2>2
    <3>2. Trim(s) = SubSeq(s, 1, n)
      BY <3>1 DEF Trim
    <3> HIDE DEF n
    <3>3. \A i \in 1 .. n : s[i] \in S
      BY <3>1
    <3>4. /\ SubSeq(s, 1, n) \in Seq(S) /\ DOMAIN SubSeq(s, 1, n) = 1 .. n
          /\ \A i \in 1 .. n : SubSeq(s, 1, n)[i] = s[i]
      BY <3>1, <3>3
    <3>5. k \notin 1 .. n
      <4>1. ASSUME k \in 1 .. n PROVE e \in ToSet(Trim(s))
        BY <1>1, <3>2, <3>4, <4>1 DEF ToSet
      <4> QED BY <4>1
    <3> QED BY <1>2, <3>1, <3>5 DEF n
  <2> QED BY <1>2, <2>1, <2>2
<1> QED BY <1>1, <1>2, <1>3

LEMMA TakesNoOther ==
  ASSUME Typed, InTurn, Uncrossed, [Next]_vars, Len(rows') < Len(rows), ~crossed,
         OnRecord(Last(rows)), NEW e \in ToSet(trans) \ ToSet(trans')
  PROVE  e.of >= Last(rows)
<1> DEFINE q == Last(rows)
<1>1. trans' = Trim(trans) /\ trans \in Seq(Entry)
  BY FewerRows DEF Undo, Typed, TypeOK
<1>2. PICK k \in DOMAIN trans : e = trans[k] /\ \A i, j \in DOMAIN trans : i < j => i <= k
  BY <1>1, TakesTwo
<1>3. PICK i \in DOMAIN trans, j \in DOMAIN trans : i < j /\ IsOf(q, trans[i].of)
  BY DEF OnRecord
<1> HIDE DEF q
<1>4. trans[i].of \in Turn /\ turn[trans[i].of].q = q /\ turn[trans[i].of].pc # "idle"
  BY <1>3, OfTurn DEF IsOf, Uncrossed, InOrder, At
<1>5. q \in Turn /\ q <= trans[i].of
  BY <1>4 DEF InTurn, At
<1>6. trans[i].of <= trans[k].of
  <2>1. i = k \/ i < k
    <3>1. i \in Nat /\ k \in Nat /\ i <= k
      BY <1>1, <1>2, <1>3
    <3> QED BY <3>1
  <2>2. CASE i < k
    BY <2>2 DEF Uncrossed, InOrder
  <2>3. CASE i = k
    BY <1>4, <2>3 DEF Turn
  <2> QED BY <2>1, <2>2, <2>3
<1>7. trans[k].of \in 0 .. T
  BY OfTurn
<1>8. e.of >= q
  BY <1>2, <1>4, <1>5, <1>6, <1>7 DEF Turn
<1> QED BY <1>8 DEF q

\* /undo of the newest question, when that is on record and no turn crossed
\* another, takes nothing of a turn before it and not the seed, for any number
\* of turns, questions asked again, calls, restarts and failures: the
\* transcript is in the order of the turns, and whoever may still write to it,
\* the turn under way, the state in the map, the one it closes, comes after
\* what is there.
THEOREM UndoAlwaysTakesNoOther == Spec => UndoTakesNoOther
<1>1. Init => Typed /\ InTurn /\ Uncrossed
  <2> SUFFICES ASSUME Init PROVE Typed /\ InTurn /\ Uncrossed
    OBVIOUS
  <2>1. \A t \in Turn : turn[t].pc = "idle" /\ ~turn[t].dropped /\ drop[t].pc = "none"
    BY DEF Init, IdleTurn, NoDrop
  <2>2. InTurn
    BY <2>1 DEF Init, InTurn, At
  <2>3. Alone
    BY <2>1 DEF Alone, Over, At, Past
  <2>4. \A i \in DOMAIN trans : trans[i].of = 0
    BY DEF Init, Seed
  <2>5. InOrder
    <3>1. paused.of = 0
      BY NoStateIsState DEF Init
    <3>2. \A i, j \in DOMAIN trans : trans[i].of <= trans[j].of
      BY <2>4
    <3> QED BY <2>1, <2>4, <3>1, <3>2, Bounds DEF InOrder, At, Shutting
  <2> QED BY <2>2, <2>3, <2>5, TypeInit DEF Uncrossed
<1>2. (Typed /\ InTurn /\ Uncrossed) /\ [Next]_vars => (Typed /\ InTurn /\ Uncrossed)'
  BY TypeKeeps, InTurnKeeps, UncrossedKeeps
<1>3. (Typed /\ InTurn /\ Uncrossed) /\ [Next]_vars =>
        [ Len(rows') < Len(rows) /\ rows' = Front(rows) /\ ~crossed /\ OnRecord(Last(rows)) =>
            \A e \in ToSet(trans) \ ToSet(trans') : e.of >= Last(rows) ]_vars
  BY TakesNoOther
<1> QED BY <1>1, <1>2, <1>3, PTL DEF Spec, UndoTakesNoOther
=============================================================================
