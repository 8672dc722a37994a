-------------------------- MODULE Questions_proofs --------------------------
(***************************************************************************)
(* What is proved of Questions, for any number of messages, questions and  *)
(* rounds: the types, that the registry of open questions holds only one   *)
(* that its turn is still awaiting, and that a message that drops one goes *)
(* on after it.  What a step makes of the turns is shown first             *)
(* (TurnsEvolve, and TurnsGrow for the last), then what it does to the     *)
(* rest of the state (Others, OffersMove); the invariants follow from it.  *)
(***************************************************************************)
EXTENDS Questions, TLAPS

Pcs == {"idle", "spawned", "begin", "sending", "loop", "poll", "row", "await",
        "arming", "select", "settle", "leave", "answer", "post", "advance",
        "finish", "done"}

Asking == {"poll", "row", "await", "arming", "select", "settle", "leave"}

\* A turn that is asking has a round and a question.
IsNumbered(r) == r.pc \in Asking => r.round # 0 /\ r.q # 0

\* The types, with what makes them inductive: numbers of questions, and that
\* a message's turn runs only once the message has been taken as one.
TypeInv ==
  /\ TypeOK
  /\ \A t \in Turn : IsNumbered(turn[t])
  /\ \A m \in Turn : msg[m] # "turn" => turn[m].pc = "idle"

\* What a step may make of turn t: unless the registry is emptied it does not
\* leave a question it awaits, and only a message that is taken begins it.
Stays(t, r) ==
  turn[t].pc \in Awaiting =>
    r.pc \in Awaiting /\ r.round = turn[t].round /\ r.q = turn[t].q

Evolves(t, r) ==
  /\ r \in TurnRec /\ IsNumbered(r)
  /\ pending' # None => Stays(t, r)
  /\ turn[t].pc = "idle" => r.pc = "idle" \/ msg'[t] = "turn"

TurnsEvolve ==
  turn' \in [Turn -> TurnRec] /\ \A t \in Turn : Evolves(t, turn'[t])

\* The variables but turn.
OthersOK ==
  /\ reg \in 0 .. M /\ tip \in 0 .. M
  /\ pending \in Poll \cup {None}
  /\ msg \in [Turn -> {"unsent", "answer", "dropping", "closing", "turn",
                       "stop"}]
  /\ drops \in [Turn -> Poll \cup {None}]
  /\ open \subseteq Poll /\ rows \subseteq Poll
  /\ call \in [Turn -> {"none", "staged", "resolved", "unheard"}]
  /\ content \in [Turn -> SUBSET Piece]
  /\ closing \subseteq Turn
  /\ repeated \subseteq posted /\ posted \subseteq Turn \X Piece

TurnsStay == \A m \in Turn : msg[m] = "turn" => msg'[m] = "turn"

Others == OthersOK' /\ TurnsStay /\ pending' \in {pending, None}

USE QuestionsAssumption

-----------------------------------------------------------------------------
(* Records of turns.                                                       *)

LEMMA PcType ==
  ASSUME NEW r \in TurnRec, NEW pc \in Pcs
  PROVE  LET s == [r EXCEPT !.pc = pc]
         IN  s \in TurnRec /\ s.pc = pc /\ s.round = r.round /\ s.q = r.q
  BY DEF TurnRec, Pcs

LEMMA NextType ==
  ASSUME NEW r \in TurnRec, NEW q \in 0 .. Q
  PROVE  LET s == [r EXCEPT !.pc = "poll", !.q = q]
         IN  s \in TurnRec /\ s.pc = "poll" /\ s.round = r.round /\ s.q = q
  BY DEF TurnRec

LEMMA IdleType == IdleTurn \in TurnRec /\ IdleTurn.pc = "idle"
  BY DEF TurnRec, IdleTurn, Outcome

LEMMA SpawnedType ==
  ASSUME NEW m
  PROVE  Spawned(m) \in TurnRec /\ Spawned(m).pc = "spawned"
  BY IdleType, PcType DEF Spawned, Pcs

\* Whatever reaches a turn leaves it where it is, or gets it out of its select.
LEMMA ReachedType ==
  ASSUME TypeInv, NEW t \in Turn, NEW e \in Event
  PROVE  Evolves(t, Reached(t, e))
<1>1. turn[t] \in TurnRec /\ IsNumbered(turn[t])
  BY DEF TypeInv, TypeOK
<1>2. CASE turn[t].pc = "select"
  <2>1. Reached(t, e) = [turn[t] EXCEPT !.pc = "settle", !.out = e]
    BY <1>2 DEF Reached
  <2>2. e \in Outcome /\ "settle" \in Pcs
    BY DEF Outcome, Pcs
  <2> DEFINE s == Reached(t, e)
  <2> HIDE DEF s
  <2>3. s = [turn[t] EXCEPT !.pc = "settle", !.out = e]
    BY <2>1 DEF s
  <2>4. /\ s \in TurnRec /\ s.pc = "settle"
        /\ s.round = turn[t].round /\ s.q = turn[t].q
    BY <1>1, <2>2, <2>3 DEF TurnRec, Outcome, Event
  <2> QED
    BY <1>1, <1>2, <2>4 DEF Evolves, IsNumbered, Asking, Awaiting, Stays, s
<1>3. CASE turn[t].pc \in {"await", "arming"}
  <2>1. Reached(t, e) = [turn[t] EXCEPT !.ready = @ \cup {e}]
    BY <1>3 DEF Reached
  <2>2. /\ Reached(t, e) \in TurnRec /\ Reached(t, e).pc = turn[t].pc
        /\ Reached(t, e).round = turn[t].round /\ Reached(t, e).q = turn[t].q
    BY <1>1, <2>1 DEF TurnRec
  <2> QED
    BY <1>1, <1>3, <2>2 DEF Evolves, IsNumbered, Awaiting, Stays
<1>4. CASE turn[t].pc \notin {"select", "await", "arming"}
  <2>1. Reached(t, e) = turn[t]
    BY <1>4 DEF Reached
  <2> QED
    BY <1>1, <2>1 DEF Evolves, Stays
<1> QED
  BY <1>2, <1>3, <1>4

LEMMA CancelledType ==
  ASSUME TypeInv, NEW t \in Turn
  PROVE  Evolves(t, Cancelled(t))
<1> DEFINE r == Reached(t, "cancelled")
<1>1. Evolves(t, r)
  BY ReachedType DEF Event
<1>2. /\ Cancelled(t) \in TurnRec /\ Cancelled(t).pc = r.pc
      /\ Cancelled(t).round = r.round /\ Cancelled(t).q = r.q
  BY <1>1 DEF Cancelled, Evolves, TurnRec
<1> QED
  BY <1>1, <1>2 DEF Evolves, IsNumbered, Stays

LEMMA AfterQuestionType ==
  ASSUME TypeInv, NEW t \in Turn, turn[t].pc \in Asking, NEW out \in Outcome
  PROVE  /\ AfterQuestion(t, out) \in TurnRec
         /\ IsNumbered(AfterQuestion(t, out))
<1> DEFINE r == [turn[t] EXCEPT !.out = out, !.ready = {}]
<1>1. turn[t] \in TurnRec /\ turn[t].round # 0 /\ turn[t].q # 0
  BY DEF TypeInv, TypeOK, IsNumbered
<1>2. r \in TurnRec /\ r.round = turn[t].round /\ r.q = turn[t].q
  BY <1>1 DEF TurnRec
<1>3. turn[t].q \in 0 .. Q
  BY <1>1 DEF TurnRec
<1> HIDE DEF r
<1>4. CASE out = "dropped"
  <2>1. AfterQuestion(t, out) = [r EXCEPT !.pc = "finish"]
    BY <1>4 DEF AfterQuestion, r
  <2>2. [r EXCEPT !.pc = "finish"] \in TurnRec
        /\ [r EXCEPT !.pc = "finish"].pc = "finish"
    BY <1>2, PcType DEF Pcs
  <2> QED
    BY <2>1, <2>2 DEF IsNumbered, Asking
<1>5. CASE out # "dropped" /\ turn[t].q < Q
  <2> DEFINE q == turn[t].q + 1
             s == [r EXCEPT !.pc = "poll", !.q = q]
  <2>1. q \in 0 .. Q /\ q # 0
    BY <1>3, <1>5
  <2>2. s = [r EXCEPT !.pc = "poll", !.q = r.q + 1]
    BY <1>2
  <2>3. AfterQuestion(t, out) = [r EXCEPT !.pc = "poll", !.q = r.q + 1]
    BY <1>5 DEF AfterQuestion, r, TurnRec
  <2> HIDE DEF q
  <2>4. s \in TurnRec /\ s.round = r.round /\ s.q = q
    BY <1>2, <2>1, NextType
  <2> HIDE DEF s
  <2> QED
    BY <1>1, <1>2, <2>1, <2>2, <2>3, <2>4 DEF IsNumbered
<1>6. CASE out # "dropped" /\ ~(turn[t].q < Q)
  <2>1. AfterQuestion(t, out) = [r EXCEPT !.pc = "answer"]
    BY <1>6 DEF AfterQuestion, r
  <2>2. [r EXCEPT !.pc = "answer"] \in TurnRec
        /\ [r EXCEPT !.pc = "answer"].pc = "answer"
    BY <1>2, PcType DEF Pcs
  <2> QED
    BY <2>1, <2>2 DEF IsNumbered, Asking
<1> QED
  BY <1>4, <1>5, <1>6

LEMMA PollOfType ==
  ASSUME TypeInv, NEW t \in Turn, turn[t].pc \in Asking
  PROVE  PollOf(t) \in Poll
<1>1. turn[t] \in TurnRec /\ turn[t].round # 0 /\ turn[t].q # 0
  BY DEF TypeInv, TypeOK, IsNumbered
<1>2. turn[t].round \in 1 .. AskLimit /\ turn[t].q \in 1 .. Q
  BY <1>1 DEF TurnRec
<1> QED
  BY <1>2 DEF PollOf, Poll

-----------------------------------------------------------------------------
(* What each step of a turn does to it.                                    *)

LEMMA OneEvolves ==
  ASSUME TypeInv, NEW t \in Turn, NEW r, Evolves(t, r),
         turn' = [turn EXCEPT ![t] = r]
  PROVE  TurnsEvolve
<1>1. turn \in [Turn -> TurnRec] /\ \A u \in Turn : IsNumbered(turn[u])
  BY DEF TypeInv, TypeOK
<1>2. turn' \in [Turn -> TurnRec] /\ turn'[t] = r
  BY <1>1 DEF Evolves
<1>3. \A u \in Turn \ {t} : turn'[u] = turn[u] /\ Evolves(u, turn[u])
  BY <1>1 DEF Evolves, Stays
<1> QED
  BY <1>2, <1>3 DEF TurnsEvolve

LEMMA StepMoves ==
  ASSUME TypeInv, NEW t \in Turn, NEW from \in Pcs, NEW to \in Pcs,
         Step(t, from, to), from # "idle",
         to \in Asking => from \in Asking,
         from \in Awaiting => to \in Awaiting
  PROVE  TurnsEvolve
<1>1. turn[t] \in TurnRec /\ IsNumbered(turn[t]) /\ turn[t].pc = from
  BY DEF TypeInv, TypeOK, Step
<1> DEFINE r == [turn[t] EXCEPT !.pc = to]
<1>2. r \in TurnRec /\ r.pc = to /\ r.round = turn[t].round /\ r.q = turn[t].q
  BY <1>1, PcType
<1>3. turn' = [turn EXCEPT ![t] = r]
  BY <1>1 DEF Step, TypeInv, TypeOK, TurnRec
<1> HIDE DEF r
<1>4. Evolves(t, r)
  BY <1>1, <1>2 DEF Evolves, Stays, IsNumbered
<1> QED
  BY <1>3, <1>4, OneEvolves

\* A turn that is not asking.
LEMMA AwayMoves ==
  ASSUME TypeInv, NEW t \in Turn, NEW r \in TurnRec,
         turn' = [turn EXCEPT ![t] = r],
         turn[t].pc \notin Awaiting, turn[t].pc # "idle", r.pc \notin Asking
  PROVE  TurnsEvolve
<1>1. Evolves(t, r)
  BY DEF Evolves, Stays, IsNumbered
<1> QED
  BY <1>1, OneEvolves

LEMMA ReplyMoves ==
  ASSUME TypeInv, NEW t \in Turn, turn[t].pc \in {"sending", "answer"},
         Finishes(t) \/ StopsToAsk(t)
  PROVE  /\ TurnsEvolve
         /\ content' \in [Turn -> SUBSET Piece]
         /\ call' \in [Turn -> {"none", "staged", "resolved", "unheard"}]
<1>1. /\ turn[t] \in TurnRec /\ content[t] \in SUBSET Piece
      /\ call \in [Turn -> {"none", "staged", "resolved", "unheard"}]
      /\ content \in [Turn -> SUBSET Piece]
  BY DEF TypeInv, TypeOK
<1>2. turn[t].round + 1 \in Piece /\ turn[t].said \in SUBSET Piece
  BY <1>1 DEF TurnRec, Piece
<1>3. ASSUME NEW whole \in SUBSET Piece, NEW pc \in {"post", "loop"},
             NEW ask \in BOOLEAN,
             turn' = [turn EXCEPT ![t] =
                        [@ EXCEPT !.pc = pc, !.ask = ask,
                                  !.text = WithoutPrefix(whole, turn[t].said)]]
      PROVE  TurnsEvolve
  <2> DEFINE text == WithoutPrefix(whole, turn[t].said)
             r == [turn[t] EXCEPT !.pc = pc, !.ask = ask, !.text = text]
  <2>1. text \in SUBSET Piece
    BY <1>2, <1>3 DEF WithoutPrefix
  <2> HIDE DEF text
  <2>2. r \in TurnRec /\ r.pc = pc
    BY <1>1, <2>1 DEF TurnRec
  <2>3. turn' = [turn EXCEPT ![t] = r]
    BY <1>3 DEF text
  <2> HIDE DEF r
  <2> QED
    BY <2>2, <2>3, AwayMoves DEF Asking, Awaiting
<1>4. CASE Finishes(t)
  <2> DEFINE whole == content[t] \cup {turn[t].round + 1}
  <2>1. whole \in SUBSET Piece
    BY <1>1, <1>2
  <2>2. /\ turn' = [turn EXCEPT ![t] =
                      [@ EXCEPT !.pc = "post", !.ask = FALSE,
                                !.text = WithoutPrefix(whole, turn[t].said)]]
        /\ content' = [content EXCEPT ![t] = whole]
        /\ call' = [call EXCEPT ![t] = IF @ = "none" THEN @ ELSE "resolved"]
    BY <1>4 DEF Finishes
  <2> HIDE DEF whole
  <2> QED
    BY <1>1, <1>3, <2>1, <2>2
<1>5. CASE StopsToAsk(t)
  <2>1. PICK more \in SUBSET {turn[t].round + 1} :
          /\ turn' = [turn EXCEPT ![t] =
                 [@ EXCEPT !.pc = "loop", !.ask = TRUE,
                           !.text = WithoutPrefix(content[t] \cup more,
                                                  turn[t].said)]]
          /\ content' = [content EXCEPT ![t] = content[t] \cup more]
          /\ call' = [call EXCEPT ![t] = "staged"]
    BY <1>5 DEF StopsToAsk
  <2>2. content[t] \cup more \in SUBSET Piece
    BY <1>1, <1>2
  <2> QED
    BY <1>1, <1>3, <2>1, <2>2
<1> QED
  BY <1>4, <1>5

LEMMA BeginMoves ==
  ASSUME TypeInv, NEW t \in Turn, Begin(t)
  PROVE  TurnsEvolve
<1>1. turn[t] \in TurnRec /\ turn[t].pc = "begin" /\ tip \in 0 .. M
  BY DEF TypeInv, TypeOK, Begin
<1>2. CASE turn[t].stop
  <2> DEFINE r == [turn[t] EXCEPT !.pc = "finish"]
  <2>1. r \in TurnRec /\ r.pc = "finish"
    BY <1>1, PcType DEF Pcs
  <2>2. turn' = [turn EXCEPT ![t] = r]
    BY <1>2 DEF Begin
  <2> HIDE DEF r
  <2> QED
    BY <1>1, <2>1, <2>2, AwayMoves DEF Asking, Awaiting
<1>3. CASE ~turn[t].stop
  <2> DEFINE r == [turn[t] EXCEPT !.pc = "sending", !.from = tip]
  <2>1. r \in TurnRec /\ r.pc = "sending"
    BY <1>1 DEF TurnRec
  <2>2. turn' = [turn EXCEPT ![t] = r]
    BY <1>3 DEF Begin
  <2> HIDE DEF r
  <2> QED
    BY <1>1, <2>1, <2>2, AwayMoves DEF Asking, Awaiting
<1> QED
  BY <1>2, <1>3

LEMMA StartRoundMoves ==
  ASSUME TypeInv, NEW t \in Turn, StartRound(t)
  PROVE  TurnsEvolve
<1>1. /\ turn[t] \in TurnRec /\ turn[t].pc = "loop"
      /\ turn[t].round < AskLimit
  BY DEF TypeInv, TypeOK, StartRound
<1> DEFINE a == [turn[t] EXCEPT !.pc = "poll", !.round = turn[t].round + 1]
           b == [a EXCEPT !.q = 1]
           r == [b EXCEPT !.said = turn[t].text]
<1>2. /\ turn[t].round + 1 \in 0 .. AskLimit /\ turn[t].round + 1 # 0
      /\ turn[t].text \in SUBSET Piece /\ 1 \in 0 .. Q
  BY <1>1 DEF TurnRec
<1>3. turn' = [turn EXCEPT ![t] = r]
  BY DEF StartRound
<1>4. a \in TurnRec /\ a.pc = "poll" /\ a.round # 0
  BY <1>1, <1>2 DEF TurnRec
<1> HIDE DEF a
<1>5. b \in TurnRec /\ b.pc = "poll" /\ b.round # 0 /\ b.q # 0
  BY <1>2, <1>4 DEF TurnRec
<1> HIDE DEF b
<1>6. r \in TurnRec /\ r.pc = "poll" /\ r.round # 0 /\ r.q # 0
  BY <1>2, <1>5 DEF TurnRec
<1> HIDE DEF r
<1>7. Evolves(t, r)
  BY <1>1, <1>6 DEF Evolves, Stays, IsNumbered, Awaiting
<1> QED
  BY <1>3, <1>7, OneEvolves

LEMMA SendPollFailsMoves ==
  ASSUME TypeInv, NEW t \in Turn, SendPollFails(t)
  PROVE  TurnsEvolve
<1>1. turn[t].pc = "poll"
  BY DEF SendPollFails
<1>2. /\ AfterQuestion(t, "none") \in TurnRec
      /\ IsNumbered(AfterQuestion(t, "none"))
  BY <1>1, AfterQuestionType DEF Asking, Outcome
<1>3. Evolves(t, AfterQuestion(t, "none"))
  BY <1>1, <1>2 DEF Evolves, Stays, Awaiting
<1> QED
  BY <1>3, OneEvolves DEF SendPollFails

LEMMA PutPollFailsMoves ==
  ASSUME TypeInv, NEW t \in Turn, PutPollFails(t)
  PROVE  TurnsEvolve
<1> DEFINE a == AfterQuestion(t, "none")
           r == [a EXCEPT !.hurt = Hurt(t)]
<1>1. turn[t].pc = "row" /\ turn[t] \in TurnRec
  BY DEF PutPollFails, TypeInv, TypeOK
<1>2. a \in TurnRec /\ IsNumbered(a)
  BY <1>1, AfterQuestionType DEF Asking, Outcome
<1>3. turn' = [turn EXCEPT ![t] = r]
  BY DEF PutPollFails
<1>4. Hurt(t) \in BOOLEAN
  BY DEF Hurt
<1> HIDE DEF a
<1>5. r \in TurnRec /\ r.pc = a.pc /\ r.round = a.round /\ r.q = a.q
  BY <1>2, <1>4 DEF TurnRec
<1> HIDE DEF r
<1>6. Evolves(t, r)
  BY <1>1, <1>2, <1>5 DEF Evolves, Stays, IsNumbered, Awaiting
<1> QED
  BY <1>3, <1>6, OneEvolves

\* The question is settled, whatever else the step notes of the turn.
LEMMA SettledMoves ==
  ASSUME TypeInv, NEW t \in Turn, NEW r \in TurnRec,
         turn' = [turn EXCEPT ![t] = r],
         turn[t].pc \in {"arming", "select", "settle"},
         r.pc \in {"settle", "leave"},
         r.round = turn[t].round, r.q = turn[t].q
  PROVE  TurnsEvolve
<1>1. IsNumbered(turn[t])
  BY DEF TypeInv
<1>2. Evolves(t, r)
  BY <1>1 DEF Evolves, Stays, IsNumbered, Asking, Awaiting
<1> QED
  BY <1>2, OneEvolves

LEMMA SelectMoves ==
  ASSUME TypeInv, NEW t \in Turn, Select(t)
  PROVE  TurnsEvolve
<1>1. turn[t] \in TurnRec /\ turn[t].pc = "arming"
  BY DEF TypeInv, TypeOK, Select
<1>2. CASE turn' = [turn EXCEPT ![t].pc = "select"]
  BY <1>1, <1>2, StepMoves DEF Step, Pcs, Asking, Awaiting
<1>3. ASSUME NEW e \in turn[t].ready,
             turn' = [turn EXCEPT ![t] = [@ EXCEPT !.pc = "settle", !.out = e]]
      PROVE  TurnsEvolve
  <2> DEFINE r == [turn[t] EXCEPT !.pc = "settle", !.out = e]
  <2>1. e \in Outcome
    BY <1>1 DEF TurnRec, Outcome
  <2>2. /\ r \in TurnRec /\ r.pc = "settle"
        /\ r.round = turn[t].round /\ r.q = turn[t].q
    BY <1>1, <2>1 DEF TurnRec
  <2>3. turn' = [turn EXCEPT ![t] = r]
    BY <1>3
  <2> HIDE DEF r
  <2> QED
    BY <1>1, <2>2, <2>3, SettledMoves
<1> QED
  BY <1>2, <1>3 DEF Select

LEMMA TimesOutMoves ==
  ASSUME TypeInv, NEW t \in Turn, TimesOut(t)
  PROVE  TurnsEvolve
<1>1. turn[t] \in TurnRec /\ turn[t].pc = "select"
  BY DEF TypeInv, TypeOK, TimesOut
<1> DEFINE r == [turn[t] EXCEPT !.pc = "settle", !.out = "timeout"]
<1>2. /\ r \in TurnRec /\ r.pc = "settle"
      /\ r.round = turn[t].round /\ r.q = turn[t].q
  BY <1>1 DEF TurnRec, Outcome
<1>3. turn' = [turn EXCEPT ![t] = r]
  BY DEF TimesOut
<1> HIDE DEF r
<1> QED
  BY <1>1, <1>2, <1>3, SettledMoves

LEMMA SettlePollFailsMoves ==
  ASSUME TypeInv, NEW t \in Turn, SettlePollFails(t)
  PROVE  TurnsEvolve
<1>1. turn[t] \in TurnRec /\ turn[t].pc = "settle"
  BY DEF TypeInv, TypeOK, SettlePollFails
<1> DEFINE h == Hurt(t)
           r == [turn[t] EXCEPT !.pc = "leave", !.hurt = h]
<1>2. h \in BOOLEAN
  BY DEF Hurt
<1>3. turn' = [turn EXCEPT ![t] = r]
  BY DEF SettlePollFails
<1> HIDE DEF h
<1>4. /\ r \in TurnRec /\ r.pc = "leave"
      /\ r.round = turn[t].round /\ r.q = turn[t].q
  BY <1>1, <1>2 DEF TurnRec
<1> HIDE DEF r
<1> QED
  BY <1>1, <1>3, <1>4, SettledMoves

LEMMA AnswerFailsMoves ==
  ASSUME TypeInv, NEW t \in Turn, AnswerFails(t)
  PROVE  TurnsEvolve
<1>1. turn[t] \in TurnRec /\ turn[t].pc = "answer"
  BY DEF TypeInv, TypeOK, AnswerFails
<1> DEFINE h == Hurt(t)
           pc == AfterAsks(t)
           r == [turn[t] EXCEPT !.pc = pc, !.hurt = h]
<1>2. h \in BOOLEAN /\ pc \in {"finish", "post"}
  BY DEF Hurt, AfterAsks
<1>3. turn' = [turn EXCEPT ![t] = r]
  BY DEF AnswerFails
<1> HIDE DEF h, pc
<1>4. r \in TurnRec /\ r.pc = pc
  BY <1>1, <1>2 DEF TurnRec
<1> HIDE DEF r
<1> QED
  BY <1>1, <1>2, <1>3, <1>4, AwayMoves DEF Asking, Awaiting

LEMMA DropFailsMoves ==
  ASSUME TypeInv, NEW t \in Turn, DropFails(t)
  PROVE  TurnsEvolve
<1>1. turn[t] \in TurnRec /\ IsNumbered(turn[t])
  BY DEF TypeInv, TypeOK
<1> DEFINE r == [turn[t] EXCEPT !.hurt = TRUE]
<1>2. /\ r \in TurnRec /\ r.pc = turn[t].pc
      /\ r.round = turn[t].round /\ r.q = turn[t].q
  BY <1>1 DEF TurnRec
<1>3. turn' = [turn EXCEPT ![t] = r]
  BY <1>1 DEF DropFails, TurnRec
<1> HIDE DEF r
<1>4. Evolves(t, r)
  BY <1>1, <1>2 DEF Evolves, Stays, IsNumbered
<1> QED
  BY <1>3, <1>4, OneEvolves

LEMMA FinishMoves ==
  ASSUME TypeInv, NEW t \in Turn, Finish(t)
  PROVE  TurnsEvolve
<1>1. turn[t] \in TurnRec /\ turn[t].pc = "finish"
  BY DEF TypeInv, TypeOK, Finish
<1> DEFINE r == [turn[t] EXCEPT !.pc = "done", !.text = {}, !.said = {}]
<1>2. r \in TurnRec /\ r.pc = "done"
  BY <1>1 DEF TurnRec
<1>3. turn' = [turn EXCEPT ![t] = r]
  BY DEF Finish
<1> HIDE DEF r
<1> QED
  BY <1>1, <1>2, <1>3, AwayMoves DEF Asking, Awaiting

LEMMA RegisterMoves ==
  ASSUME TypeInv, NEW t \in Turn, Register(t)
  PROVE  TurnsEvolve
<1>1. /\ turn \in [Turn -> TurnRec] /\ turn[t].pc = "spawned"
      /\ \A u \in Turn : IsNumbered(turn[u])
  BY DEF TypeInv, TypeOK, Register
<1> DEFINE r == [turn[t] EXCEPT !.pc = "begin"]
<1>2. r \in TurnRec /\ r.pc = "begin"
  BY <1>1, PcType DEF Pcs
<1>3. turn' = [u \in Turn |-> IF u = t THEN r
                             ELSE IF u = reg THEN Cancelled(u) ELSE turn[u]]
  BY DEF Register
<1> HIDE DEF r
<1>4. Evolves(t, r)
  BY <1>1, <1>2 DEF Evolves, Stays, IsNumbered, Asking, Awaiting
<1>5. \A u \in Turn : Evolves(u, turn[u])
  BY <1>1 DEF Evolves, Stays
<1>6. \A u \in Turn : Evolves(u, turn'[u])
  BY <1>3, <1>4, <1>5, CancelledType
<1>7. turn' \in [Turn -> TurnRec]
  BY <1>3, <1>6 DEF Evolves
<1> QED
  BY <1>6, <1>7 DEF TurnsEvolve

LEMMA DoneAwaitingMoves ==
  ASSUME TypeInv, NEW t \in Turn, DoneAwaiting(t)
  PROVE  TurnsEvolve
<1>1. turn[t] \in TurnRec /\ turn[t].pc = "leave" /\ pending' = None
  BY DEF TypeInv, TypeOK, DoneAwaiting
<1>2. turn[t].out \in Outcome
  BY <1>1 DEF TurnRec
<1> DEFINE r == AfterQuestion(t, turn[t].out)
<1>3. r \in TurnRec /\ IsNumbered(r)
  BY <1>1, <1>2, AfterQuestionType DEF Asking
<1>4. turn' = [turn EXCEPT ![t] = r]
  BY DEF DoneAwaiting
<1> HIDE DEF r
<1>5. Evolves(t, r)
  BY <1>1, <1>3 DEF Evolves
<1> QED
  BY <1>4, <1>5, OneEvolves

LEMMA SpawnEvolves ==
  ASSUME TypeInv, NEW m \in Turn, msg[m] # "turn", msg'[m] = "turn"
  PROVE  Evolves(m, Spawned(m))
<1>1. turn[m].pc = "idle"
  BY DEF TypeInv
<1> QED
  BY <1>1, SpawnedType DEF Evolves, Stays, IsNumbered, Asking, Awaiting

LEMMA OfferNothingMoves ==
  ASSUME TypeInv, NEW m \in Turn, OfferNothing(m)
  PROVE  TurnsEvolve
<1>1. msg[m] # "turn" /\ msg'[m] = "turn"
  BY DEF OfferNothing, NextMessage, TypeInv, TypeOK
<1> QED
  BY <1>1, SpawnEvolves, OneEvolves DEF OfferNothing

LEMMA OfferAnswerMoves ==
  ASSUME TypeInv, NEW m \in Turn, OfferAnswer(m)
  PROVE  TurnsEvolve
<1>1. pending[1] \in Turn
  BY DEF OfferAnswer, TypeInv, TypeOK, Poll
<1>2. Evolves(pending[1], Reached(pending[1], "text"))
  BY <1>1, ReachedType DEF Event
<1> QED
  BY <1>1, <1>2, OneEvolves DEF OfferAnswer

LEMMA CommandStopMoves ==
  ASSUME TypeInv, NEW m \in Turn, CommandStop(m)
  PROVE  TurnsEvolve
<1>1. reg \in Turn
  BY DEF CommandStop, TypeInv, TypeOK, Turn
<1> QED
  BY <1>1, CancelledType, OneEvolves DEF CommandStop

LEMMA OnPollResponseMoves ==
  ASSUME TypeInv, NEW p \in Poll, OnPollResponse(p)
  PROVE  TurnsEvolve
<1>1. p[1] \in Turn
  BY DEF Poll
<1>2. Evolves(p[1], Reached(p[1], "vote"))
  BY <1>1, ReachedType DEF Event
<1> QED
  BY <1>1, <1>2, OneEvolves DEF OnPollResponse

LEMMA CloseAbandonedMoves ==
  ASSUME TypeInv, NEW m \in Turn, CloseAbandoned(m)
  PROVE  TurnsEvolve
<1> DEFINE t == drops[m][1]
           r == IF PollOf(t) = drops[m] THEN Reached(t, "dropped") ELSE turn[t]
           s == Spawned(m)
<1>1. /\ turn \in [Turn -> TurnRec] /\ \A u \in Turn : IsNumbered(turn[u])
      /\ msg \in [Turn -> {"unsent", "answer", "dropping", "closing",
                           "turn", "stop"}]
  BY DEF TypeInv, TypeOK
<1>2. msg[m] # "turn" /\ msg'[m] = "turn"
  BY <1>1 DEF CloseAbandoned
<1>3. Evolves(m, s)
  BY <1>2, SpawnEvolves
<1>4. \A u \in Turn : Evolves(u, turn[u])
  BY <1>1 DEF Evolves, Stays
<1>5. t \in Turn => Evolves(t, r)
  BY <1>4, ReachedType DEF Event
<1>6. turn' = [turn EXCEPT ![t] = r, ![m] = s]
  BY DEF CloseAbandoned
<1> HIDE DEF t, r, s
<1>7. \A u \in Turn : turn'[u] = IF u = m THEN s
                                  ELSE IF u = t THEN r ELSE turn[u]
  BY <1>1, <1>6
<1>8. \A u \in Turn : Evolves(u, turn'[u])
  BY <1>3, <1>4, <1>5, <1>7
<1>9. turn' \in [Turn -> TurnRec]
  BY <1>1, <1>3, <1>5, <1>6 DEF Evolves
<1> QED
  BY <1>8, <1>9 DEF TurnsEvolve

-----------------------------------------------------------------------------
(* What the steps do to the rest of the state.                             *)

LEMMA OwnerOthers ==
  ASSUME TypeInv, NEW m \in Turn,
         OfferNothing(m) \/ OfferAnswer(m) \/ OfferDrop(m) \/ CommandStop(m)
  PROVE  Others
<1>1. OthersOK /\ msg[m] = "unsent"
  BY DEF TypeInv, TypeOK, OthersOK, OfferNothing, OfferAnswer, OfferDrop,
         CommandStop, NextMessage
<1>2. CASE OfferNothing(m)
  BY <1>1, <1>2 DEF OfferNothing, Others, OthersOK, TurnsStay, backend, chat
<1>3. CASE OfferAnswer(m)
  BY <1>1, <1>3 DEF OfferAnswer, Others, OthersOK, TurnsStay, backend, chat
<1>4. CASE OfferDrop(m)
  BY <1>1, <1>4 DEF OfferDrop, Others, OthersOK, TurnsStay, backend, chat
<1>5. CASE CommandStop(m)
  BY <1>1, <1>5 DEF CommandStop, Others, OthersOK, TurnsStay, backend, chat
<1> QED
  BY <1>2, <1>3, <1>4, <1>5

LEMMA MessageOthers ==
  ASSUME TypeInv, NEW m \in Turn, MessageStep(m)
  PROVE  Others
<1>1. OthersOK
  BY DEF TypeInv, TypeOK, OthersOK
<1>2. CASE MovePast(m)
  <2>1. drops[m][1] \in 0 .. M
    BY <1>1 DEF OthersOK, Poll, None, Turn
  <2> QED
    BY <1>1, <1>2, <2>1
    DEF MovePast, Others, OthersOK, TurnsStay, backend, chat
<1>3. CASE CloseAbandoned(m)
  BY <1>1, <1>3 DEF CloseAbandoned, Others, OthersOK, TurnsStay, backend, chat
<1> QED
  BY <1>2, <1>3 DEF MessageStep

LEMMA OnPollResponseOthers ==
  ASSUME TypeInv, NEW p \in Poll, OnPollResponse(p)
  PROVE  Others
BY DEF TypeInv, TypeOK, OthersOK, OnPollResponse, Others, TurnsStay,
       offers, backend, chat

LEMMA QuestionOthers ==
  ASSUME TypeInv, NEW t \in Turn, QuestionStep(t), ~AwaitingAnswer(t)
  PROVE  Others
<1>1. OthersOK
  BY DEF TypeInv, TypeOK, OthersOK
<1>2. turn[t].pc \in Asking => PollOf(t) \in Poll
  BY PollOfType
<1>3. CASE SendPoll(t)
  BY <1>1, <1>2, <1>3 DEF SendPoll, Step, Asking, Others, OthersOK,
     TurnsStay, offers, backend, chat
<1>4. CASE SendPollFails(t)
  BY <1>1, <1>2, <1>4 DEF SendPollFails, Asking, Others, OthersOK,
     TurnsStay, offers, backend, chat
<1>5. CASE PutPoll(t)
  BY <1>1, <1>2, <1>5 DEF PutPoll, Step, Asking, Others, OthersOK,
     TurnsStay, offers, backend, chat
<1>6. CASE PutPollFails(t)
  BY <1>1, <1>6 DEF PutPollFails, Others, OthersOK, TurnsStay, offers,
     backend, chat
<1>7. CASE Select(t) \/ TimesOut(t)
  BY <1>1, <1>7 DEF Select, TimesOut, Others, OthersOK, TurnsStay, offers,
     backend, chat
<1>8. CASE SettlePoll(t) \/ SettlePollFails(t)
  BY <1>1, <1>8 DEF SettlePoll, SettlePollFails, Others, OthersOK,
     TurnsStay, offers, backend, chat
<1>9. CASE DoneAwaiting(t)
  BY <1>1, <1>9 DEF DoneAwaiting, Others, OthersOK, TurnsStay, offers, chat
<1> QED
  BY <1>3, <1>4, <1>5, <1>6, <1>7, <1>8, <1>9 DEF QuestionStep

\* Saying something posts pieces of the turn.
LEMMA SayType ==
  ASSUME OthersOK, NEW t \in Turn, NEW text \in SUBSET Piece, Say(text, t)
  PROVE  (repeated \subseteq posted /\ posted \subseteq Turn \X Piece)'
BY DEF OthersOK, Say

LEMMA TurnOthers ==
  ASSUME TypeInv, NEW t \in Turn, TurnStep(t), ~QuestionStep(t)
  PROVE  Others
<1>1. OthersOK /\ turn[t] \in TurnRec
  BY DEF TypeInv, TypeOK, OthersOK
<1>2. turn[t].text \in SUBSET Piece
  BY <1>1 DEF TurnRec
<1>3. CASE Register(t) \/ Begin(t) \/ SendFails(t) \/ AskLimitReached(t)
             \/ AnswerFails(t)
  <2>1. reg' \in 0 .. M
    BY <1>1, <1>3 DEF Register, Begin, SendFails, AskLimitReached,
       AnswerFails, OthersOK, Turn
  <2> QED
    BY <1>1, <1>3, <2>1 DEF Register, Begin, SendFails, AskLimitReached,
       AnswerFails, Others, OthersOK, TurnsStay, offers, backend, chat
<1>4. CASE SendReturns(t) \/ AnswerReturns(t)
  <2>1. /\ content' \in [Turn -> SUBSET Piece]
        /\ call' \in [Turn -> {"none", "staged", "resolved", "unheard"}]
    BY <1>4, ReplyMoves DEF SendReturns, AnswerReturns
  <2> QED
    BY <1>1, <1>4, <2>1 DEF SendReturns, AnswerReturns, Others, OthersOK,
       TurnsStay, offers, chat
<1>5. CASE StartRound(t)
  <2>1. (repeated \subseteq posted /\ posted \subseteq Turn \X Piece)'
    BY <1>1, <1>2, <1>5, SayType DEF StartRound, OthersOK, chat
  <2> QED
    BY <1>1, <1>5, <2>1 DEF StartRound, Others, OthersOK, TurnsStay, offers,
       backend
<1>6. CASE PostAnswer(t)
  <2>1. (repeated \subseteq posted /\ posted \subseteq Turn \X Piece)'
    BY <1>1, <1>2, <1>6, SayType DEF PostAnswer, OthersOK, chat
  <2> QED
    BY <1>1, <1>6, <2>1 DEF PostAnswer, Others, OthersOK, TurnsStay, offers,
       backend
<1>7. CASE AdvanceSession(t)
  <2>1. tip' \in 0 .. M
    BY <1>7 DEF AdvanceSession, Turn
  <2> QED
    BY <1>1, <1>7, <2>1 DEF AdvanceSession, Others, OthersOK, TurnsStay,
       offers, backend, chat
<1>8. CASE Finish(t)
  BY <1>1, <1>8 DEF Finish, Others, OthersOK, TurnsStay, offers, backend,
     chat
<1> QED
  BY <1>3, <1>4, <1>5, <1>6, <1>7, <1>8 DEF TurnStep

LEMMA DropOthers ==
  ASSUME TypeInv, NEW t \in Turn, DropStep(t)
  PROVE  Others
BY DEF TypeInv, TypeOK, OthersOK, DropStep, QuestionDropped, DropFails,
       Others, TurnsStay, offers, chat

-----------------------------------------------------------------------------
(* Every step.                                                             *)

LEMMA UnchangedEvolves ==
  ASSUME TypeInv, UNCHANGED turn
  PROVE  TurnsEvolve
BY DEF TypeInv, TypeOK, TurnsEvolve, Evolves, Stays

LEMMA TurnStepMoves ==
  ASSUME TypeInv, NEW t \in Turn, TurnStep(t)
  PROVE  TurnsEvolve
<1>1. CASE QuestionStep(t)
  <2>1. CASE SendPoll(t) \/ PutPoll(t) \/ AwaitingAnswer(t) \/ SettlePoll(t)
    BY <2>1, StepMoves DEF SendPoll, PutPoll, AwaitingAnswer, SettlePoll,
       Pcs, Asking, Awaiting
  <2> QED
    BY <1>1, <2>1, SendPollFailsMoves, PutPollFailsMoves, SelectMoves,
       TimesOutMoves, SettlePollFailsMoves, DoneAwaitingMoves
    DEF QuestionStep
<1>2. CASE SendReturns(t) \/ AnswerReturns(t)
  BY <1>2, ReplyMoves DEF SendReturns, AnswerReturns
<1>3. CASE SendFails(t) \/ PostAnswer(t) \/ AdvanceSession(t)
  BY <1>3, StepMoves DEF SendFails, PostAnswer, AdvanceSession, Pcs, Asking,
     Awaiting
<1>4. CASE AskLimitReached(t)
  <2>1. AfterAsks(t) \in {"finish", "post"}
    BY DEF AfterAsks
  <2> QED
    BY <1>4, <2>1, StepMoves DEF AskLimitReached, Pcs, Asking, Awaiting
<1> QED
  BY <1>1, <1>2, <1>3, <1>4, RegisterMoves, BeginMoves, StartRoundMoves,
     AnswerFailsMoves, FinishMoves
  DEF TurnStep

LEMMA Evolved ==
  ASSUME TypeInv, TurnsEvolve, OthersOK', TurnsStay
  PROVE  TypeInv'
<1>1. TypeOK' /\ \A t \in Turn : IsNumbered(turn[t])'
  BY DEF TurnsEvolve, Evolves, OthersOK, TypeOK, IsNumbered
<1>2. \A m \in Turn : msg'[m] # "turn" => turn'[m].pc = "idle"
  BY DEF TypeInv, TurnsEvolve, Evolves, TurnsStay
<1> QED
  BY <1>1, <1>2 DEF TypeInv

LEMMA StillAwaited ==
  ASSUME TypeInv, PendingIsAwaited, TurnsEvolve, pending' \in {pending, None}
  PROVE  PendingIsAwaited'
<1> SUFFICES ASSUME pending' # None
             PROVE  IsAwaited(pending)'
  BY DEF PendingIsAwaited
<1>1. pending' = pending
  OBVIOUS
<1>2. PICK t \in Turn : turn[t].pc \in Awaiting /\ PollOf(t) = pending
  BY <1>1 DEF PendingIsAwaited, IsAwaited
<1>3. Stays(t, turn'[t])
  BY DEF TurnsEvolve, Evolves
<1>4. turn'[t].pc \in Awaiting /\ PollOf(t)' = pending
  BY <1>2, <1>3 DEF Stays, PollOf
<1> QED
  BY <1>1, <1>4 DEF IsAwaited

\* Awaiting an answer is the one step that registers a question.
LEMMA AwaitingAnswerHolds ==
  ASSUME TypeInv, NEW t \in Turn, AwaitingAnswer(t)
  PROVE  TypeInv' /\ PendingIsAwaited'
<1>1. TurnsEvolve
  BY TurnStepMoves DEF TurnStep, QuestionStep
<1>2. turn[t] \in TurnRec /\ turn[t].pc = "await" /\ OthersOK
  BY DEF AwaitingAnswer, Step, TypeInv, TypeOK, OthersOK
<1>3. PollOf(t) \in Poll
  BY <1>2, PollOfType DEF Asking
<1>4. OthersOK' /\ TurnsStay
  BY <1>2, <1>3 DEF AwaitingAnswer, OthersOK, TurnsStay, offers, backend,
     chat
<1>5. TypeInv'
  BY <1>1, <1>4, Evolved
<1>6. /\ turn'[t].pc = "arming" /\ turn'[t].round = turn[t].round
      /\ turn'[t].q = turn[t].q
  BY <1>2 DEF AwaitingAnswer, Step, TypeInv, TypeOK, TurnRec
<1>7. PollOf(t)' = pending'
  BY <1>6 DEF PollOf, AwaitingAnswer
<1> QED
  BY <1>5, <1>6, <1>7 DEF PendingIsAwaited, IsAwaited, Awaiting

LEMMA InitHolds ==
  ASSUME Init
  PROVE  TypeInv /\ PendingIsAwaited
<1>1. turn \in [Turn -> TurnRec] /\ \A t \in Turn : turn[t].pc = "idle"
  BY IdleType DEF Init
<1>2. OthersOK /\ pending = None
  BY DEF Init, OthersOK
<1> QED
  BY <1>1, <1>2 DEF TypeInv, TypeOK, OthersOK, IsNumbered, Asking,
     PendingIsAwaited

LEMMA NextHolds ==
  ASSUME TypeInv, PendingIsAwaited, [Next]_vars
  PROVE  TypeInv' /\ PendingIsAwaited'
<1>1. ASSUME TurnsEvolve, Others
      PROVE  TypeInv' /\ PendingIsAwaited'
  BY <1>1, Evolved, StillAwaited DEF Others
<1>2. CASE UNCHANGED vars
  <2>1. Others
    BY <1>2 DEF vars, offers, backend, chat, TypeInv, TypeOK, Others,
       OthersOK, TurnsStay
  <2> QED
    BY <1>1, <1>2, <2>1, UnchangedEvolves DEF vars
<1>3. CASE Owner
  <2>1. ASSUME NEW m \in Turn,
               OfferNothing(m) \/ OfferAnswer(m) \/ OfferDrop(m)
               \/ CommandStop(m)
        PROVE  TypeInv' /\ PendingIsAwaited'
    <3>1. CASE OfferDrop(m)
      BY <1>1, <3>1, OwnerOthers, UnchangedEvolves DEF OfferDrop
    <3> QED
      BY <1>1, <2>1, <3>1, OwnerOthers, OfferNothingMoves, OfferAnswerMoves,
         CommandStopMoves
  <2>2. ASSUME NEW p \in Poll, OnPollResponse(p)
        PROVE  TypeInv' /\ PendingIsAwaited'
    BY <1>1, <2>2, OnPollResponseMoves, OnPollResponseOthers
  <2> QED
    BY <1>3, <2>1, <2>2 DEF Owner
<1>4. ASSUME NEW t \in Turn, MessageStep(t)
      PROVE  TypeInv' /\ PendingIsAwaited'
  <2>1. CASE MovePast(t)
    BY <1>1, <1>4, <2>1, MessageOthers, UnchangedEvolves DEF MovePast
  <2> QED
    BY <1>1, <1>4, <2>1, MessageOthers, CloseAbandonedMoves DEF MessageStep
<1>5. ASSUME NEW t \in Turn, TurnStep(t)
      PROVE  TypeInv' /\ PendingIsAwaited'
  <2>1. CASE AwaitingAnswer(t)
    BY <2>1, AwaitingAnswerHolds
  <2>2. CASE ~AwaitingAnswer(t)
    BY <1>1, <1>5, <2>2, TurnStepMoves, QuestionOthers, TurnOthers
  <2> QED
    BY <2>1, <2>2
<1>6. ASSUME NEW t \in Turn, DropStep(t)
      PROVE  TypeInv' /\ PendingIsAwaited'
  <2>1. CASE QuestionDropped(t)
    BY <1>1, <1>6, <2>1, DropOthers, UnchangedEvolves DEF QuestionDropped
  <2> QED
    BY <1>1, <1>6, <2>1, DropOthers, DropFailsMoves DEF DropStep
<1> QED
  BY <1>2, <1>3, <1>4, <1>5, <1>6 DEF Next

-----------------------------------------------------------------------------
\* Both invariants hold in every state.
LEMMA Invariants == Spec => [](TypeInv /\ PendingIsAwaited)
  BY InitHolds, NextHolds, PTL DEF Spec

\* Types are right for any number of messages, questions and rounds.
THEOREM TypeCorrect == Spec => []TypeOK
<1>1. TypeInv => TypeOK
  BY DEF TypeInv
<1> QED
  BY <1>1, Invariants, PTL

\* The registry of open questions never holds one that nobody awaits:
\* offerMessage gives a message away only where somebody takes it.
THEOREM PendingAlwaysAwaited == Spec => []PendingIsAwaited
  BY Invariants, PTL

-----------------------------------------------------------------------------
(* A message that drops a question goes on after it.                       *)

\* A turn has begun once it has read its parent; it is active until it ends.
IsBegun(r) == r.pc \notin {"idle", "spawned", "begin"}
IsActive(r) == r.pc \notin {"idle", "spawned", "done"}
Begun(t) == IsBegun(turn[t])

\* Only one turn is active that nobody cancelled.
Registered ==
  \A t \in Turn : IsActive(turn[t]) => reg = t \/ turn[t].stop

\* What is asked, dropped, or the parent of the next turn has begun.
AskedBegun ==
  /\ pending # None => Begun(pending[1])
  /\ tip # 0 => Begun(tip)
  /\ \A m \in Turn :
       /\ drops[m] # None => /\ msg[m] \in {"dropping", "closing", "turn"}
                             /\ Begun(drops[m][1])
       /\ msg[m] \in {"dropping", "closing"} => drops[m] # None

\* The turn a turn began from is over, or was cancelled too late.
FromIsOver ==
  \A t \in Turn :
    turn[t].from # 0 =>
      LET f == turn[t].from
      IN  /\ Begun(t) /\ f # t /\ Begun(f)
          /\ turn[f].pc = "done" \/ turn[f].stop

\* Once the parent has moved past m's question it stays away from where the
\* question's turn began, until m begins and after.
MovedOn ==
  \A m \in Turn :
    drops[m] # None /\ msg[m] # "dropping" =>
      LET t == drops[m][1]
      IN  \/ MayMoveBack(t)
          \/ ~Begun(m) /\ tip # turn[t].from
          \/ Begun(m) /\ (turn[m].stop \/ turn[m].from # turn[t].from)

GoesInv == Registered /\ AskedBegun /\ FromIsOver /\ MovedOn

\* What a step makes of a turn, of the parent, and of a message that drops.
Grows(t, r) ==
  /\ turn[t].pc # "idle" /\ turn[t].stop => r.stop
  /\ Begun(t) => /\ IsBegun(r) /\ r.from = turn[t].from
                 /\ turn[t].pc = "done" => r.pc = "done"
  /\ ~Begun(t) =>
       \/ r.from \in {0, turn[t].from} /\ (IsBegun(r) => r.stop)
       \/ /\ turn[t].pc = "begin" /\ ~turn[t].stop
          /\ IsBegun(r) /\ r.from = tip

\* So does every step that does not spawn, register or begin it.
Steady(t, r) ==
  /\ r.pc = turn[t].pc \/ (Begun(t) /\ IsBegun(r) /\ turn[t].pc # "done")
  /\ r.from = turn[t].from
  /\ turn[t].stop => r.stop

TurnsGrow ==
  /\ \A u \in Turn : Grows(u, turn'[u])
  /\ Registered'

TipMoves ==
  \/ tip' = tip
  \/ \E x \in Turn : tip' = x /\ Begun(x) /\ turn[x].pc # "done"
  \/ \E n \in Turn : /\ msg[n] = "dropping" /\ drops[n] # None
                     /\ tip' = drops[n][1]

MessageMoves(m) ==
  /\ \/ drops'[m] = drops[m]
     \/ /\ drops[m] = None /\ msg'[m] = "dropping"
        /\ pending # None /\ drops'[m] = pending
  /\ drops[m] # None =>
       \/ msg'[m] = msg[m]
       \/ msg[m] = "dropping" /\ msg'[m] = "closing" /\ tip' = drops[m][1]
       \/ msg[m] = "closing" /\ msg'[m] = "turn"
  /\ msg'[m] \in {"dropping", "closing"} => drops'[m] # None

OffersMove ==
  /\ TipMoves
  /\ \A m \in Turn : MessageMoves(m)
  /\ pending' # None =>
       pending' = pending \/ (pending'[1] \in Turn /\ Begun(pending'[1]))

LEMMA SteadyGrows ==
  ASSUME TypeInv, NEW t \in Turn, NEW r, Steady(t, r)
  PROVE  Grows(t, r)
  BY DEF Steady, Grows, Begun, IsBegun

LEMMA OneSteady ==
  ASSUME TypeInv, Registered, NEW t \in Turn, NEW r, Steady(t, r),
         turn' = [turn EXCEPT ![t] = r], reg' = reg
  PROVE  TurnsGrow
<1>1. \A u \in Turn : turn'[u] = IF u = t THEN r ELSE turn[u]
  BY DEF TypeInv, TypeOK
<1>2. \A u \in Turn : Steady(u, turn'[u])
  BY <1>1 DEF Steady
<1>3. Registered'
  BY <1>2 DEF Registered, Steady, Begun, IsBegun, IsActive
<1> QED
  BY <1>2, <1>3, SteadyGrows DEF TurnsGrow

LEMMA TurnsStand ==
  ASSUME TypeInv, Registered, UNCHANGED <<turn, reg>>
  PROVE  TurnsGrow
  BY DEF TurnsGrow, Registered, Grows, Begun, IsBegun, IsActive

\* Nothing of this moves in most steps.
LEMMA OffersStand ==
  ASSUME TypeInv, AskedBegun, UNCHANGED <<msg, drops>>,
         pending' \in {None, pending}, TipMoves
  PROVE  OffersMove
  BY DEF OffersMove, MessageMoves, AskedBegun, TypeInv, TypeOK

LEMMA ReachedSteady ==
  ASSUME TypeInv, NEW t \in Turn, NEW e \in Event
  PROVE  Steady(t, Reached(t, e))
<1>1. turn[t] \in TurnRec
  BY DEF TypeInv, TypeOK
<1>2. CASE turn[t].pc = "select"
  <2>1. Reached(t, e) = [turn[t] EXCEPT !.pc = "settle", !.out = e]
    BY <1>2 DEF Reached
  <2> QED
    BY <1>1, <1>2, <2>1 DEF Steady, Begun, IsBegun, TurnRec
<1>3. CASE turn[t].pc \in {"await", "arming"}
  <2>1. Reached(t, e) = [turn[t] EXCEPT !.ready = @ \cup {e}]
    BY <1>3 DEF Reached
  <2> QED
    BY <1>1, <1>3, <2>1 DEF Steady, Begun, IsBegun, TurnRec
<1>4. CASE turn[t].pc \notin {"select", "await", "arming"}
  BY <1>4 DEF Reached, Steady
<1> QED
  BY <1>2, <1>3, <1>4

LEMMA CancelledSteady ==
  ASSUME TypeInv, NEW t \in Turn
  PROVE  Steady(t, Cancelled(t)) /\ Cancelled(t).stop
<1> DEFINE r == Reached(t, "cancelled")
<1>1. Steady(t, r) /\ r \in TurnRec
  BY ReachedSteady, ReachedType DEF Event, Evolves
<1>2. Cancelled(t) = [r EXCEPT !.stop = TRUE]
  BY DEF Cancelled
<1> HIDE DEF r
<1> QED
  BY <1>1, <1>2 DEF Steady, IsBegun, TurnRec

LEMMA StepSteady ==
  ASSUME TypeInv, Registered, NEW t \in Turn, NEW from, NEW to,
         Step(t, from, to), reg' = reg,
         {from, to} \cap {"idle", "spawned", "begin", "done"} = {}
  PROVE  TurnsGrow
<1> DEFINE r == [turn[t] EXCEPT !.pc = to]
<1>1. turn[t] \in TurnRec /\ turn[t].pc = from /\ turn' = [turn EXCEPT ![t] = r]
  BY DEF Step, TypeInv, TypeOK, TurnRec
<1>2. r.pc = to /\ r.from = turn[t].from /\ r.stop = turn[t].stop
  BY <1>1 DEF TurnRec
<1> HIDE DEF r
<1>3. Steady(t, r)
  BY <1>1, <1>2 DEF Steady, Begun, IsBegun
<1> QED
  BY <1>1, <1>3, OneSteady

\* A turn that is under way and stays so keeps its parent.
LEMMA UnderWaySteady ==
  ASSUME TypeInv, Registered, NEW t \in Turn, NEW r,
         turn' = [turn EXCEPT ![t] = r], reg' = reg,
         Begun(t), IsBegun(r), turn[t].pc # "done",
         r.from = turn[t].from, r.stop = turn[t].stop
  PROVE  TurnsGrow
<1>1. Steady(t, r)
  BY DEF Steady
<1> QED
  BY <1>1, OneSteady

-----------------------------------------------------------------------------
(* The invariant follows from what a step makes of them.                   *)

LEMMA MayMoveBackStays ==
  ASSUME TypeInv, AskedBegun, FromIsOver, TurnsGrow, OffersMove,
         NEW t \in Turn, Begun(t), MayMoveBack(t)
  PROVE  MayMoveBack(t)'
<1> DEFINE f == turn[t].from
<1>1. turn[t] \in TurnRec /\ f \in Turn
  BY DEF TypeInv, TypeOK, TurnRec, MayMoveBack, Turn
<1>2. turn'[t].from = f
  BY DEF TurnsGrow, Grows
<1>3. turn[f].stop => turn'[f].stop
  BY <1>1 DEF TurnsGrow, Grows, FromIsOver, MayMoveBack, Begun, IsBegun
<1>4. \A n \in Turn : drops[n] # None => drops'[n] = drops[n]
  BY DEF OffersMove, MessageMoves
<1> QED
  BY <1>2, <1>3, <1>4 DEF MayMoveBack

LEMMA AskedBegunHolds ==
  ASSUME TypeInv, AskedBegun, TurnsGrow, OffersMove
  PROVE  AskedBegun'
<1>1. \A u \in Turn : Begun(u) => Begun(u)'
  BY DEF TurnsGrow, Grows, Begun
<1>2. \A p \in Poll : p[1] \in Turn
  BY DEF Poll
<1>3. pending \in Poll \cup {None} /\ drops \in [Turn -> Poll \cup {None}]
  BY DEF TypeInv, TypeOK
<1>4. tip \in 0 .. M
  BY DEF TypeInv, TypeOK
<1>5. tip' # 0 => Begun(tip)'
  <2>1. CASE tip' = tip
    BY <1>1, <1>4, <2>1 DEF AskedBegun, Turn
  <2>2. CASE \E x \in Turn : tip' = x /\ Begun(x) /\ turn[x].pc # "done"
    BY <1>1, <2>2
  <2>3. CASE \E n \in Turn : /\ msg[n] = "dropping" /\ drops[n] # None
                             /\ tip' = drops[n][1]
    BY <1>1, <1>2, <1>3, <2>3 DEF AskedBegun
  <2> QED
    BY <2>1, <2>2, <2>3 DEF OffersMove, TipMoves
<1>6. ASSUME NEW m \in Turn
      PROVE  /\ drops'[m] # None =>
                  /\ msg'[m] \in {"dropping", "closing", "turn"}
                  /\ Begun(drops[m][1])'
             /\ msg'[m] \in {"dropping", "closing"} => drops'[m] # None
  <2>1. MessageMoves(m)
    BY DEF OffersMove
  <2>2. CASE drops[m] # None
    <3>1. drops'[m] = drops[m] /\ drops[m][1] \in Turn /\ Begun(drops[m][1])
      BY <1>2, <1>3, <2>1, <2>2 DEF MessageMoves, AskedBegun
    <3>2. msg'[m] \in {"dropping", "closing", "turn"}
      BY <2>1, <2>2 DEF MessageMoves, AskedBegun
    <3> QED
      BY <1>1, <2>2, <3>1, <3>2
  <2>3. CASE drops[m] = None
    BY <1>1, <1>2, <1>3, <2>1, <2>3 DEF MessageMoves, AskedBegun
  <2> QED
    BY <2>2, <2>3
<1>7. pending' # None => Begun(pending[1])'
  <2>1. CASE pending' = pending
    BY <1>1, <1>2, <1>3, <2>1 DEF AskedBegun
  <2>2. CASE pending'[1] \in Turn /\ Begun(pending'[1])
    BY <1>1, <2>2
  <2> QED
    BY <2>1, <2>2 DEF OffersMove
<1> QED
  BY <1>5, <1>6, <1>7 DEF AskedBegun

LEMMA FromIsOverHolds ==
  ASSUME TypeInv, Registered, AskedBegun, FromIsOver, TurnsGrow
  PROVE  FromIsOver'
<1> SUFFICES ASSUME NEW t \in Turn, turn'[t].from # 0,
                    NEW f, f = turn'[t].from
             PROVE  /\ Begun(t)' /\ f # t /\ Begun(f)'
                    /\ turn'[f].pc = "done" \/ turn'[f].stop
  BY DEF FromIsOver
<1>1. \A u \in Turn : Grows(u, turn'[u]) /\ turn[u] \in TurnRec
  BY DEF TurnsGrow, TypeInv, TypeOK
<1>2. ASSUME f \in Turn, f # t, Begun(f), turn[f].pc = "done" \/ turn[f].stop
      PROVE  Begun(f)' /\ (turn'[f].pc = "done" \/ turn'[f].stop)
  BY <1>1, <1>2 DEF Grows, Begun, IsBegun
<1>3. CASE f = turn[t].from
  <2>1. f \in Turn
    BY <1>1, <1>3 DEF TurnRec, Turn
  <2>2. Begun(t) /\ f # t /\ Begun(f) /\ (turn[f].pc = "done" \/ turn[f].stop)
    BY <1>3 DEF FromIsOver
  <2> QED
    BY <1>1, <1>2, <2>1, <2>2 DEF Grows, Begun
<1>4. CASE f # turn[t].from
  <2>1. /\ turn[t].pc = "begin" /\ f = tip /\ ~turn[t].stop
        /\ IsBegun(turn'[t]) /\ ~Begun(t)
    BY <1>1, <1>4 DEF Grows
  <2>2. f \in Turn /\ Begun(f) /\ f # t
    BY <2>1 DEF AskedBegun, TypeInv, TypeOK, Turn
  <2>3. reg = t
    BY <2>1 DEF Registered, IsActive
  <2>4. turn[f].pc = "done" \/ turn[f].stop
    BY <2>2, <2>3 DEF Registered, IsActive, Begun, IsBegun
  <2> QED
    BY <1>2, <2>1, <2>2, <2>4 DEF Begun
<1> QED
  BY <1>3, <1>4

\* Moving past a question does not move to where its turn began, and what
\* moves the parent back there is late.
LEMMA MovedOnHolds ==
  ASSUME TypeInv, GoesInv, TurnsGrow, OffersMove
  PROVE  MovedOn'
<1> SUFFICES ASSUME NEW m \in Turn, drops'[m] # None, msg'[m] # "dropping",
                    NEW t, t = drops'[m][1], ~MayMoveBack(t)'
             PROVE  \/ ~Begun(m)' /\ tip' # turn'[t].from
                    \/ /\ Begun(m)'
                       /\ turn'[m].stop \/ turn'[m].from # turn'[t].from
  BY DEF MovedOn
<1> USE DEF GoesInv
<1>1. \A u \in Turn : Grows(u, turn'[u]) /\ turn[u] \in TurnRec
  BY DEF TurnsGrow, TypeInv, TypeOK
<1>2. MessageMoves(m) /\ drops[m] # None /\ drops'[m] = drops[m]
  BY DEF OffersMove, MessageMoves
<1>3. t \in Turn /\ Begun(t)
  BY <1>2 DEF AskedBegun, TypeInv, TypeOK, Poll
<1>4. turn'[t].from = turn[t].from /\ turn[t].from \in 0 .. M
  BY <1>1, <1>3 DEF Grows, TurnRec
<1>5. ~MayMoveBack(t)
  BY <1>3, MayMoveBackStays
<1>6. CASE msg[m] = "dropping"
  <2>1. tip' = t
    BY <1>2, <1>6 DEF MessageMoves
  <2>2. tip' # turn'[t].from
    BY <1>3, <1>4, <2>1 DEF FromIsOver, Turn
  <2>3. turn[m].pc = "idle"
    BY <1>6 DEF TypeInv
  <2>4. Begun(m)' => turn'[m].stop
    BY <1>1, <2>3 DEF Grows, Begun, IsBegun
  <2> QED
    BY <2>2, <2>4
<1>7. CASE msg[m] # "dropping"
  <2>1. \/ ~Begun(m) /\ tip # turn[t].from
        \/ Begun(m) /\ (turn[m].stop \/ turn[m].from # turn[t].from)
    BY <1>2, <1>5, <1>7 DEF MovedOn
  <2>2. CASE Begun(m)
    BY <1>1, <1>4, <2>1, <2>2 DEF Grows, Begun, IsBegun
  <2>3. CASE ~Begun(m) /\ Begun(m)'
    <3>1. turn'[m].stop \/ turn'[m].from = tip
      <4>1. turn[m].from = 0
        BY <2>3 DEF FromIsOver
      <4> QED
        BY <1>1, <2>3, <4>1 DEF Grows, Begun
    <3> QED
      BY <1>4, <2>1, <2>3, <3>1
  <2>4. CASE ~Begun(m) /\ ~Begun(m)'
    <3>1. ASSUME tip' # tip, tip' = turn[t].from
          PROVE  FALSE
      <4> DEFINE f == turn[t].from
      <4>1. CASE \E x \in Turn : tip' = x /\ Begun(x) /\ turn[x].pc # "done"
        <5>1. f # 0 /\ turn[f].pc # "done"
          BY <3>1, <4>1 DEF Turn
        <5>2. turn[f].stop
          BY <1>3, <5>1 DEF FromIsOver
        <5> QED
          BY <1>5, <5>1, <5>2 DEF MayMoveBack
      <4>2. CASE \E n \in Turn : /\ msg[n] = "dropping" /\ drops[n] # None
                                 /\ tip' = drops[n][1]
        <5>1. PICK n \in Turn : /\ msg[n] = "dropping" /\ drops[n] # None
                                /\ tip' = drops[n][1]
          BY <4>2
        <5>2. turn[n].pc = "idle"
          BY <5>1 DEF TypeInv
        <5>3. n # t
          BY <1>3, <5>2 DEF Begun, IsBegun
        <5>4. f # 0
          BY <3>1, <5>1 DEF TypeInv, TypeOK, Poll, Turn
        <5> QED
          BY <1>5, <3>1, <5>1, <5>3, <5>4 DEF MayMoveBack
      <4> QED
        BY <3>1, <4>1, <4>2 DEF OffersMove, TipMoves
    <3> QED
      BY <1>4, <2>1, <2>4, <3>1
  <2> QED
    BY <2>2, <2>3, <2>4
<1> QED
  BY <1>6, <1>7

\* So a step that does this keeps the invariant.
GoesStep == TurnsGrow /\ OffersMove

LEMMA GoesHolds ==
  ASSUME TypeInv, GoesInv, GoesStep
  PROVE  GoesInv'
<1>1. Registered'
  BY DEF GoesStep, TurnsGrow
<1> QED
  BY <1>1, AskedBegunHolds, FromIsOverHolds, MovedOnHolds DEF GoesInv,
     GoesStep

-----------------------------------------------------------------------------
(* Every step does.                                                        *)

LEMMA SpawnGrows ==
  ASSUME TypeInv, NEW m \in Turn, turn[m].pc = "idle"
  PROVE  Grows(m, Spawned(m)) /\ ~IsActive(Spawned(m))
<1>1. Spawned(m).pc = "spawned" /\ Spawned(m).from = 0
  BY DEF Spawned, IdleTurn
<1> QED
  BY <1>1 DEF Grows, Begun, IsBegun, IsActive

LEMMA OfferNothingGoes ==
  ASSUME TypeInv, GoesInv, NEW m \in Turn, OfferNothing(m)
  PROVE  GoesStep
<1>1. turn[m].pc = "idle" /\ drops[m] = None /\ msg[m] = "unsent"
  BY DEF OfferNothing, NextMessage, TypeInv, GoesInv, AskedBegun
<1>2. \A u \in Turn : turn'[u] = IF u = m THEN Spawned(m) ELSE turn[u]
  BY DEF OfferNothing, TypeInv, TypeOK
<1>3. TurnsGrow
  BY <1>1, <1>2, SpawnGrows DEF TurnsGrow, OfferNothing, GoesInv, Registered,
     Grows, Begun, IsBegun
<1>4. OffersMove
  BY <1>1 DEF OfferNothing, OffersMove, TipMoves, MessageMoves, TypeInv,
     TypeOK, GoesInv, AskedBegun
<1> QED
  BY <1>3, <1>4 DEF GoesStep

LEMMA OfferAnswerGoes ==
  ASSUME TypeInv, GoesInv, NEW m \in Turn, OfferAnswer(m)
  PROVE  GoesStep
<1>1. drops[m] = None /\ msg[m] = "unsent" /\ pending[1] \in Turn
  BY DEF OfferAnswer, NextMessage, TypeInv, TypeOK, Poll, GoesInv, AskedBegun
<1>2. TurnsGrow
  BY <1>1, ReachedSteady, OneSteady DEF OfferAnswer, GoesInv, Event
<1>3. OffersMove
  BY <1>1 DEF OfferAnswer, OffersMove, TipMoves, MessageMoves, TypeInv,
     TypeOK, GoesInv, AskedBegun
<1> QED
  BY <1>2, <1>3 DEF GoesStep

LEMMA OfferDropGoes ==
  ASSUME TypeInv, GoesInv, NEW m \in Turn, OfferDrop(m)
  PROVE  GoesStep
<1>1. drops[m] = None /\ msg[m] = "unsent"
  BY DEF OfferDrop, NextMessage, TypeInv, TypeOK, GoesInv, AskedBegun
<1>2. TurnsGrow
  BY TurnsStand DEF OfferDrop, GoesInv
<1>3. OffersMove
  BY <1>1 DEF OfferDrop, OffersMove, TipMoves, MessageMoves, TypeInv,
     TypeOK, GoesInv, AskedBegun
<1> QED
  BY <1>2, <1>3 DEF GoesStep

LEMMA CommandStopGoes ==
  ASSUME TypeInv, GoesInv, NEW m \in Turn, CommandStop(m)
  PROVE  GoesStep
<1>1. drops[m] = None /\ msg[m] = "unsent" /\ reg \in Turn
  BY SMTT(30) DEF CommandStop, NextMessage, TypeInv, TypeOK, GoesInv, AskedBegun, Turn
<1>2. Steady(reg, Cancelled(reg)) /\ Cancelled(reg).stop
  BY <1>1, CancelledSteady
<1>3. \A u \in Turn : turn'[u] = IF u = reg THEN Cancelled(reg) ELSE turn[u]
  BY <1>1 DEF CommandStop, TypeInv, TypeOK
<1>4. \A u \in Turn : Steady(u, turn'[u])
  BY <1>2, <1>3 DEF Steady
<1>5. Registered'
  BY <1>2, <1>3 DEF GoesInv, Registered
<1>6. TurnsGrow
  BY <1>4, <1>5, SteadyGrows DEF TurnsGrow
<1>7. OffersMove
  BY <1>1 DEF CommandStop, OffersMove, TipMoves, MessageMoves, TypeInv,
     TypeOK, GoesInv, AskedBegun
<1> QED
  BY <1>6, <1>7 DEF GoesStep

LEMMA OnPollResponseGoes ==
  ASSUME TypeInv, GoesInv, NEW p \in Poll, OnPollResponse(p)
  PROVE  GoesStep
<1>1. p[1] \in Turn
  BY DEF Poll
<1>2. TurnsGrow
  BY <1>1, ReachedSteady, OneSteady DEF OnPollResponse, GoesInv, Event
<1>3. OffersMove
  BY OffersStand DEF OnPollResponse, offers, TipMoves, GoesInv
<1> QED
  BY <1>2, <1>3 DEF GoesStep

LEMMA MovePastGoes ==
  ASSUME TypeInv, GoesInv, NEW m \in Turn, MovePast(m)
  PROVE  GoesStep
<1>1. drops[m] # None /\ msg[m] = "dropping"
  BY DEF MovePast, GoesInv, AskedBegun
<1>2. TurnsGrow
  BY TurnsStand DEF MovePast, GoesInv
<1>3. OffersMove
  BY <1>1 DEF MovePast, OffersMove, TipMoves, MessageMoves, TypeInv,
     TypeOK, GoesInv, AskedBegun
<1> QED
  BY <1>2, <1>3 DEF GoesStep

LEMMA CloseAbandonedGoes ==
  ASSUME TypeInv, GoesInv, NEW m \in Turn, CloseAbandoned(m)
  PROVE  GoesStep
<1> DEFINE t == drops[m][1]
           r == IF PollOf(t) = drops[m] THEN Reached(t, "dropped") ELSE turn[t]
           s == Spawned(m)
<1>1. drops[m] # None /\ msg[m] = "closing" /\ turn[m].pc = "idle"
  BY DEF CloseAbandoned, GoesInv, AskedBegun, TypeInv
<1>2. t \in Turn /\ Begun(t)
  BY <1>1 DEF GoesInv, AskedBegun, TypeInv, TypeOK, Poll
<1>3. Steady(t, r)
  BY <1>2, ReachedSteady DEF Event, Steady
<1>4. Grows(m, s) /\ ~IsActive(s)
  BY <1>1, SpawnGrows
<1>5. turn' = [turn EXCEPT ![t] = r, ![m] = s]
  BY DEF CloseAbandoned
<1> HIDE DEF r, s
<1>6. \A u \in Turn : turn'[u] = IF u = m THEN s
                                  ELSE IF u = t THEN r ELSE turn[u]
  BY <1>2, <1>5 DEF TypeInv, TypeOK
<1>7. \A u \in Turn : Grows(u, turn'[u])
  BY <1>2, <1>3, <1>4, <1>6, SteadyGrows DEF Steady
<1>8. Registered'
  <2>1. IsActive(r) => IsActive(turn[t])
    BY <1>3 DEF Steady, Begun, IsBegun, IsActive
  <2>2. turn[t].stop => r.stop
    BY <1>3 DEF Steady
  <2>3. reg' = reg
    BY DEF CloseAbandoned
  <2> QED
    BY <1>2, <1>4, <1>6, <2>1, <2>2, <2>3 DEF GoesInv, Registered
<1>9. OffersMove
  BY <1>1 DEF CloseAbandoned, OffersMove, TipMoves, MessageMoves, TypeInv,
     TypeOK, GoesInv, AskedBegun
<1> QED
  BY <1>7, <1>8, <1>9 DEF GoesStep, TurnsGrow

LEMMA RegisterGoes ==
  ASSUME TypeInv, GoesInv, NEW t \in Turn, Register(t)
  PROVE  GoesStep
<1> DEFINE r == [turn[t] EXCEPT !.pc = "begin"]
<1>1. turn[t] \in TurnRec /\ turn[t].pc = "spawned" /\ reg \in 0 .. M
  BY DEF Register, TypeInv, TypeOK
<1>2. r.pc = "begin" /\ r.from = turn[t].from /\ r.stop = turn[t].stop
  BY <1>1 DEF TurnRec
<1>3. \A u \in Turn : turn'[u] = IF u = t THEN r
                                  ELSE IF u = reg THEN Cancelled(u) ELSE turn[u]
  BY DEF Register
<1> HIDE DEF r
<1>4. Grows(t, r)
  BY <1>1, <1>2 DEF Grows, Begun, IsBegun
<1>5. \A u \in Turn : Steady(u, turn[u])
  BY DEF Steady
<1>6. \A u \in Turn \ {t} : Steady(u, turn'[u])
  BY <1>3, <1>5, CancelledSteady
<1>7. \A u \in Turn : Grows(u, turn'[u])
  BY <1>3, <1>4, <1>6, SteadyGrows
<1>8. \A u \in Turn \ {t} : u = reg => turn'[u].stop
  BY <1>3, CancelledSteady
<1>9. Registered'
  BY <1>6, <1>8 DEF Register, GoesInv, Registered, Steady, Begun, IsBegun,
     IsActive
<1>10. OffersMove
  BY OffersStand DEF Register, offers, TipMoves, GoesInv
<1> QED
  BY <1>7, <1>9, <1>10 DEF GoesStep, TurnsGrow

LEMMA BeginGoes ==
  ASSUME TypeInv, GoesInv, NEW t \in Turn, Begin(t)
  PROVE  GoesStep
<1> DEFINE r == IF turn[t].stop THEN [turn[t] EXCEPT !.pc = "finish"]
                ELSE [turn[t] EXCEPT !.pc = "sending", !.from = tip]
<1>1. turn[t] \in TurnRec /\ turn[t].pc = "begin"
  BY DEF Begin, TypeInv, TypeOK
<1>2. /\ IsBegun(r) /\ r.stop = turn[t].stop
      /\ IF turn[t].stop THEN r.from = turn[t].from ELSE r.from = tip
  BY <1>1 DEF TurnRec, IsBegun
<1>3. \A u \in Turn : turn'[u] = IF u = t THEN r ELSE turn[u]
  BY DEF Begin, TypeInv, TypeOK
<1> HIDE DEF r
<1>4. Grows(t, r)
  BY <1>1, <1>2 DEF Grows, Begun, IsBegun
<1>5. \A u \in Turn : Grows(u, turn'[u])
  BY <1>3, <1>4 DEF Grows, Begun
<1>6. Registered'
  BY <1>1, <1>2, <1>3 DEF Begin, GoesInv, Registered, IsActive
<1>7. OffersMove
  BY OffersStand DEF Begin, offers, TipMoves, GoesInv
<1> QED
  BY <1>5, <1>6, <1>7 DEF GoesStep, TurnsGrow

LEMMA FinishGoes ==
  ASSUME TypeInv, GoesInv, NEW t \in Turn, Finish(t)
  PROVE  GoesStep
<1> DEFINE r == [turn[t] EXCEPT !.pc = "done", !.text = {}, !.said = {}]
<1>1. turn[t] \in TurnRec /\ turn[t].pc = "finish"
  BY DEF Finish, TypeInv, TypeOK
<1>2. r.pc = "done" /\ r.stop = turn[t].stop /\ r.from = turn[t].from
  BY <1>1 DEF TurnRec
<1>3. \A u \in Turn : turn'[u] = IF u = t THEN r ELSE turn[u]
  BY DEF Finish, TypeInv, TypeOK
<1> HIDE DEF r
<1>4. \A u \in Turn : Grows(u, turn'[u])
  BY <1>1, <1>2, <1>3 DEF Grows, Begun, IsBegun
<1>5. Registered'
  BY <1>2, <1>3 DEF Finish, GoesInv, Registered, IsActive
<1>6. OffersMove
  BY OffersStand DEF Finish, offers, TipMoves, GoesInv
<1> QED
  BY <1>4, <1>5, <1>6 DEF GoesStep, TurnsGrow

LEMMA ReplySteady ==
  ASSUME TypeInv, GoesInv, NEW t \in Turn,
         turn[t].pc \in {"sending", "answer"}, reg' = reg,
         Finishes(t) \/ StopsToAsk(t)
  PROVE  TurnsGrow
<1>1. turn[t] \in TurnRec
  BY DEF TypeInv, TypeOK
<1>2. ASSUME NEW whole, NEW pc \in {"post", "loop"}, NEW ask,
             turn' = [turn EXCEPT ![t] =
                        [@ EXCEPT !.pc = pc, !.ask = ask,
                                  !.text = WithoutPrefix(whole, turn[t].said)]]
      PROVE  TurnsGrow
  <2> DEFINE text == WithoutPrefix(whole, turn[t].said)
             r == [turn[t] EXCEPT !.pc = pc, !.ask = ask, !.text = text]
  <2> HIDE DEF text
  <2>1. r.pc = pc /\ r.from = turn[t].from /\ r.stop = turn[t].stop
    BY <1>1 DEF TurnRec
  <2>2. turn' = [turn EXCEPT ![t] = r]
    BY <1>2 DEF text
  <2> HIDE DEF r
  <2> QED
    BY <2>1, <2>2, UnderWaySteady DEF Begun, IsBegun, GoesInv
<1>3. CASE Finishes(t)
  BY <1>2, <1>3 DEF Finishes
<1>4. CASE StopsToAsk(t)
  <2>1. PICK more :
          turn' = [turn EXCEPT ![t] =
                 [@ EXCEPT !.pc = "loop", !.ask = TRUE,
                           !.text = WithoutPrefix(content[t] \cup more,
                                                  turn[t].said)]]
    BY <1>4 DEF StopsToAsk
  <2> QED
    BY <1>2, <2>1
<1> QED
  BY <1>3, <1>4

LEMMA AfterQuestionSteady ==
  ASSUME TypeInv, NEW t \in Turn, NEW out, NEW hurt
  PROVE  LET r == AfterQuestion(t, out)
             s == [r EXCEPT !.hurt = hurt]
         IN  /\ IsBegun(r) /\ r.from = turn[t].from /\ r.stop = turn[t].stop
             /\ IsBegun(s) /\ s.from = turn[t].from /\ s.stop = turn[t].stop
<1> DEFINE a == [turn[t] EXCEPT !.out = out, !.ready = {}]
           r == AfterQuestion(t, out)
<1>1. turn[t] \in TurnRec
  BY DEF TypeInv, TypeOK
<1>2. r \in {[a EXCEPT !.pc = "finish"], [a EXCEPT !.pc = "poll", !.q = @ + 1],
             [a EXCEPT !.pc = "answer"]}
  BY DEF AfterQuestion
<1>3. IsBegun(r) /\ r.from = turn[t].from /\ r.stop = turn[t].stop
  BY <1>1, <1>2 DEF TurnRec, IsBegun
<1>4. [r EXCEPT !.hurt = hurt].pc = r.pc
      /\ [r EXCEPT !.hurt = hurt].from = r.from
      /\ [r EXCEPT !.hurt = hurt].stop = r.stop
  BY <1>1, <1>2 DEF TurnRec
<1> QED
  BY <1>3, <1>4 DEF IsBegun

LEMMA QuestionGoes ==
  ASSUME TypeInv, GoesInv, NEW t \in Turn, QuestionStep(t)
  PROVE  GoesStep
<1>1. turn[t] \in TurnRec
  BY DEF TypeInv, TypeOK
<1>2. TurnsGrow
  <2>1. CASE SendPoll(t)
    BY <2>1, StepSteady DEF SendPoll, GoesInv
  <2>2. CASE SendPollFails(t)
    BY <2>2, UnderWaySteady, AfterQuestionSteady DEF SendPollFails, GoesInv,
       Begun, IsBegun
  <2>3. CASE PutPoll(t)
    BY <2>3, StepSteady DEF PutPoll, GoesInv
  <2>4. CASE PutPollFails(t)
    <3> DEFINE r == [AfterQuestion(t, "none") EXCEPT !.hurt = Hurt(t)]
    <3>1. /\ turn' = [turn EXCEPT ![t] = r] /\ IsBegun(r)
          /\ r.from = turn[t].from /\ r.stop = turn[t].stop
      BY <2>4, AfterQuestionSteady DEF PutPollFails
    <3> HIDE DEF r
    <3> QED
      BY <2>4, <3>1, UnderWaySteady DEF PutPollFails, Begun, IsBegun, GoesInv
  <2>5. CASE AwaitingAnswer(t)
    BY <2>5, StepSteady DEF AwaitingAnswer, GoesInv
  <2>6. CASE Select(t)
    <3>1. CASE turn' = [turn EXCEPT ![t].pc = "select"]
      <4>1. Step(t, "arming", "select") /\ reg' = reg
        BY <2>6, <3>1 DEF Select, Step
      <4> QED
        BY <4>1, StepSteady DEF GoesInv
    <3>2. CASE \E e \in turn[t].ready :
                 turn' = [turn EXCEPT ![t] =
                            [@ EXCEPT !.pc = "settle", !.out = e]]
      <4>1. PICK e : turn' = [turn EXCEPT ![t] =
                                [@ EXCEPT !.pc = "settle", !.out = e]]
        BY <3>2
      <4> DEFINE r == [turn[t] EXCEPT !.pc = "settle", !.out = e]
      <4>2. /\ turn' = [turn EXCEPT ![t] = r] /\ r.pc = "settle"
            /\ r.from = turn[t].from /\ r.stop = turn[t].stop
        BY <1>1, <4>1 DEF TurnRec
      <4> HIDE DEF r
      <4> QED
        BY <2>6, <4>2, UnderWaySteady DEF Select, Begun, IsBegun, GoesInv
    <3> QED
      BY <2>6, <3>1, <3>2 DEF Select
  <2>7. CASE TimesOut(t)
    <3> DEFINE r == [turn[t] EXCEPT !.pc = "settle", !.out = "timeout"]
    <3>1. /\ turn' = [turn EXCEPT ![t] = r] /\ r.pc = "settle"
          /\ r.from = turn[t].from /\ r.stop = turn[t].stop
      BY <1>1, <2>7 DEF TimesOut, TurnRec
    <3> HIDE DEF r
    <3> QED
      BY <2>7, <3>1, UnderWaySteady DEF TimesOut, Begun, IsBegun, GoesInv
  <2>8. CASE SettlePoll(t)
    BY <2>8, StepSteady DEF SettlePoll, GoesInv
  <2>9. CASE SettlePollFails(t)
    <3> DEFINE r == [turn[t] EXCEPT !.pc = "leave", !.hurt = Hurt(t)]
    <3>1. /\ turn' = [turn EXCEPT ![t] = r] /\ r.pc = "leave"
          /\ r.from = turn[t].from /\ r.stop = turn[t].stop
      BY <1>1, <2>9 DEF SettlePollFails, TurnRec
    <3> HIDE DEF r
    <3> QED
      BY <2>9, <3>1, UnderWaySteady DEF SettlePollFails, Begun, IsBegun,
         GoesInv
  <2>10. CASE DoneAwaiting(t)
    BY <2>10, UnderWaySteady, AfterQuestionSteady DEF DoneAwaiting, GoesInv,
       Begun, IsBegun
  <2> QED
    BY <2>1, <2>2, <2>3, <2>4, <2>5, <2>6, <2>7, <2>8, <2>9, <2>10
       DEF QuestionStep
<1>3. UNCHANGED <<msg, drops, tip>>
  BY DEF QuestionStep, SendPoll, SendPollFails, PutPoll, PutPollFails,
     AwaitingAnswer, Select, TimesOut, SettlePoll, SettlePollFails,
     DoneAwaiting, offers
<1>4. CASE AwaitingAnswer(t)
  <2>1. Begun(t) /\ pending' = PollOf(t)
    BY <1>4 DEF AwaitingAnswer, Step, Begun, IsBegun
  <2>2. pending'[1] = t
    BY <2>1 DEF PollOf
  <2> QED
    BY <1>2, <1>3, <2>1, <2>2 DEF GoesStep, OffersMove, TipMoves,
       MessageMoves, GoesInv, AskedBegun
<1>5. CASE ~AwaitingAnswer(t)
  <2>1. pending' \in {None, pending}
    BY <1>5 DEF QuestionStep, SendPoll, SendPollFails, PutPoll, PutPollFails,
       Select, TimesOut, SettlePoll, SettlePollFails, DoneAwaiting
  <2> QED
    BY <1>2, <1>3, <2>1, OffersStand DEF GoesStep, TipMoves, GoesInv
<1> QED
  BY <1>4, <1>5

LEMMA TurnGoes ==
  ASSUME TypeInv, GoesInv, NEW t \in Turn, TurnStep(t)
  PROVE  GoesStep
<1>1. turn[t] \in TurnRec
  BY DEF TypeInv, TypeOK
<1>2. ASSUME UNCHANGED <<pending, offers, tip>>
      PROVE  OffersMove
  BY <1>2, OffersStand DEF offers, TipMoves, GoesInv
<1>3. CASE SendReturns(t)
  BY <1>2, <1>3, ReplySteady DEF SendReturns, GoesStep
<1>4. CASE SendFails(t)
  BY <1>2, <1>4, StepSteady DEF SendFails, GoesStep, GoesInv
<1>5. CASE AskLimitReached(t)
  <2>1. AfterAsks(t) \in {"finish", "post"}
    BY DEF AfterAsks
  <2> QED
    BY <1>2, <1>5, <2>1, StepSteady DEF AskLimitReached, GoesStep, GoesInv
<1>6. CASE StartRound(t)
  <2> DEFINE r == [turn[t] EXCEPT !.pc = "poll", !.round = turn[t].round + 1,
                                  !.q = 1, !.said = turn[t].text]
  <2>1. /\ turn' = [turn EXCEPT ![t] = r] /\ r.pc = "poll"
        /\ r.from = turn[t].from /\ r.stop = turn[t].stop
    BY <1>1, <1>6 DEF StartRound, TurnRec
  <2> HIDE DEF r
  <2>2. TurnsGrow
    BY <1>6, <2>1, UnderWaySteady DEF StartRound, Begun, IsBegun, GoesInv
  <2> QED
    BY <1>2, <1>6, <2>2 DEF StartRound, GoesStep
<1>7. CASE AnswerReturns(t)
  BY <1>2, <1>7, ReplySteady DEF AnswerReturns, GoesStep
<1>8. CASE AnswerFails(t)
  <2> DEFINE r == [turn[t] EXCEPT !.pc = AfterAsks(t), !.hurt = Hurt(t)]
  <2>1. /\ turn' = [turn EXCEPT ![t] = r] /\ r.pc \in {"finish", "post"}
        /\ r.from = turn[t].from /\ r.stop = turn[t].stop
    BY <1>1, <1>8 DEF AnswerFails, TurnRec, AfterAsks
  <2> HIDE DEF r
  <2>2. TurnsGrow
    BY <1>8, <2>1, UnderWaySteady DEF AnswerFails, Begun, IsBegun, GoesInv
  <2> QED
    BY <1>2, <1>8, <2>2 DEF AnswerFails, GoesStep
<1>9. CASE PostAnswer(t)
  <2>1. Step(t, "post", "advance") \/ Step(t, "post", "finish")
    BY <1>9 DEF PostAnswer
  <2> QED
    BY <1>2, <1>9, <2>1, StepSteady DEF PostAnswer, GoesStep, GoesInv
<1>10. CASE AdvanceSession(t)
  <2>1. TurnsGrow
    BY <1>10, StepSteady DEF AdvanceSession, GoesInv
  <2>2. TipMoves
    BY <1>10 DEF AdvanceSession, TipMoves, Step, Begun, IsBegun
  <2> QED
    BY <1>10, <2>1, <2>2, OffersStand DEF AdvanceSession, offers, GoesStep,
       GoesInv
<1> QED
  BY <1>3, <1>4, <1>5, <1>6, <1>7, <1>8, <1>9, <1>10, RegisterGoes,
     BeginGoes, FinishGoes, QuestionGoes DEF TurnStep

LEMMA DropStepGoes ==
  ASSUME TypeInv, GoesInv, NEW t \in Turn, DropStep(t)
  PROVE  GoesStep
<1>1. TurnsGrow
  <2>1. CASE QuestionDropped(t)
    BY <2>1, TurnsStand DEF QuestionDropped, GoesInv
  <2>2. CASE DropFails(t)
    <3> DEFINE r == [turn[t] EXCEPT !.hurt = TRUE]
    <3>1. /\ turn' = [turn EXCEPT ![t] = r] /\ r.pc = turn[t].pc
          /\ r.from = turn[t].from /\ r.stop = turn[t].stop
      BY <2>2 DEF DropFails, TypeInv, TypeOK, TurnRec
    <3> HIDE DEF r
    <3>2. Steady(t, r)
      BY <3>1 DEF Steady
    <3> QED
      BY <2>2, <3>1, <3>2, OneSteady DEF DropFails, GoesInv
  <2> QED
    BY <2>1, <2>2 DEF DropStep
<1>2. OffersMove
  BY OffersStand DEF DropStep, QuestionDropped, DropFails, offers, TipMoves,
     GoesInv
<1> QED
  BY <1>1, <1>2 DEF GoesStep

LEMMA InitGoes ==
  ASSUME Init
  PROVE  GoesInv
  BY DEF Init, GoesInv, Registered, AskedBegun, FromIsOver, MovedOn, IdleTurn,
     Begun, IsBegun, IsActive

LEMMA NextGoes ==
  ASSUME TypeInv, GoesInv, [Next]_vars
  PROVE  GoesInv'
<1>1. CASE UNCHANGED vars
  <2>1. TurnsGrow /\ OffersMove
    BY <1>1, TurnsStand, OffersStand DEF vars, GoesInv, TipMoves
  <2> QED
    BY <2>1, GoesHolds DEF GoesStep
<1>2. CASE Owner
  BY <1>2, GoesHolds, OfferNothingGoes, OfferAnswerGoes, OfferDropGoes,
     CommandStopGoes, OnPollResponseGoes DEF Owner
<1>3. CASE \E t \in Turn : MessageStep(t) \/ TurnStep(t) \/ DropStep(t)
  BY <1>3, GoesHolds, MovePastGoes, CloseAbandonedGoes, TurnGoes,
     DropStepGoes DEF MessageStep
<1> QED
  BY <1>1, <1>2, <1>3 DEF Next

\* A message that drops a question continues after it, in the conversation
\* the question was asked in: MovePast comes before the turn is begun, and
\* only what is late moves the parent back.
THEOREM DropAlwaysGoesOn == Spec => []DropGoesOn
<1>1. TypeInv /\ GoesInv => DropGoesOn
  <2> SUFFICES ASSUME TypeInv, GoesInv, NEW m \in Turn, drops[m] # None,
                      turn[m].pc \notin {"idle", "spawned", "begin"},
                      ~MayMoveBack(drops[m][1])
               PROVE  turn[m].stop \/ turn[m].from # turn[drops[m][1]].from
    BY DEF DropGoesOn
  <2>1. msg[m] # "dropping"
    BY DEF TypeInv
  <2> QED
    BY <2>1 DEF GoesInv, MovedOn, Begun, IsBegun
<1>2. Init => TypeInv /\ PendingIsAwaited /\ GoesInv
  BY InitHolds, InitGoes
<1>3. (TypeInv /\ PendingIsAwaited /\ GoesInv) /\ [Next]_vars
      => (TypeInv /\ PendingIsAwaited /\ GoesInv)'
  BY NextHolds, NextGoes
<1> QED
  BY <1>1, <1>2, <1>3, PTL DEF Spec
=============================================================================
