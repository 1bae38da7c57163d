-------------------------- MODULE QuizPhases_proofs --------------------------
(***************************************************************************)
(* Theorems about QuizPhases and QuizMinuteurs, for any target, any stock  *)
(* of questions, any durations and any number of ticks.                    *)
(*                                                                         *)
(* Neither the score nor the winner is inductive by itself.  What a step   *)
(* relies on is where the game stands: only the current question can be    *)
(* unfinished, it is finished exactly outside of its reading and its       *)
(* answering, and a tie-break question is one past the target.  The last   *)
(* fact is why the count of _advance_after_result, which looks at the      *)
(* finished questions that are no tie-breaks, is the number of questions.  *)
(***************************************************************************)
EXTENDS QuizMinuteurs, FiniteSetTheorems, TLAPS

Question == [bris : BOOLEAN, finie : BOOLEAN, reponses : [Places -> Reponses]]

Nb == Len(questions)

(* Where the game stands *)
PhaseJuste ==
    /\ \A q \in 1 .. Nb - 1 : questions[q].finie
    /\ statut \in {"QUESTION_READING", "ANSWERING"} => Nb > 0 /\ ~questions[Nb].finie
    /\ statut \in {"THEME_SELECTION", "QUESTION_FINISHED", "FINISHED"}
         => \A q \in 1 .. Nb : questions[q].finie
    /\ statut = "THEME_SELECTION" => Nb < Cible
    /\ statut = "QUESTION_FINISHED" => Nb > 0

(* What a tie-break question is: one past the target, asked on a tie *)
BrisJuste ==
    \A q \in 1 .. Nb :
        /\ questions[q].bris <=> q > Cible
        /\ q > Cible => Cardinality(Justes("A", q - 1)) = Cardinality(Justes("B", q - 1))

ScoreJuste == \A s \in Places : score[s] = Cardinality(Justes(s, Nb))

PhasesIInv == TypeOK /\ PhaseJuste /\ BrisJuste /\ ScoreJuste /\ VainqueurMerite

-----------------------------------------------------------------------------
\* The rows of the questions.
LEMMA LigneType ==
    ASSUME TypeOK
    PROVE  /\ questions \in Seq(Question)
           /\ Nb \in Nat
           /\ \A q \in 1 .. Nb : questions[q] \in Question
  <1>1. questions \in Seq(Question)
    BY DEF TypeOK, Question
  <1> QED BY <1>1 DEF Nb

\* The right answers are finitely many, and no more than the questions.
LEMMA JustesFinies ==
    ASSUME NEW s, NEW n \in Nat
    PROVE  IsFiniteSet(Justes(s, n)) /\ Cardinality(Justes(s, n)) \in Nat
  <1>1. IsFiniteSet(1 .. n)
    BY FS_Interval
  <1>2. Justes(s, n) \subseteq 1 .. n
    BY DEF Justes, Finies
  <1> QED BY <1>1, <1>2, FS_Subset, FS_CardinalityType

\* The right answers among the first n questions only depend on these.
LEMMA JustesMemes ==
    ASSUME NEW n \in Nat, NEW s,
           \A q \in 1 .. n : /\ questions'[q].finie = questions[q].finie
                             /\ questions[q].finie =>
                                  questions'[q].reponses[s] = questions[q].reponses[s]
    PROVE  Justes(s, n)' = Justes(s, n)
  BY DEF Justes, Finies

\* Where no row and no score moves, the scores and the tie-breaks stay right.
LEMMA LignesMemes ==
    ASSUME UNCHANGED <<questions, score>>, BrisJuste, ScoreJuste
    PROVE  BrisJuste' /\ ScoreJuste'
  <1>1. ASSUME NEW s, NEW n
        PROVE  Justes(s, n)' = Justes(s, n)
    BY DEF Justes, Finies
  <1>2. Nb' = Nb
    BY DEF Nb
  <1>3. BrisJuste'
    BY <1>1, <1>2 DEF BrisJuste
  <1>4. PICK n : n = Nb
    OBVIOUS
  <1>5. \A s \in Places : score'[s] = Cardinality(Justes(s, n))'
    BY <1>1, <1>4 DEF ScoreJuste
  <1>6. ScoreJuste'
    BY <1>2, <1>4, <1>5 DEF ScoreJuste
  <1> QED BY <1>3, <1>6

\* Without a question there is no right answer.
LEMMA JustesVides ==
    ASSUME NEW s
    PROVE  Cardinality(Justes(s, 0)) = 0
  <1>1. Justes(s, 0) = {}
    BY DEF Justes, Finies
  <1> QED BY <1>1, FS_EmptySet

\* An unfinished question adds nothing.
LEMMA JustesInachevee ==
    ASSUME NEW n \in Nat \ {0}, NEW s, questions[n].finie = FALSE
    PROVE  Justes(s, n) = Justes(s, n - 1)
  <1>1. 1 .. n = (1 .. n - 1) \cup {n}
    OBVIOUS
  <1> QED BY <1>1 DEF Justes, Finies

\* _create_game_question: one unfinished row more.
LEMMA Pose ==
    ASSUME TypeOK, NEW b \in BOOLEAN, CreateGameQuestion(b), siege' \in Places
    PROVE  /\ TypeOK'
           /\ Nb' = Nb + 1
           /\ \A q \in 1 .. Nb : questions'[q] = questions[q]
           /\ questions'[Nb + 1].finie = FALSE
           /\ questions'[Nb + 1].bris = b
           /\ \A s \in Places : Justes(s, Nb)' = Justes(s, Nb)
  <1> DEFINE l == [bris |-> b, finie |-> FALSE, reponses |-> [s \in Places |-> "AUCUNE"]]
  <1>1. l \in Question
    BY DEF Question, Reponses
  <1>2. l.finie = FALSE /\ l.bris = b
    OBVIOUS
  <1>3. questions' = Append(questions, l)
    BY DEF CreateGameQuestion
  <1> HIDE DEF l
  <1>4. /\ questions' \in Seq(Question)
        /\ Nb' = Nb + 1
        /\ \A q \in 1 .. Nb : questions'[q] = questions[q]
        /\ questions'[Nb + 1] = l
    BY <1>1, <1>3, LigneType DEF Nb
  <1>5. TypeOK'
    BY <1>4, DureeHypothese DEF CreateGameQuestion, TypeOK, Question, Statuts, Chronometres
  <1>6. ASSUME NEW s \in Places
        PROVE  Justes(s, Nb)' = Justes(s, Nb)
    <2>1. PICK n \in Nat : n = Nb
      BY LigneType
    <2>2. Justes(s, n)' = Justes(s, n)
      BY <1>4, <2>1, JustesMemes
    <2>3. Justes(s, n + 1)' = Justes(s, n)'
      <3>1. questions'[n + 1].finie = FALSE
        BY <1>2, <1>4, <2>1
      <3>2. 1 .. n + 1 = (1 .. n) \cup {n + 1}
        BY <2>1
      <3> QED BY <3>1, <3>2 DEF Justes, Finies
    <2>4. Nb' = n + 1
      BY <1>4, <2>1
    <2> QED BY <2>1, <2>2, <2>3, <2>4
  <1> QED BY <1>2, <1>4, <1>5, <1>6

\* submit_answer: the rows keep their kind and their end, and a finished row
\* keeps everything.
LEMMA Repond ==
    ASSUME TypeOK, NEW s \in Places, NEW q \in 1 .. Nb, NEW r \in {"JUSTE", "FAUSSE"},
           SubmitAnswer(s, q, r)
    PROVE  /\ TypeOK'
           /\ Nb' = Nb
           /\ \A k \in 1 .. Nb : /\ questions'[k].finie = questions[k].finie
                                 /\ questions'[k].bris = questions[k].bris
                                 /\ questions[k].finie => questions'[k] = questions[k]
           /\ \A k \in 1 .. Nb, t \in Places :
                questions[k].reponses[t] # "AUCUNE" =>
                  questions'[k].reponses[t] = questions[k].reponses[t]
  <1> DEFINE l == [questions[q] EXCEPT !.reponses[s] = r]
  <1>1. questions \in Seq(Question) /\ questions[q] \in Question
    BY LigneType
  <1>2. /\ questions[q].finie = FALSE
        /\ questions[q].reponses \in [Places -> Reponses]
        /\ questions[q].reponses[s] = "AUCUNE"
    BY <1>1 DEF SubmitAnswer, PeutRepondre, Question
  <1>3. r \in Reponses
    BY DEF Reponses
  <1>4. /\ l \in Question /\ l.finie = questions[q].finie /\ l.bris = questions[q].bris
        /\ \A t \in Places :
             questions[q].reponses[t] # "AUCUNE" => l.reponses[t] = questions[q].reponses[t]
    BY <1>1, <1>2, <1>3 DEF Question
  <1>5. questions' = [questions EXCEPT ![q] = l]
    BY DEF SubmitAnswer
  <1> HIDE DEF l
  <1>6. /\ questions' \in Seq(Question)
        /\ Nb' = Nb
        /\ \A k \in 1 .. Nb : questions'[k] = IF k = q THEN l ELSE questions[k]
    BY <1>1, <1>4, <1>5, LigneType DEF Nb
  <1>7. TypeOK'
    BY <1>6 DEF SubmitAnswer, TypeOK, Question
  <1> QED BY <1>2, <1>4, <1>6, <1>7

\* _finish_question: the current row ends, with the answers it has.
LEMMA Finit ==
    ASSUME TypeOK, PhaseJuste, FinishQuestion
    PROVE  /\ TypeOK'
           /\ Nb > 0 /\ Nb' = Nb
           /\ \A k \in 1 .. Nb : /\ questions'[k].finie = IF k = Nb THEN TRUE ELSE questions[k].finie
                                 /\ questions'[k].bris = questions[k].bris
                                 /\ questions'[k].reponses = questions[k].reponses
           /\ \A k \in 1 .. Nb : k # Nb => questions'[k] = questions[k]
           /\ \A s \in Places :
                Cardinality(Justes(s, Nb))' = Cardinality(Justes(s, Nb)) + Points(s)
  <1> DEFINE l == [questions[Nb] EXCEPT !.finie = TRUE]
  <1>1. /\ Nb \in Nat \ {0} /\ Nb \in 1 .. Nb /\ questions[Nb].finie = FALSE
        /\ questions \in Seq(Question) /\ questions[Nb] \in Question
    <2>1. Nb \in Nat /\ Nb > 0
      BY LigneType DEF PhaseJuste, FinishQuestion
    <2>2. questions \in Seq(Question) /\ questions[Nb] \in Question
      BY <2>1, LigneType
    <2>3. questions[Nb].finie \in BOOLEAN
      BY <2>2 DEF Question
    <2>4. ~questions[Nb].finie
      BY DEF FinishQuestion, derniere, Nb
    <2> QED BY <2>1, <2>2, <2>3, <2>4
  <1>2. /\ l \in Question /\ l.finie = TRUE /\ l.bris = questions[Nb].bris
        /\ l.reponses = questions[Nb].reponses
    BY <1>1 DEF Question
  <1>3. questions' = [questions EXCEPT ![Nb] = l]
    BY DEF FinishQuestion, Nb
  <1> HIDE DEF l
  <1>4. /\ questions' \in Seq(Question)
        /\ Nb' = Nb
        /\ \A k \in 1 .. Nb : questions'[k] = IF k = Nb THEN l ELSE questions[k]
    BY <1>1, <1>2, <1>3 DEF Nb
  <1>5. \A k \in 1 .. Nb : questions[k] \in Question
    BY LigneType
  <1>6. \A k \in 1 .. Nb : /\ questions'[k].finie = IF k = Nb THEN TRUE ELSE questions[k].finie
                           /\ questions'[k].bris = questions[k].bris
                           /\ questions'[k].reponses = questions[k].reponses
    BY <1>1, <1>2, <1>4, <1>5 DEF Question
  <1>7. ASSUME NEW s \in Places
        PROVE  Cardinality(Justes(s, Nb))' = Cardinality(Justes(s, Nb)) + Points(s)
    <2>1. PICK n \in Nat \ {0} : n = Nb
      BY <1>1
    <2>2. n - 1 \in Nat /\ 1 .. n = (1 .. n - 1) \cup {n} /\ n \notin 1 .. n - 1
      BY <2>1
    <2>3. Justes(s, n) = Justes(s, n - 1)
      BY <1>1, <2>1, JustesInachevee
    <2>4. Justes(s, n - 1)' = Justes(s, n - 1)
      BY <1>6, <2>1, <2>2, JustesMemes
    <2>5. CASE questions[n].reponses[s] = "JUSTE"
      <3>1. Justes(s, n)' = Justes(s, n - 1)' \cup {n}
        BY <1>6, <2>1, <2>2, <2>5 DEF Justes, Finies
      <3>2. n \notin Justes(s, n - 1)
        BY <2>2 DEF Justes, Finies
      <3>3. Cardinality(Justes(s, n - 1) \cup {n}) = Cardinality(Justes(s, n - 1)) + 1
        BY <2>2, <3>2, JustesFinies, FS_AddElement
      <3>4. Points(s) = 1
        BY <2>1, <2>5 DEF Points, derniere, Nb
      <3>5. Nb' = n
        BY <1>4, <2>1
      <3> QED BY <2>1, <2>3, <2>4, <3>1, <3>3, <3>4, <3>5
    <2>6. CASE questions[n].reponses[s] # "JUSTE"
      <3>1. Justes(s, n)' = Justes(s, n - 1)'
        BY <1>6, <2>1, <2>2, <2>6 DEF Justes, Finies
      <3>2. Points(s) = 0
        BY <2>1, <2>6 DEF Points, derniere, Nb
      <3>3. Nb' = n
        BY <1>4, <2>1
      <3>4. Cardinality(Justes(s, n)) \in Nat
        BY JustesFinies
      <3> QED BY <2>1, <2>3, <2>4, <3>1, <3>2, <3>3, <3>4
    <2> QED BY <2>5, <2>6
  <1>8. score' \in [Places -> Nat]
    BY DEF FinishQuestion, TypeOK, Points
  <1>9. TypeOK'
    <2>1. reste' \in Int
      BY DureeHypothese DEF FinishQuestion
    <2>2. statut' \in Statuts
      BY DEF FinishQuestion, Statuts, Chronometres
    <2> QED BY <1>4, <1>8, <2>1, <2>2 DEF FinishQuestion, TypeOK, Question
  <1>10. \A k \in 1 .. Nb : k # Nb => questions'[k] = questions[k]
    BY <1>4
  <1>11. Nb > 0
    BY <1>1
  <1> QED BY <1>4, <1>6, <1>7, <1>9, <1>10, <1>11, Zenon

-----------------------------------------------------------------------------
\* The invariant holds when the game begins.
LEMMA PhasesInitial == Init => PhasesIInv
  <1> SUFFICES ASSUME Init PROVE PhasesIInv
    OBVIOUS
  <1>1. questions = <<>> /\ Nb = 0
    BY DEF Init, Nb
  <1>2. TypeOK
    BY <1>1, StockHypothese DEF Init, TypeOK, Statuts, Places
  <1>3. PhaseJuste
    BY <1>1, CibleHypothese DEF Init, PhaseJuste
  <1>4. BrisJuste
    BY <1>1 DEF BrisJuste
  <1>5. ScoreJuste
    BY <1>1, JustesVides DEF Init, ScoreJuste
  <1> QED BY <1>2, <1>3, <1>4, <1>5 DEF Init, PhasesIInv, VainqueurMerite

\* A new question: an ordinary one while there are turns left, a tie-break
\* question when the seats are level after the last one.
LEMMA PoseInvariante ==
    ASSUME PhasesIInv, NEW b \in BOOLEAN, CreateGameQuestion(b), UNCHANGED siege,
           \A q \in 1 .. Nb : questions[q].finie,
           b <=> Nb + 1 > Cible,
           b => score["A"] = score["B"]
    PROVE  PhasesIInv'
  <1>1. /\ TypeOK'
        /\ Nb' = Nb + 1 /\ Nb \in Nat
        /\ \A q \in 1 .. Nb : questions'[q] = questions[q]
        /\ questions'[Nb + 1].finie = FALSE
        /\ questions'[Nb + 1].bris = b
        /\ \A s \in Places : Justes(s, Nb)' = Justes(s, Nb)
    BY Pose, LigneType DEF PhasesIInv, TypeOK
  <1>2. PhaseJuste'
    BY <1>1 DEF CreateGameQuestion, PhaseJuste
  <1>3. ScoreJuste'
    BY <1>1 DEF CreateGameQuestion, ScoreJuste, PhasesIInv
  <1>4. ASSUME NEW q \in 1 .. Nb + 1
        PROVE  /\ questions'[q].bris <=> q > Cible
               /\ q > Cible =>
                    Cardinality(Justes("A", q - 1))' = Cardinality(Justes("B", q - 1))'
    <2>1. ASSUME NEW s \in Places
          PROVE  Justes(s, q - 1)' = Justes(s, q - 1)
      <3>1. q - 1 \in Nat /\ 1 .. q - 1 \subseteq 1 .. Nb
        BY <1>1
      <3> QED BY <1>1, <3>1, JustesMemes
    <2>2. "A" \in Places /\ "B" \in Places
      BY DEF Places
    <2>3. CASE q \in 1 .. Nb
      BY <1>1, <2>1, <2>2, <2>3 DEF PhasesIInv, BrisJuste
    <2>4. CASE q = Nb + 1
      <3>1. Cardinality(Justes("A", Nb)) = score["A"] /\ Cardinality(Justes("B", Nb)) = score["B"]
        BY <2>2 DEF PhasesIInv, ScoreJuste
      <3>2. q - 1 = Nb
        BY <1>1, <2>4
      <3> QED BY <1>1, <2>1, <2>2, <2>4, <3>1, <3>2
    <2> QED BY <1>1, <2>3, <2>4
  <1>5. BrisJuste'
    BY <1>1, <1>4 DEF BrisJuste
  <1>6. VainqueurMerite'
    BY DEF CreateGameQuestion, VainqueurMerite
  <1> QED BY <1>1, <1>2, <1>3, <1>5, <1>6 DEF PhasesIInv

\* An answer moves no score: its question is not finished.
LEMMA RepondInvariant ==
    ASSUME PhasesIInv, NEW s \in Places, NEW q \in 1 .. Nb, NEW r \in {"JUSTE", "FAUSSE"},
           SubmitAnswer(s, q, r)
    PROVE  PhasesIInv'
  <1>1. /\ TypeOK' /\ Nb' = Nb /\ Nb \in Nat
        /\ \A k \in 1 .. Nb : /\ questions'[k].finie = questions[k].finie
                              /\ questions'[k].bris = questions[k].bris
                              /\ questions[k].finie => questions'[k] = questions[k]
    BY Repond, LigneType DEF PhasesIInv
  <1>2. ASSUME NEW n \in 0 .. Nb, NEW t \in Places
        PROVE  Justes(t, n)' = Justes(t, n)
    BY <1>1, JustesMemes
  <1>3. PhaseJuste'
    BY <1>1 DEF SubmitAnswer, PhaseJuste, PhasesIInv
  <1>4. ScoreJuste'
    <2>1. PICK n \in 0 .. Nb : n = Nb
      BY <1>1
    <2>2. \A t \in Places : score[t] = Cardinality(Justes(t, n))
      BY <2>1 DEF PhasesIInv, ScoreJuste
    <2>3. \A t \in Places : score'[t] = Cardinality(Justes(t, n))'
      BY <1>2, <2>2 DEF SubmitAnswer
    <2>4. Nb' = n
      BY <1>1, <2>1
    <2> QED BY <2>3, <2>4 DEF ScoreJuste
  <1>5. BrisJuste'
    <2> SUFFICES ASSUME NEW k \in 1 .. Nb
                 PROVE  /\ questions'[k].bris <=> k > Cible
                        /\ k > Cible => Cardinality(Justes("A", k - 1))'
                                          = Cardinality(Justes("B", k - 1))'
      BY <1>1 DEF BrisJuste
    <2>1. k - 1 \in 0 .. Nb /\ "A" \in Places /\ "B" \in Places
      BY <1>1 DEF Places
    <2> QED BY <1>1, <1>2, <2>1 DEF PhasesIInv, BrisJuste
  <1>6. VainqueurMerite'
    BY DEF SubmitAnswer, PeutRepondre, VainqueurMerite
  <1> QED BY <1>1, <1>3, <1>4, <1>5, <1>6 DEF PhasesIInv

\* The end of a question: one point for each right answer.
LEMMA FinitInvariant ==
    ASSUME PhasesIInv, FinishQuestion
    PROVE  PhasesIInv'
  <1>1. /\ TypeOK' /\ Nb' = Nb /\ Nb \in Nat /\ Nb > 0
        /\ \A k \in 1 .. Nb : /\ questions'[k].finie = IF k = Nb THEN TRUE ELSE questions[k].finie
                              /\ questions'[k].bris = questions[k].bris
        /\ \A k \in 1 .. Nb : k # Nb => questions'[k] = questions[k]
        /\ \A s \in Places : Cardinality(Justes(s, Nb))' = Cardinality(Justes(s, Nb)) + Points(s)
    BY Finit, LigneType DEF PhasesIInv
  <1>2. ASSUME NEW k \in 1 .. Nb
        PROVE  questions'[k].finie
    <2>1. CASE k = Nb
      BY <1>1, <2>1
    <2>2. CASE k # Nb
      <3>1. k \in 1 .. Nb - 1
        BY <1>1, <2>2
      <3>2. questions[k].finie
        BY <3>1 DEF PhasesIInv, PhaseJuste
      <3> QED BY <1>1, <2>2, <3>2
    <2> QED BY <2>1, <2>2
  <1>3. PhaseJuste'
    BY <1>1, <1>2 DEF FinishQuestion, PhaseJuste
  <1>4. ScoreJuste'
    BY <1>1 DEF FinishQuestion, ScoreJuste, PhasesIInv
  <1>5. BrisJuste'
    <2> SUFFICES ASSUME NEW k \in 1 .. Nb
                 PROVE  /\ questions'[k].bris <=> k > Cible
                        /\ k > Cible => Cardinality(Justes("A", k - 1))'
                                          = Cardinality(Justes("B", k - 1))'
      BY <1>1 DEF BrisJuste
    <2>1. \A j \in 1 .. k - 1 : questions'[j] = questions[j]
      BY <1>1
    <2>2. ASSUME NEW t \in Places
          PROVE  Justes(t, k - 1)' = Justes(t, k - 1)
      BY <2>1, JustesMemes
    <2>3. "A" \in Places /\ "B" \in Places
      BY DEF Places
    <2> QED BY <1>1, <2>2, <2>3 DEF PhasesIInv, BrisJuste
  <1>6. VainqueurMerite'
    BY DEF FinishQuestion, VainqueurMerite
  <1> QED BY <1>1, <1>3, <1>4, <1>5, <1>6 DEF PhasesIInv

-----------------------------------------------------------------------------
\* _advance_after_result counts the finished questions that are no tie-breaks;
\* there are turns left exactly when fewer questions were asked than the target.
LEMMA ToursRestants ==
    ASSUME PhasesIInv, statut = "QUESTION_FINISHED"
    PROVE  ResteDesTours <=> Nb < Cible
  <1>1. /\ Nb \in Nat /\ Nb > 0 /\ Nb \in 1 .. Nb /\ Cible \in Nat
        /\ \A q \in 1 .. Nb : questions[q].finie
        /\ \A q \in 1 .. Nb : questions[q].bris <=> q > Cible
    BY LigneType, CibleHypothese DEF PhasesIInv, PhaseJuste, BrisJuste
  <1>2. derniere.bris <=> Nb > Cible
    BY <1>1 DEF derniere, Nb
  <1>3. CASE Nb > Cible
    BY <1>1, <1>2, <1>3 DEF ResteDesTours
  <1>4. CASE Nb <= Cible
    <2>1. Finies(Nb) = 1 .. Nb
      BY <1>1 DEF Finies
    <2>2. {q \in Finies(Nb) : ~questions[q].bris} = 1 .. Nb
      BY <1>1, <1>4, <2>1
    <2>3. NormalesFinies = Nb
      <3>1. NormalesFinies = Cardinality(1 .. Nb)
        BY <2>2, Zenon DEF NormalesFinies, Nb
      <3> QED BY <1>1, <3>1, FS_Interval
    <2>4. ~derniere.bris
      BY <1>2, <1>4, <1>1
    <2> QED BY <2>3, <2>4, Zenon DEF ResteDesTours
  <1> QED BY <1>1, <1>3, <1>4

\* _finish_game: the winner is who is ahead.
LEMMA FinInvariante ==
    ASSUME PhasesIInv, statut = "QUESTION_FINISHED", Nb >= Cible,
           NEW w \in Places \cup {"AUCUN"}, FinishGame(w),
           \A s \in Places : w = s <=> score[s] > score[Autre(s)],
           w = "AUCUN" => stock = 0
    PROVE  PhasesIInv'
  <1>1. UNCHANGED <<questions, score, stock, siege>> /\ statut' = "FINISHED" /\ vainqueur' = w
        /\ reste' = 0
    BY DEF FinishGame
  <1>2. TypeOK'
    BY <1>1 DEF PhasesIInv, TypeOK, Statuts
  <1>3. PhaseJuste'
    BY <1>1 DEF PhasesIInv, PhaseJuste, Nb
  <1>4. BrisJuste' /\ ScoreJuste'
    BY <1>1, LignesMemes DEF PhasesIInv
  <1>5. \A s \in Places : Autre(s) \in Places
    BY DEF Autre, Places
  <1>6. \A s \in Places : score[s] = Cardinality(Justes(s, Nb))
    BY DEF PhasesIInv, ScoreJuste
  <1>7. \A s \in Places : w = s <=> Cardinality(Justes(s, Nb)) > Cardinality(Justes(Autre(s), Nb))
    BY <1>5, <1>6
  <1>8. VainqueurMerite'
    BY <1>1, <1>7 DEF VainqueurMerite, Nb, Justes, Finies
  <1> QED BY <1>2, <1>3, <1>4, <1>8 DEF PhasesIInv

\* The end of the display of a result: the next turn, the end of the game, or
\* a tie-break question.
LEMMA AvanceInvariante ==
    ASSUME PhasesIInv, AdvanceAfterResult
    PROVE  PhasesIInv'
  <1>1. /\ statut = "QUESTION_FINISHED"
        /\ \A q \in 1 .. Nb : questions[q].finie
        /\ Nb \in Nat /\ Cible \in Nat
        /\ score["A"] \in Nat /\ score["B"] \in Nat
    BY LigneType, CibleHypothese
    DEF AdvanceAfterResult, PhasesIInv, PhaseJuste, TypeOK, Places
  <1>2. CASE ResteDesTours
    <2>1. NextTurn /\ Nb < Cible
      BY <1>1, <1>2, ToursRestants DEF AdvanceAfterResult
    <2>2. TypeOK'
      BY <2>1 DEF NextTurn, PhasesIInv, TypeOK, Statuts, Autre, Places
    <2>3. PhaseJuste'
      BY <1>1, <2>1 DEF NextTurn, PhasesIInv, PhaseJuste, Nb
    <2>4. BrisJuste' /\ ScoreJuste'
      BY <2>1, LignesMemes DEF NextTurn, PhasesIInv
    <2>5. VainqueurMerite'
      BY <2>1 DEF NextTurn, VainqueurMerite
    <2> QED BY <2>2, <2>3, <2>4, <2>5 DEF PhasesIInv
  <1>3. CASE ~ResteDesTours
    <2>1. Nb >= Cible
      BY <1>1, <1>3, ToursRestants
    <2>2. CASE score["A"] > score["B"] /\ FinishGame("A")
      <3>1. \A s \in Places : "A" = s <=> score[s] > score[Autre(s)]
        BY <1>1, <2>2 DEF Places, Autre
      <3> QED BY <1>1, <2>1, <2>2, <3>1, FinInvariante DEF Places
    <2>3. CASE score["A"] < score["B"] /\ FinishGame("B")
      <3>1. \A s \in Places : "B" = s <=> score[s] > score[Autre(s)]
        BY <1>1, <2>3 DEF Places, Autre
      <3> QED BY <1>1, <2>1, <2>3, <3>1, FinInvariante DEF Places
    <2>4. CASE score["A"] = score["B"] /\ stock = 0 /\ FinishGame("AUCUN")
      <3>1. \A s \in Places : "AUCUN" = s <=> score[s] > score[Autre(s)]
        BY <1>1, <2>4 DEF Places, Autre
      <3> QED BY <1>1, <2>1, <2>4, <3>1, FinInvariante
    <2>5. CASE score["A"] = score["B"] /\ CreateGameQuestion(TRUE) /\ UNCHANGED siege
      <3>1. TRUE \in BOOLEAN /\ Nb + 1 > Cible
        BY <1>1, <2>1
      <3> QED BY <1>1, <2>5, <3>1, PoseInvariante, Zenon
    <2>6. \/ score["A"] > score["B"] /\ FinishGame("A")
          \/ score["A"] < score["B"] /\ FinishGame("B")
          \/ score["A"] = score["B"] /\ Departager
      BY <1>3 DEF AdvanceAfterResult
    <2> QED BY <2>2, <2>3, <2>4, <2>5, <2>6, Zenon DEF Departager
  <1> QED BY <1>2, <1>3

\* The steps that touch neither a question nor a score.
LEMMA ResteInvariant ==
    ASSUME PhasesIInv, StartAnswering \/ AnnulerGame \/ Passer \/ UNCHANGED vars
    PROVE  PhasesIInv'
  <1>1. UNCHANGED <<questions, score, stock, siege, vainqueur>>
    BY DEF StartAnswering, AnnulerGame, Passer, vars
  <1>2. TypeOK'
    BY <1>1, DureeHypothese
    DEF StartAnswering, AnnulerGame, Passer, vars, PhasesIInv, TypeOK, Statuts, Chronometres
  <1>3. PhaseJuste'
    BY <1>1 DEF StartAnswering, AnnulerGame, Passer, vars, PhasesIInv, PhaseJuste, Nb
  <1>4. BrisJuste' /\ ScoreJuste'
    BY <1>1, LignesMemes DEF PhasesIInv
  <1>5. VainqueurMerite'
    BY <1>1 DEF StartAnswering, AnnulerGame, Passer, vars, PhasesIInv, VainqueurMerite,
                Chronometres, Justes, Finies
  <1> QED BY <1>2, <1>3, <1>4, <1>5 DEF PhasesIInv

-----------------------------------------------------------------------------
\* The invariant, step by step.
LEMMA PhasesInvariant == PhasesIInv /\ [Next]_vars => PhasesIInv'
  <1> SUFFICES ASSUME PhasesIInv, [Next]_vars PROVE PhasesIInv'
    OBVIOUS
  <1>1. CASE Choisir
    <2>1. PICK s \in Places : SelectTheme(s)
      BY <1>1 DEF Choisir
    <2>2. /\ \A q \in 1 .. Nb : questions[q].finie
          /\ ~ (Nb + 1 > Cible)
          /\ FALSE \in BOOLEAN
      BY <2>1, LigneType, CibleHypothese DEF SelectTheme, PhasesIInv, PhaseJuste
    <2>3. CreateGameQuestion(FALSE) /\ UNCHANGED siege
      BY <2>1 DEF SelectTheme
    <2> QED BY <2>2, <2>3, PoseInvariante, Zenon
  <1>2. CASE Repondre
    BY <1>2, RepondInvariant DEF Repondre, Nb
  <1>3. CASE FinishQuestion
    BY <1>3, FinitInvariant
  <1>4. CASE AdvanceAfterResult
    BY <1>4, AvanceInvariante
  <1>5. CASE StartAnswering \/ AnnulerGame \/ Passer \/ UNCHANGED vars
    BY <1>5, ResteInvariant
  <1> QED BY <1>1, <1>2, <1>3, <1>4, <1>5 DEF Next, Tick

\* A step keeps every answer that was given, and a finished row as it is.
LEMMA ReponsePas ==
    ASSUME PhasesIInv, [Next]_vars
    PROVE  \A q \in 1 .. Nb :
              IF questions[q].finie
              THEN questions'[q] = questions[q]
              ELSE \A s \in Places :
                     questions[q].reponses[s] # "AUCUNE" =>
                       questions'[q].reponses[s] = questions[q].reponses[s]
  <1>1. TypeOK /\ PhaseJuste
    BY DEF PhasesIInv
  <1>2. ASSUME NEW b \in BOOLEAN, CreateGameQuestion(b), siege' \in Places
        PROVE  \A q \in 1 .. Nb : questions'[q] = questions[q]
    BY <1>1, <1>2, Pose
  <1>3. CASE Choisir
    <2>1. FALSE \in BOOLEAN /\ siege' \in Places /\ CreateGameQuestion(FALSE)
      BY <1>1, <1>3 DEF Choisir, SelectTheme, TypeOK
    <2> QED BY <1>2, <2>1, Zenon
  <1>4. CASE Repondre
    <2>1. PICK s \in Places, q \in 1 .. Nb, r \in {"JUSTE", "FAUSSE"} : SubmitAnswer(s, q, r)
      BY <1>4 DEF Repondre, Nb
    <2> QED BY <1>1, <2>1, Repond
  <1>5. CASE FinishQuestion
    <2>1. ~questions[Nb].finie
      BY <1>5 DEF FinishQuestion, derniere, Nb
    <2> QED BY <1>1, <1>5, <2>1, Finit
  <1>6. CASE AdvanceAfterResult
    <2>1. \/ UNCHANGED questions
          \/ CreateGameQuestion(TRUE) /\ UNCHANGED siege
      BY <1>6 DEF AdvanceAfterResult, NextTurn, FinishGame, Departager
    <2>2. CASE CreateGameQuestion(TRUE) /\ UNCHANGED siege
      <3>1. TRUE \in BOOLEAN /\ siege' \in Places
        BY <1>1, <2>2 DEF TypeOK
      <3> QED BY <1>2, <2>2, <3>1, Zenon
    <2> QED BY <2>1, <2>2
  <1>7. CASE StartAnswering \/ AnnulerGame \/ Passer \/ UNCHANGED vars
    BY <1>7 DEF StartAnswering, AnnulerGame, Passer, vars
  <1> QED BY <1>3, <1>4, <1>5, <1>6, <1>7 DEF Next, Tick

\* The inductive invariant of a game.
THEOREM PhasesTenues == Spec => []PhasesIInv
  <1> QED BY PhasesInitial, PhasesInvariant, PTL DEF Spec

\* The rows keep their types.
THEOREM PhasesTypes == Spec => []TypeOK
  <1>1. PhasesIInv => TypeOK
    BY DEF PhasesIInv
  <1> QED BY <1>1, PhasesTenues, PTL

\* _finish_question: a right answer counts exactly once, however many ticks
\* come, and only the current question can be unfinished.
THEOREM ScoreToujoursExact == Spec => []ScoreExact
  <1>1. PhasesIInv => ScoreExact
    BY DEF PhasesIInv, ScoreJuste, PhaseJuste, ScoreExact, Nb
  <1> QED BY <1>1, PhasesTenues, PTL

\* _start_tie_break_question: a tie-break question is asked past the target and
\* on a tie only, and every question past the target is one.
THEOREM BrisToujoursAEgalite == Spec => []BrisSeulementAEgalite
  <1>1. PhasesIInv => BrisSeulementAEgalite
    BY DEF PhasesIInv, BrisJuste, BrisSeulementAEgalite, Nb
  <1> QED BY <1>1, PhasesTenues, PTL

\* _finish_game: the winner is the seat that got more of the questions right,
\* after at least the target of them, and there is none only when the questions
\* ran out.
THEOREM VainqueurToujoursMerite == Spec => []VainqueurMerite
  <1>1. PhasesIInv => VainqueurMerite
    BY DEF PhasesIInv
  <1> QED BY <1>1, PhasesTenues, PTL

\* submit_answer: no answer is replaced, and none reaches a finished question.
THEOREM ReponsesDefinitives == Spec => ReponseDefinitive
  <1>1. PhasesIInv /\ [Next]_vars =>
          [\A q \in 1 .. Len(questions) :
             IF questions[q].finie
             THEN questions'[q] = questions[q]
             ELSE \A s \in Places :
                    questions[q].reponses[s] # "AUCUNE" =>
                      questions'[q].reponses[s] = questions[q].reponses[s]]_vars
    BY ReponsePas DEF Nb
  <1> QED BY <1>1, PhasesTenues, PTL DEF Spec, ReponseDefinitive

-----------------------------------------------------------------------------
\* The timers add ticks and nothing else: whatever the broker, the consumers
\* and the clients do, a step with them is a step of the game or no step of it.
THEOREM MinuteursSansEffet == MSpec => Spec
  <1>1. MInit => Init
    BY DEF MInit
  <1>2. [MNext]_mvars => [Next]_vars
    <2> SUFFICES ASSUME [MNext]_mvars PROVE [Next]_vars
      OBVIOUS
    <2>1. CASE MChoisir
      BY <2>1 DEF MChoisir, Next
    <2>2. CASE Connecter
      BY <2>2 DEF Connecter
    <2>3. CASE Sonner
      BY <2>3 DEF Sonner, Next
    <2>4. CASE Rattraper
      BY <2>4 DEF Rattraper, Next
    <2>5. CASE MPasser
      BY <2>5 DEF MPasser, Next
    <2>6. CASE (Repondre \/ AnnulerGame) /\ UNCHANGED minuteurs
      BY <2>6 DEF Next
    <2>7. CASE UNCHANGED mvars
      BY <2>7 DEF mvars
    <2> QED BY <2>1, <2>2, <2>3, <2>4, <2>5, <2>6, <2>7 DEF MNext
  <1> QED BY <1>1, <1>2, PTL DEF MSpec, Spec

=============================================================================
