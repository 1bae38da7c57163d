----------------------------- MODULE QuizPhases -----------------------------
(***************************************************************************)
(* How a started game of the global quiz is played: select_theme,          *)
(* submit_answer and tick of apps/quiz_global/services.py.                 *)
(*                                                                         *)
(* One game, from THEME_SELECTION on.  Each handler locks the game before  *)
(* it reads the clock, so a handler is one action.  A tick may come at any *)
(* time and any number of times: Celery, the timers of the consumers and   *)
(* the mutation avancerPhase all send them.  Whether enough of them come   *)
(* is the business of QuizMinuteurs.                                       *)
(***************************************************************************)
EXTENDS Naturals, Integers, Sequences, FiniteSets

CONSTANTS Cible,           \* target_questions
          Stock,           \* the questions that can be asked, over all themes
          DureeQuestion,   \* READING_DURATION and ANSWERING_DURATION
          DureeResultat,   \* RESULT_DURATION
          RetardMax        \* bound: how late a tick may be

ASSUME CibleHypothese == Cible \in Nat \ {0}
ASSUME StockHypothese == Stock \in Nat
ASSUME DureeHypothese == {DureeQuestion, DureeResultat, RetardMax} \subseteq Nat

VARIABLES statut,      \* QuizGlobalGame.status
          siege,       \* active_seat: who chooses the next theme
          questions,   \* the QuizGlobalGameQuestion rows, by turn_number
          score,       \* QuizGlobalPlayer.score of each seat
          stock,       \* the questions that were not asked yet
          reste,       \* phase_deadline - now, 0 when there is no deadline
          vainqueur    \* the seat of QuizGlobalGame.winner

vars == <<statut, siege, questions, score, stock, reste, vainqueur>>

Places == {"A", "B"}
Autre(s) == IF s = "A" THEN "B" ELSE "A"
Chronometres == {"QUESTION_READING", "ANSWERING", "QUESTION_FINISHED"}
Statuts == Chronometres \cup {"THEME_SELECTION", "FINISHED", "ABANDONED"}
Reponses == {"AUCUNE", "JUSTE", "FAUSSE"}

-----------------------------------------------------------------------------
(* Readings of the rows *)

derniere == questions[Len(questions)]    \* _current_question

\* The finished questions among the first n, and those that seat s got right
Finies(n) == {q \in 1 .. n : questions[q].finie}
Justes(s, n) == {q \in Finies(n) : questions[q].reponses[s] = "JUSTE"}
NormalesFinies == Cardinality({q \in Finies(Len(questions)) : ~questions[q].bris})

-----------------------------------------------------------------------------
Init ==
    /\ statut = "THEME_SELECTION"
    /\ siege = "A"
    /\ questions = <<>>
    /\ score = [s \in Places |-> 0]
    /\ stock = Stock
    /\ reste = 0
    /\ vainqueur = "AUCUN"

\* Faulty: a question is found even when none is left
CreateGameQuestionSansStock(bris) ==
    /\ statut' = "QUESTION_READING"
    /\ questions' = Append(questions,
                           [bris     |-> bris,
                            finie    |-> FALSE,
                            reponses |-> [s \in Places |-> "AUCUNE"]])
    /\ stock' = stock - 1
    /\ reste' = DureeQuestion
    /\ UNCHANGED <<score, vainqueur>>

(* _create_game_question; it raises when no question is left *)
CreateGameQuestion(bris) ==
    /\ stock > 0
    /\ statut' = "QUESTION_READING"
    /\ questions' = Append(questions,
                           [bris     |-> bris,
                            finie    |-> FALSE,
                            reponses |-> [s \in Places |-> "AUCUNE"]])
    /\ stock' = stock - 1
    /\ reste' = DureeQuestion
    /\ UNCHANGED <<score, vainqueur>>

SelectTheme(s) ==
    /\ statut = "THEME_SELECTION"
    /\ s = siege
    /\ CreateGameQuestion(FALSE)
    /\ UNCHANGED siege

\* Faulty: the answer to a question that is over is still taken
PeutRepondreTard(s, q) ==
    statut = "ANSWERING" /\ reste >= 0 /\ questions[q].reponses[s] = "AUCUNE"

\* Faulty: the second answer replaces the first
PeutRepondreEncore(s, q) ==
    statut = "ANSWERING" /\ reste >= 0 /\ ~questions[q].finie

PeutRepondre(s, q) ==
    /\ statut = "ANSWERING"
    /\ reste >= 0
    /\ ~questions[q].finie
    /\ questions[q].reponses[s] = "AUCUNE"

(* submit_answer: seat s answers question q, the first time, not too late *)
SubmitAnswer(s, q, r) ==
    /\ PeutRepondre(s, q)
    /\ questions' = [questions EXCEPT ![q].reponses[s] = r]
    /\ UNCHANGED <<statut, siege, score, stock, reste, vainqueur>>

StartAnswering ==
    /\ statut = "QUESTION_READING"
    /\ statut' = "ANSWERING"
    /\ reste' = DureeQuestion
    /\ UNCHANGED <<siege, questions, score, stock, vainqueur>>

\* Faulty: a tie-break question brings no point
PointsHorsBris(s) == IF derniere.reponses[s] = "JUSTE" /\ ~derniere.bris THEN 1 ELSE 0

Points(s) == IF derniere.reponses[s] = "JUSTE" THEN 1 ELSE 0

(* _finish_question: one point to each seat that was right *)
FinishQuestion ==
    /\ statut = "ANSWERING"
    /\ ~derniere.finie
    /\ questions' = [questions EXCEPT ![Len(questions)].finie = TRUE]
    /\ score' = [s \in Places |-> score[s] + Points(s)]
    /\ statut' = "QUESTION_FINISHED"
    /\ reste' = DureeResultat
    /\ UNCHANGED <<siege, stock, vainqueur>>

(* _finish_game; how it moves the stakes is in QuizGlobal *)
FinishGame(w) ==
    /\ statut' = "FINISHED"
    /\ vainqueur' = w
    /\ reste' = 0
    /\ UNCHANGED <<siege, questions, score, stock>>

NextTurn ==
    /\ statut' = "THEME_SELECTION"
    /\ siege' = Autre(siege)
    /\ reste' = 0
    /\ UNCHANGED <<questions, score, stock, vainqueur>>

\* Faulty: one question too many
ResteDesToursUnDeTrop == ~derniere.bris /\ NormalesFinies <= Cible

ResteDesTours == ~derniere.bris /\ NormalesFinies < Cible

\* Faulty: the tie stands when no question is left
DepartagerSansNul == CreateGameQuestion(TRUE) /\ UNCHANGED siege

(* _start_tie_break_question, or a draw when no question is left *)
Departager ==
    \/ CreateGameQuestion(TRUE) /\ UNCHANGED siege
    \/ stock = 0 /\ FinishGame("AUCUN")

(* _advance_after_result: the next turn, or the end, or a tie-break question.*)
(* The game is in TIE_BREAK_THEME only inside this transaction.              *)
AdvanceAfterResult ==
    /\ statut = "QUESTION_FINISHED"
    /\ IF ResteDesTours
       THEN NextTurn
       ELSE \/ score["A"] > score["B"] /\ FinishGame("A")
            \/ score["A"] < score["B"] /\ FinishGame("B")
            \/ score["A"] = score["B"] /\ Departager

(* tick: nothing before the deadline *)
Tick ==
    /\ reste <= 0
    /\ StartAnswering \/ FinishQuestion \/ AdvanceAfterResult

(* annuler_game of a started game *)
AnnulerGame ==
    /\ statut \notin {"FINISHED", "ABANDONED"}
    /\ statut' = "ABANDONED"
    /\ reste' = 0
    /\ UNCHANGED <<siege, questions, score, stock, vainqueur>>

(* Time passes *)
Passer ==
    /\ statut \in Chronometres
    /\ reste > -RetardMax
    /\ reste' = reste - 1
    /\ UNCHANGED <<statut, siege, questions, score, stock, vainqueur>>

Choisir == \E s \in Places : SelectTheme(s)
Repondre == \E s \in Places, q \in 1 .. Len(questions), r \in {"JUSTE", "FAUSSE"} :
               SubmitAnswer(s, q, r)

Next == Choisir \/ Repondre \/ Tick \/ AnnulerGame \/ Passer

Spec == Init /\ [][Next]_vars

-----------------------------------------------------------------------------
(* Properties *)

\* The types of the rows.
TypeOK ==
    /\ statut \in Statuts
    /\ siege \in Places
    /\ questions \in Seq([bris: BOOLEAN, finie: BOOLEAN,
                          reponses: [Places -> Reponses]])
    /\ score \in [Places -> Nat]
    /\ stock \in Nat
    /\ reste \in Int
    /\ vainqueur \in Places \cup {"AUCUN"}

\* However many ticks come, and whatever they race with, a right answer counts
\* exactly once: the score is the number of finished questions the seat got
\* right, and no unfinished question lies behind the current one.
ScoreExact ==
    /\ \A s \in Places : score[s] = Cardinality(Justes(s, Len(questions)))
    /\ \A q \in 1 .. Len(questions) - 1 : questions[q].finie

\* A question that is finished is closed: no answer reaches it any more, and
\* before that an answer once given is never replaced.
ReponseDefinitive ==
    [][\A q \in 1 .. Len(questions) :
          IF questions[q].finie
          THEN questions'[q] = questions[q]
          ELSE \A s \in Places :
                 questions[q].reponses[s] # "AUCUNE" =>
                   questions'[q].reponses[s] = questions[q].reponses[s]]_vars

\* A tie-break question is only asked when all the questions of the game were,
\* and the seats were level on what had been asked before it.
BrisSeulementAEgalite ==
    \A q \in 1 .. Len(questions) :
        questions[q].bris <=>
            /\ q > Cible
            /\ Cardinality(Justes("A", q - 1)) = Cardinality(Justes("B", q - 1))

\* The game ends after its last question, with the seat that got more of the
\* questions right, and without a winner only when no question was left.
VainqueurMerite ==
    statut = "FINISHED" =>
        /\ Len(questions) >= Cible
        /\ \A s \in Places :
              vainqueur = s <=> Cardinality(Justes(s, Len(questions)))
                                  > Cardinality(Justes(Autre(s), Len(questions)))
        /\ vainqueur = "AUCUN" => stock = 0
=============================================================================
