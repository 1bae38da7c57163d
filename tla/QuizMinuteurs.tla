---------------------------- MODULE QuizMinuteurs ----------------------------
(***************************************************************************)
(* Who sends the ticks of QuizPhases: the Celery task of _schedule_tick,   *)
(* the local timers of QuizGlobalConsumer (armed when a client connects    *)
(* and when it sends SELECT_THEME, and never again), and the clients that  *)
(* call the mutation avancerPhaseQuizGlobal.                               *)
(*                                                                         *)
(* One unit of time is one second.  The broker and the worker always       *)
(* answer here; in the code a failure of either is silent.                 *)
(***************************************************************************)
EXTENDS QuizPhases, FiniteSetsExt

CONSTANT MinuteursMax      \* bound: the timers a connection may find running

ASSUME MinuteursMaxHypothese == MinuteursMax \in Nat

VARIABLE minuteurs         \* how many timers are due in so many seconds

Delais == 0 .. DureeQuestion + DureeResultat

Armer(f, d) == [f EXCEPT ![d] = @ + 1]
Retirer(f) == [f EXCEPT ![0] = @ - 1]
EnCours == MapThenSumSet(LAMBDA d : minuteurs[d], Delais)

(* _schedule_tick: int() of a delay a little shorter than the phase, and at *)
(* least one second                                                         *)
DelaiCelery(duree) == IF duree > 1 THEN duree - 1 ELSE 1

(* Entering a phase with a deadline schedules a task for its end *)
Programmer(f) ==
    minuteurs' = IF statut' \in Chronometres /\ statut' # statut
                 THEN Armer(f, DelaiCelery(reste'))
                 ELSE f

-----------------------------------------------------------------------------
MInit == Init /\ minuteurs = [d \in Delais |-> 0]

(* select_theme, by the mutation or by the WebSocket, whose consumer then *)
(* arms a timer of its own for the whole of READING_DURATION              *)
MChoisir ==
    /\ Choisir
    /\ \/ Programmer(minuteurs)
       \/ Programmer(Armer(minuteurs, DureeQuestion))

(* connect: a timer for the whole phase, however much of it is left *)
Connecter ==
    /\ statut \in Chronometres
    /\ EnCours < MinuteursMax
    /\ minuteurs' = Armer(minuteurs, IF statut = "QUESTION_FINISHED"
                                     THEN DureeResultat ELSE DureeQuestion)
    /\ UNCHANGED vars

(* A timer runs out and sends its tick, which may come too early *)
Sonner ==
    /\ minuteurs[0] > 0
    /\ \/ Tick /\ Programmer(Retirer(minuteurs))
       \/ /\ reste > 0 \/ statut \notin Chronometres
          /\ minuteurs' = Retirer(minuteurs)
          /\ UNCHANGED vars

(* avancer_phase_quiz_global: a client may call it, and need not *)
Rattraper == Tick /\ Programmer(minuteurs)

(* A second passes for the phase and for the timers; those that are due may *)
(* wait for a worker                                                        *)
MPasser ==
    /\ IF statut \in Chronometres /\ reste > -RetardMax
       THEN Passer
       ELSE minuteurs[0] < EnCours /\ UNCHANGED vars
    /\ minuteurs' = [d \in Delais |->
                       (IF d = 0 THEN minuteurs[0] ELSE 0)
                         + (IF d + 1 \in Delais THEN minuteurs[d + 1] ELSE 0)]

MNext ==
    \/ MChoisir
    \/ Connecter
    \/ Sonner
    \/ Rattraper
    \/ MPasser
    \/ (Repondre \/ AnnulerGame) /\ UNCHANGED minuteurs

mvars == <<vars, minuteurs>>

(* Time passes and due timers are served.  Nothing makes a client connect, *)
(* or call avancerPhase.                                                   *)
MFairness == WF_mvars(MPasser) /\ WF_mvars(Sonner)

MSpec == MInit /\ [][MNext]_mvars /\ MFairness

-----------------------------------------------------------------------------
(* Some timer that runs is not due before the deadline of the phase *)
MinuteurPlein ==
    statut \in Chronometres /\ \E d \in Delais : d >= reste /\ minuteurs[d] > 0

\* The timer of a connection is armed for the whole phase, and one such timer is
\* enough for the server to end the phase, whatever else rings too early, rings
\* twice or waits for a worker; the last question in a tie with no question left
\* is no exception.
MinuteurPleinSuffit ==
    \A s \in Chronometres : (MinuteurPlein /\ statut = s) ~> statut # s

\* A question that was asked comes to its end by the server alone ("le serveur est
\* la seule source de verite pour le temps -- ne jamais faire confiance a un timer
\* cote client"): its reading, its answering and the display of its result all
\* finish, and the game waits for a theme, asks another question or is over.
QuestionSeTermine ==
    \A n \in 1 .. Stock :
        (statut \in Chronometres /\ Len(questions) = n)
          ~> (statut \notin Chronometres \/ Len(questions) > n)
=============================================================================
