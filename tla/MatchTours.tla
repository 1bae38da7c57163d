----------------------------- MODULE MatchTours -----------------------------
(***************************************************************************)
(* One match between its host and its guest, from the moment the guest has *)
(* joined: the turns, the answers, the threads that end a turn nobody      *)
(* answers, and the closing of the match (apps/matches/services.py).       *)
(*                                                                         *)
(* Nothing is locked while a match is played.  soumettre_reponse and the   *)
(* thread _expire_check each read the turn and the match first, and write  *)
(* later, in one transaction, what they computed from that reading: two    *)
(* steps here.  What protects the rows is the unique constraints: one      *)
(* answer per turn and player, one turn per match and number; a            *)
(* transaction that violates one of them rolls back.  Only _cloturer locks *)
(* the row of the match and reads it again.                                *)
(***************************************************************************)
EXTENDS Naturals, FiniteSets

CONSTANTS ScoreCible,      \* Match.score_cible
          NbQuestions,     \* the validated questions of the theme of the match
          TypesJeu,        \* the values of type_jeu to look at
          RedemarragesMax, \* how often the server process may restart
          Rien, Arme       \* "no handler", "a thread that sleeps"

ASSUME ScoreCibleHypothese == ScoreCible \in Nat \ {0}
ASSUME NbQuestionsHypothese == NbQuestions \in Nat \ {0}
ASSUME TypesJeuHypothese == TypesJeu \subseteq {"classique", "intrus"}
ASSUME RedemarragesHypothese == RedemarragesMax \in Nat

VARIABLES
    typeJeu,     \* Match.type_jeu
    statut,      \* Match.statut
    vainqueur,   \* Match.vainqueur
    score,       \* Match.score_hote and Match.score_invite
    tourActuel,  \* Match.tour_actuel
    tours,       \* Tour.statut of the turn with each number
    reponses,    \* the ReponseTour row of each turn and player
    dernier,     \* who wrote the last answer of each turn
    requetes,    \* what the call soumettre_reponse of a player for a turn has read
    minuteurs,   \* the thread _expire_check of each turn
    redemarrages \* how many restarts there were

match == <<typeJeu, statut, vainqueur, score, tourActuel>>
lignes == <<tours, reponses, dernier>>
vars == <<match, lignes, requetes, minuteurs, redemarrages>>

Joueurs == {"hote", "invite"}
Personne == "personne"
Adversaire(u) == CHOOSE v \in Joueurs : v # u
Numeros == 1..NbQuestions

Statuts == {"en_cours", "termine", "annule"}  \* en_attente: before this module
StatutsTour == {"absent", "en_cours", "termine"}
EtatsReponse == {"aucune", "juste", "fausse"}

(* The point that reaches the target closes the match and is not saved: the  *)
(* scores of the database stay below the target.                             *)
Scores == [Joueurs -> 0..(ScoreCible - 1)]

(* What a handler remembers of the match while it works *)
Lectures == [tour : Numeros, score : Scores]
ASSUME MarquesHypothese ==
    Rien # Arme /\ Rien \notin Lectures /\ Arme \notin Lectures

Lecture == [tour |-> tourActuel, score |-> score]

-----------------------------------------------------------------------------
(* rejoindre_partie has opened the first turn *)
Init ==
    /\ typeJeu \in TypesJeu
    /\ statut = "en_cours"
    /\ vainqueur = Personne
    /\ score = [u \in Joueurs |-> 0]
    /\ tourActuel = 1
    /\ tours = [t \in Numeros |-> IF t = 1 THEN "en_cours" ELSE "absent"]
    /\ reponses = [t \in Numeros |-> [u \in Joueurs |-> "aucune"]]
    /\ dernier = [t \in Numeros |-> Personne]
    /\ requetes = [t \in Numeros |-> [u \in Joueurs |-> Rien]]
    /\ minuteurs = [t \in Numeros |-> IF t = 1 THEN Arme ELSE Rien]
    /\ redemarrages = 0

-----------------------------------------------------------------------------
(* _ouvrir_tour, for a handler that has read l: it needs a question that was *)
(* not used, and that nobody has opened the turn after the one it knows.     *)

\* Faulty: (match, numero) is not unique
PeutOuvrirSansUnicite(l) == l.tour + 1 \in Numeros

PeutOuvrir(l) ==
    /\ tourActuel < NbQuestions
    /\ tours[l.tour + 1] = "absent"

\* Faulty: the score of the guest is not looked at
FinHote(s) == s["hote"] >= ScoreCible

Fin(s) == \E u \in Joueurs : s[u] >= ScoreCible

(* The turn t is over and the turn after l.tour begins, with its thread *)
Enchainer(t, l, s) ==
    /\ PeutOuvrir(l)
    /\ score' = s
    /\ tourActuel' = l.tour + 1
    /\ tours' = [tours EXCEPT ![t] = "termine", ![l.tour + 1] = "en_cours"]
    /\ UNCHANGED <<typeJeu, statut, vainqueur>>

(* _cloturer: the winner by the scores in the database, or nobody.  The match *)
(* is closed only once, and the point that closes it is not in the database.  *)

\* Faulty: a tie is won by the guest
VainqueurDepartage(s) == IF s["hote"] > s["invite"] THEN "hote" ELSE "invite"

VainqueurAuScore(s) ==
    CASE s["hote"] > s["invite"] -> "hote"
      [] s["hote"] < s["invite"] -> "invite"
      [] OTHER                   -> Personne

(* In an "intrus" match the loser is whoever wrote the last answer of the  *)
(* last turn; the host wins when that turn has no answer.                  *)
VainqueurIntrus(d) == IF d = "hote" THEN "invite" ELSE "hote"

\* Faulty: the statut is not looked at again under the lock
CloturerToujours(instantanee, d) ==
    LET w == IF instantanee THEN VainqueurIntrus(d) ELSE VainqueurAuScore(score)
    IN  /\ vainqueur' = w
        /\ statut' = IF w = Personne THEN "annule" ELSE "termine"

Cloturer(instantanee, d) ==
    LET w == IF instantanee THEN VainqueurIntrus(d) ELSE VainqueurAuScore(score)
    IN  IF statut = "en_cours"
        THEN /\ vainqueur' = w
             /\ statut' = IF w = Personne THEN "annule" ELSE "termine"
        ELSE UNCHANGED <<vainqueur, statut>>

-----------------------------------------------------------------------------
(* soumettre_reponse *)

(* The checks before the transaction.  The status of the turn is not one of *)
(* them: a player may answer a turn that is over.                           *)

PeutLire(u, t) ==
    /\ statut = "en_cours"
    /\ tours[t] # "absent"
    /\ reponses[t][u] = "aucune"
    /\ requetes[t][u] = Rien

LireReponse(u, t) ==
    /\ PeutLire(u, t)
    /\ requetes' = [requetes EXCEPT ![t][u] = Lecture]
    /\ UNCHANGED <<match, lignes, minuteurs, redemarrages>>

(* The scores the handler of u computes from what it has read *)

ScoreApres(l, u, r) == IF r = "juste" THEN [l.score EXCEPT ![u] = @ + 1] ELSE l.score

Instantanee(r) == typeJeu = "intrus" /\ r = "fausse"

EcrireReponse(u, t, r) ==
    /\ reponses[t][u] = "aucune"
    /\ reponses' = [reponses EXCEPT ![t][u] = r]
    /\ dernier' = [dernier EXCEPT ![t] = u]
    /\ requetes' = [requetes EXCEPT ![t][u] = Rien]
    /\ UNCHANGED redemarrages

(* The match goes on: the scores are saved and the next turn is opened *)
RepondreEtContinuer(u, t, r) ==
    LET l == requetes[t][u]
        s == ScoreApres(l, u, r)
    IN  /\ l # Rien
        /\ ~Instantanee(r)
        /\ ~Fin(s)
        /\ EcrireReponse(u, t, r)
        /\ Enchainer(t, l, s)
        /\ minuteurs' = [minuteurs EXCEPT ![l.tour + 1] = Arme]

(* The match is over: neither the scores nor a new turn are written *)
RepondreEtClore(u, t, r) ==
    LET l == requetes[t][u]
    IN  /\ l # Rien
        /\ Instantanee(r) \/ Fin(ScoreApres(l, u, r))
        /\ EcrireReponse(u, t, r)
        /\ tours' = [tours EXCEPT ![t] = "termine"]
        /\ Cloturer(Instantanee(r), dernier'[tourActuel])
        /\ UNCHANGED <<typeJeu, score, tourActuel, minuteurs>>

(* The transaction rolls back: a turn with that number was opened meanwhile, *)
(* or no question is left.  The answer is not kept.                          *)
RepondreEchoue(u, t, r) ==
    LET l == requetes[t][u]
    IN  /\ l # Rien
        /\ ~Instantanee(r)
        /\ ~Fin(ScoreApres(l, u, r))
        /\ ~PeutOuvrir(l)
        /\ requetes' = [requetes EXCEPT ![t][u] = Rien]
        /\ UNCHANGED <<match, lignes, minuteurs, redemarrages>>

-----------------------------------------------------------------------------
(* _expire_check, five seconds after the turn was opened *)

SansReponse(t) == tours[t] = "en_cours" /\ \A u \in Joueurs : reponses[t][u] = "aucune"

MinuteurLit(t) ==
    /\ minuteurs[t] = Arme
    /\ minuteurs' = [minuteurs EXCEPT ![t] = IF SansReponse(t) THEN Lecture ELSE Rien]
    /\ UNCHANGED <<match, lignes, requetes, redemarrages>>

\* Faulty: the next turn has no thread
MinuteurEnchaineSansSuite(t) ==
    LET l == minuteurs[t]
    IN  /\ l \notin {Rien, Arme}
        /\ Enchainer(t, l, l.score)
        /\ minuteurs' = [minuteurs EXCEPT ![t] = Rien]
        /\ UNCHANGED <<reponses, dernier, requetes, redemarrages>>

(* The status of the match is not looked at.  The thread never closes the *)
(* match, for the scores it has read are below the target.                *)
MinuteurEnchaine(t) ==
    LET l == minuteurs[t]
    IN  /\ l \notin {Rien, Arme}
        /\ Enchainer(t, l, l.score)
        /\ minuteurs' = [minuteurs EXCEPT ![t] = Rien, ![l.tour + 1] = Arme]
        /\ UNCHANGED <<reponses, dernier, requetes, redemarrages>>

(* The transaction of the thread rolls back, and the thread ends *)
MinuteurEchoue(t) ==
    LET l == minuteurs[t]
    IN  /\ l \notin {Rien, Arme}
        /\ ~PeutOuvrir(l)
        /\ minuteurs' = [minuteurs EXCEPT ![t] = Rien]
        /\ UNCHANGED <<match, lignes, requetes, redemarrages>>

(* The server process restarts: its daemon threads and the calls it was *)
(* serving are gone                                                     *)
Redemarrer ==
    /\ redemarrages < RedemarragesMax
    /\ redemarrages' = redemarrages + 1
    /\ requetes' = [t \in Numeros |-> [u \in Joueurs |-> Rien]]
    /\ minuteurs' = [t \in Numeros |-> Rien]
    /\ UNCHANGED <<match, lignes>>

-----------------------------------------------------------------------------
Minuteur(t) == MinuteurLit(t) \/ MinuteurEnchaine(t) \/ MinuteurEchoue(t)

Next ==
    \/ \E u \in Joueurs, t \in Numeros :
          \/ LireReponse(u, t)
          \/ \E r \in {"juste", "fausse"} :
                \/ RepondreEtContinuer(u, t, r)
                \/ RepondreEtClore(u, t, r)
                \/ RepondreEchoue(u, t, r)
    \/ \E t \in Numeros : Minuteur(t)
    \/ Redemarrer

(* The threads are run; nobody is obliged to answer. *)
Fairness == \A t \in Numeros : WF_vars(Minuteur(t))

Spec == Init /\ [][Next]_vars /\ Fairness

-----------------------------------------------------------------------------
(* Properties *)

\* The types of the rows and of what the handlers remember of them; the target
\* is never reached in the database.
TypeOK ==
    /\ typeJeu \in TypesJeu
    /\ statut \in Statuts
    /\ vainqueur \in Joueurs \cup {Personne}
    /\ score \in Scores
    /\ tourActuel \in Numeros
    /\ tours \in [Numeros -> StatutsTour]
    /\ reponses \in [Numeros -> [Joueurs -> EtatsReponse]]
    /\ dernier \in [Numeros -> Joueurs \cup {Personne}]
    /\ requetes \in [Numeros -> [Joueurs -> Lectures \cup {Rien}]]
    /\ minuteurs \in [Numeros -> Lectures \cup {Rien, Arme}]
    /\ redemarrages \in 0..RedemarragesMax

\* The turns are numbered from 1 to tour_actuel without a hole and never
\* twice, whatever stale number a handler or a thread has read.
ToursSansTrou == \A t \in Numeros : tours[t] # "absent" <=> t <= tourActuel

\* No point is lost or counted twice although the scores are written from a
\* stale reading: while the match lasts, a score is the number of the
\* right answers of the player.
Justes(u) == Cardinality({t \in Numeros : reponses[t][u] = "juste"})
ScoreExact == statut = "en_cours" => \A u \in Joueurs : score[u] = Justes(u)

\* A match that is closed is never settled a second time: its status and its
\* winner stay ("un match clos n'est jamais regle deux fois").
ClotureUnique ==
    [][statut # "en_cours" => statut' = statut /\ vainqueur' = vainqueur]_vars

\* A right answer never makes its author lose: when it closes the match, he
\* wins or the match is a draw.
JusteNePerdJamais ==
    [][\A t \in Numeros, u \in Joueurs :
          /\ statut = "en_cours" /\ statut' # "en_cours"
          /\ reponses[t][u] = "aucune" /\ reponses'[t][u] = "juste"
          => vainqueur' # Adversaire(u)]_vars

\* Whoever answers wrong in an "intrus" match loses it at once ("celui qui
\* repond faux perd immediatement").
FauxPerd ==
    [][\A t \in Numeros, u \in Joueurs :
          /\ typeJeu = "intrus" /\ statut = "en_cours"
          /\ reponses[t][u] = "aucune" /\ reponses'[t][u] = "fausse"
          => vainqueur' = Adversaire(u)]_vars

\* A player who reaches the target wins ("score cible atteint -> cloture du
\* match, credit des gains").
CibleGagne ==
    [][\A u \in Joueurs :
          statut = "en_cours" /\ Justes(u) < ScoreCible /\ Justes(u)' >= ScoreCible
            => vainqueur' = u]_vars

\* A match does not stop on a turn that nobody answers: it is closed, or every
\* question of the theme is used.  A restart of the server ends the threads.
MatchAvance ==
    <>(statut # "en_cours" \/ tourActuel = NbQuestions \/ redemarrages > 0)

=============================================================================
