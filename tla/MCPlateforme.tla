---------------------------- MODULE MCPlateforme ----------------------------
(***************************************************************************)
(* Matches and QuizGlobal over the same wallets and one ledger.  Both      *)
(* number their rows from 1, so the primary keys are the same, and both    *)
(* write keys of the form reserve:{pk}:{user}, surplus:, annulation:,      *)
(* refus: and settle:{pk}:egalite:.                                        *)
(*                                                                         *)
(* The keys of a settlement name the application (match-1, quiz-global-1). *)
(* CleDe leaves that out, so the composition stops short of settlements.   *)
(***************************************************************************)
EXTENDS Naturals, FiniteSetsExt

CONSTANTS alice, bob, g1, Personne, Aucune, Mises, SoldeInitial

Joueurs == {alice, bob}
Parties == {g1}
SansCourse == {}
Tous == [g \in Parties |-> Joueurs]

VARIABLES matchs, enVol,
          statut, siegeA, siegeB, invite, invitation, mise, proposee,
          actif, vieux, perimee, balayage,
          banque

M == INSTANCE Matches WITH Courses <- SansCourse, Duellistes <- Tous,
       MisesMatch <- Mises, SoldeMatch <- SoldeInitial, caisse <- banque
Q == INSTANCE QuizGlobal WITH BalayageAbandon <- FALSE

matchVars == <<matchs, enVol>>
quizVars == <<statut, siegeA, siegeB, invite, invitation, mise, proposee,
              actif, vieux, perimee, balayage>>

SansReglement == \A k \in banque'.cles : k.op \notin {"perdant", "gagnant"}

Init == M!MatchesInit /\ Q!Init

Next ==
    /\ \/ M!HorsVictoire /\ UNCHANGED quizVars
       \/ Q!Next /\ UNCHANGED matchVars
    /\ SansReglement

Spec == Init /\ [][Next]_<<matchVars, quizVars, banque>>

-----------------------------------------------------------------------------
MiseDuMatch(g, u) ==
    IF /\ matchs[g].statut \in {"en_attente", "en_cours"}
       /\ u \in {matchs[g].hote, matchs[g].invite}
    THEN M!MiseEffectiveMatch(matchs[g]) ELSE 0

\* solde_bloque is what is "reserve pour une partie ou un pari en attente/en
\* cours" (apps/wallet/models.py): the stakes of a player's open matches and
\* quiz games are blocked in his wallet, each of them.
MisesReservees ==
    \A u \in Joueurs :
        MapThenSumSet(LAMBDA g : MiseDuMatch(g, u) + Q!Enjeu(g, u), Parties)
          <= banque.bloque[u]
=============================================================================
