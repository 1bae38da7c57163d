------------------------------ MODULE MCParties ------------------------------
(***************************************************************************)
(* The global quiz and the matches in one run.  A behaviour is of one of   *)
(* them (application), with wallets of its own (banque or caisse), and the *)
(* other keeps its initial state.  What they do to each other, over one    *)
(* ledger, is MCPlateforme.                                                *)
(***************************************************************************)
EXTENDS MCQuizGlobal, Matches

CONSTANT Applications    \* the applications a run looks at

VARIABLE application

DeuxiemeEstCourse == {g2}
Tous == [g \in Parties |-> Joueurs]

PartiesInit ==
    /\ application \in Applications
    /\ Init
    /\ MatchesInit

PartiesNext ==
    /\ UNCHANGED application
    /\ \/ application = "quiz_global" /\ Next /\ UNCHANGED matchVars
       \/ application = "matches" /\ MatchesNext /\ UNCHANGED vars

PartiesSpec == PartiesInit /\ [][PartiesNext]_<<application, vars, matchVars>>

\* The sweep of waiting rooms is the one scheduled step that is deployed.
PartiesEquitables == PartiesSpec /\ Fairness

\* g2 is a race and g1 is not, so only the players are alike.
SymetrieJoueurs == Permutations(Joueurs)
=============================================================================
