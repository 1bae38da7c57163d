------------------------------ MODULE Sequestre ------------------------------
(***************************************************************************)
(* What the stakes of duels promise, without rows, locks or ledger: every  *)
(* duel holds in escrow what its players put in, and gives it back or pays *)
(* it out exactly once.  QuizGlobal implements it with one blocked balance *)
(* per player and idempotency keys.                                        *)
(***************************************************************************)
EXTENDS Naturals

CONSTANTS Joueurs, Parties, SoldeDepart

VARIABLES etat,     \* of each duel: absent, ouvert (a room), engage, clos
          depot,    \* what each player has in escrow in each duel
          libre,    \* what each player has outside every escrow
          capital   \* what the platform earned

vars == <<etat, depot, libre, capital>>

Init ==
    /\ etat = [g \in Parties |-> "absent"]
    /\ depot = [g \in Parties |-> [u \in Joueurs |-> 0]]
    /\ libre = [u \in Joueurs |-> SoldeDepart]
    /\ capital = 0

\* The escrow of g becomes d; whatever leaves it or enters it comes from or
\* goes to the player's own money.
Deposer(g, d) ==
    /\ \A u \in Joueurs : d[u] <= libre[u] + depot[g][u]
    /\ depot' = [depot EXCEPT ![g] = d]
    /\ libre' = [u \in Joueurs |-> (libre[u] + depot[g][u]) - d[u]]
    /\ UNCHANGED capital

\* u opens a duel and puts m in escrow
Ouvrir(g, u, m) ==
    /\ etat[g] = "absent"
    /\ etat' = [etat EXCEPT ![g] = "ouvert"]
    /\ Deposer(g, [v \in Joueurs |-> IF v = u THEN m ELSE 0])

\* v accepts: from now on both stake the same m, which is not more than what
\* the first player had offered
Engager(g, u, v, m) ==
    /\ etat[g] = "ouvert"
    /\ u # v
    /\ m <= depot[g][u]
    /\ etat' = [etat EXCEPT ![g] = "engage"]
    /\ Deposer(g, [w \in Joueurs |-> IF w \in {u, v} THEN m ELSE 0])

\* A rematch opens with both stakes
Rejouer(g, u, v, m) ==
    /\ etat[g] = "absent"
    /\ u # v
    /\ etat' = [etat EXCEPT ![g] = "engage"]
    /\ Deposer(g, [w \in Joueurs |-> IF w \in {u, v} THEN m ELSE 0])

\* Every stake goes back to the player it came from
Rendre(g) ==
    /\ etat[g] \in {"ouvert", "engage"}
    /\ etat' = [etat EXCEPT ![g] = "clos"]
    /\ Deposer(g, [w \in Joueurs |-> 0])

\* w wins: he gets the escrow less the share of the platform, which leaves him
\* with at least his own stake
Payer(g, w, l, part) ==
    /\ etat[g] = "engage"
    /\ w # l
    /\ part <= depot[g][l]
    /\ etat' = [etat EXCEPT ![g] = "clos"]
    /\ depot' = [depot EXCEPT ![g] = [u \in Joueurs |-> 0]]
    /\ libre' = [libre EXCEPT ![w] = @ + ((depot[g][w] + depot[g][l]) - part)]
    /\ capital' = capital + part

Next ==
    \E g \in Parties :
        \/ Rendre(g)
        \/ \E u \in Joueurs : \E m \in 0 .. libre[u] : Ouvrir(g, u, m)
        \/ \E u, v \in Joueurs : \E m \in 0 .. depot[g][u] : Engager(g, u, v, m)
        \/ \E u, v \in Joueurs : \E m \in 0 .. libre[u] : Rejouer(g, u, v, m)
        \/ \E w, l \in Joueurs : \E part \in 0 .. depot[g][l] : Payer(g, w, l, part)

Spec == Init /\ [][Next]_vars
=============================================================================
