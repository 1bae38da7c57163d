----------------------------- MODULE MCServices -----------------------------
(***************************************************************************)
(* Rps, Penalty, Coffre and Comptes share no state with each other: one    *)
(* behaviour is of one of them (scene), and the machines that are not on   *)
(* stage keep their initial state.  All are checked in one run.            *)
(***************************************************************************)
EXTENDS Rps, Penalty, Coffre, Comptes, TLC

CONSTANTS alice, bob, a1, a2, k1, k2, p1, p2, c1, c2, w1, pin1, pin2

VARIABLE scene

DeuxUtilisateurs == {alice, bob}
DeuxAppels == {a1, a2}
DeuxDuels == {k1, k2}
PremierDuel == {k1}
DeuxSeances == {p1, p2}
DeuxCles == {c1, c2}
UnDepot == {w1}
Versements == [d \in UnDepot |-> 3]
DeuxPins == {pin1, pin2}

Init ==
    /\ scene \in {"rps", "penalty", "coffre", "comptes"}
    /\ RpsInit
    /\ PenaltyInit
    /\ CoffreInit
    /\ ComptesInit

Next ==
    /\ UNCHANGED scene
    /\ \/ /\ scene = "rps" /\ RpsNext
          /\ UNCHANGED <<penaltyVars, coffreVars, comptesVars>>
       \/ /\ scene = "penalty" /\ PenaltyNext
          /\ UNCHANGED <<rpsVars, coffreVars, comptesVars>>
       \/ /\ scene = "coffre" /\ CoffreNext
          /\ UNCHANGED <<rpsVars, penaltyVars, comptesVars>>
       \/ /\ scene = "comptes" /\ ComptesNext
          /\ UNCHANGED <<rpsVars, penaltyVars, coffreVars>>

Spec == Init /\ [][Next]_<<scene, rpsVars, penaltyVars, coffreVars, comptesVars>>

\* The machine that is on stage keeps its types (the others never move).
TypeOK == RpsTypeOK /\ PenaltyTypeOK /\ CoffreTypeOK /\ ComptesTypeOK

\* Appels is the set of the calls in flight of every machine.
Symetrie ==
    Permutations(Appels) \cup Permutations(Utilisateurs) \cup Permutations(Seances)
=============================================================================
