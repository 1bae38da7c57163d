----------------------------- MODULE MCMatches -----------------------------
(* Matches on small instances *)
EXTENDS Matches, TLC

CONSTANTS alice, bob, carol, g1, g2

DeuxJoueurs == {alice, bob}
TroisJoueurs == {alice, bob, carol}
DeuxParties == {g1, g2}
DeuxiemeEstCourse == {g2}
Tous == [g \in Parties |-> Joueurs]
Symetrie == Permutations(Joueurs)
=============================================================================
