------------------------------ MODULE MCParis ------------------------------
(* Paris on a small instance *)
EXTENDS Paris

CONSTANTS alice, bob, carol, g1, g2

TroisJoueurs == {alice, bob, carol}
DeuxParties == {g1, g2}
\* carol plays the second match and bets on the first one
DeuxDuels == [g \in Parties |-> IF g = g1 THEN {alice, bob} ELSE {alice, carol}]
\* alice and bob play both matches
MemeDuel == [g \in Parties |-> {alice, bob}]
DeuxParis == 1..2
\* carol has registered with the code of bob
CarolFilleule == [u \in Joueurs |-> IF u = carol THEN bob ELSE Personne]
=============================================================================
