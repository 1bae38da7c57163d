---------------------------- MODULE MCQuizGlobal ----------------------------
(* QuizGlobal on small instances *)
EXTENDS QuizGlobal, FiniteSets, FiniteSetsExt, TLC

CONSTANTS alice, bob, carol, g1, g2

DeuxJoueurs == {alice, bob}
TroisJoueurs == {alice, bob, carol}
DeuxParties == {g1, g2}
Symetrie == Permutations(Joueurs) \cup Permutations(Parties)

\* No money appears or disappears: what the wallets and the platform hold
\* together is what the wallets held at the start.
Conservation ==
    MapThenSumSet(LAMBDA u : Avoir(banque, u), Joueurs) + banque.capital
      = Cardinality(Joueurs) * SoldeInitial
=============================================================================
