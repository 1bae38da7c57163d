\* Two players; a match and a quiz game with the same primary key.
SPECIFICATION Spec
CONSTANTS
    alice = alice
    bob = bob
    g1 = g1
    Personne = Personne
    Aucune = Aucune
    Mises = {5}
    SoldeInitial = 15
CHECK_DEADLOCK FALSE
INVARIANTS
    MisesReservees
