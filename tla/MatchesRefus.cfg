\* Two players, a classic match and a race: what a refusal gives back.
SPECIFICATION MatchesSpec
CONSTANTS
    alice = alice
    bob = bob
    carol = carol
    g1 = g1
    g2 = g2
    Joueurs <- DeuxJoueurs
    Duellistes <- Tous
    Parties <- DeuxParties
    Courses <- DeuxiemeEstCourse
    Personne = Personne
    MisesMatch = {5}
    SoldeMatch = 10
CHECK_DEADLOCK FALSE
PROPERTY
    RefusRendReserve
