\* Three players, two classic matches, two bets.
SPECIFICATION PSpec
CONSTANTS
    alice = alice
    bob = bob
    carol = carol
    g1 = g1
    g2 = g2
    Joueurs <- TroisJoueurs
    Duellistes <- DeuxDuels
    Parties <- DeuxParties
    Courses = {}
    Personne = Personne
    Rien = Rien
    MisesMatch = {0, 5}
    SoldeMatch = 10
    Parieurs = {carol}
    Montants = {1, 5}
    Paris <- DeuxParis
    Parrain <- CarolFilleule
CHECK_DEADLOCK FALSE
INVARIANTS
    PTypeOK
    GainMerite
    MisesEtParisExacts
PROPERTIES
    ParisResolus
