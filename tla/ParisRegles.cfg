\* Two matches between alice and bob, two bets of carol: one match is won, and read
\* too early by the task; the other one ends in a draw.
SPECIFICATION PSpec
CONSTANTS
    alice = alice
    bob = bob
    carol = carol
    g1 = g1
    g2 = g2
    Joueurs <- TroisJoueurs
    Duellistes <- MemeDuel
    Parties <- DeuxParties
    Courses = {}
    Personne = Personne
    Rien = Rien
    MisesMatch = {5}
    SoldeMatch = 10
    Parieurs = {carol}
    Montants = {5}
    Paris <- DeuxParis
    Parrain <- CarolFilleule
CHECK_DEADLOCK FALSE
PROPERTY
    UneReglePourLesParis
