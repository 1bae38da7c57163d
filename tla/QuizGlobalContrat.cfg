\* Two players, two games: the escrow, and rooms that do not stay open; without the sweep of stuck games.
SPECIFICATION PartiesEquitables
CONSTANTS
    Applications = {"quiz_global"}
    alice = alice
    bob = bob
    carol = carol
    g1 = g1
    g2 = g2
    Joueurs <- DeuxJoueurs
    Parties <- DeuxParties
    Personne = Personne
    Aucune = Aucune
    Mises = {0, 5, 10}
    SoldeInitial = 15
    BalayageAbandon = FALSE
    Duellistes <- Tous
    MisesMatch = {0, 5, 10}
    SoldeMatch = 15
    Courses <- DeuxiemeEstCourse
CHECK_DEADLOCK FALSE
INVARIANTS
    AucuneMiseOubliee
    ClesFraiches
PROPERTIES
    RespecteLeContrat
    SalonNeTrainePas
