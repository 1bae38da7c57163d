\* Three players and two games with the sweep of stuck games, or a classic
\* match and a race of rabbits.
SPECIFICATION PartiesSpec
CONSTANTS
    Applications = {"quiz_global", "matches"}
    alice = alice
    bob = bob
    carol = carol
    g1 = g1
    g2 = g2
    Joueurs <- TroisJoueurs
    Parties <- DeuxParties
    Personne = Personne
    Aucune = Aucune
    Mises = {0, 10}
    SoldeInitial = 10
    BalayageAbandon = TRUE
    Duellistes <- Tous
    MisesMatch = {0, 5, 10}
    SoldeMatch = 10
    Courses <- DeuxiemeEstCourse
SYMMETRY SymetrieJoueurs
CHECK_DEADLOCK FALSE
INVARIANTS
    TypeOK
    UnePartieActive
    Sieges
    InvitationsCoherentes
    Conservation
    Solvabilite
    TypeOKMatchs
    UneSeuleIssue
    MisesCouvertes
    ConservationMatchs
PROPERTIES
    SeulLePerdantPaie
    ReglementUnique
    SeulLePerdantPaieMatchs
