\* Two questions, with two more for tie-breaks.
SPECIFICATION MSpec
CONSTANTS
    Cible = 2
    Stock = 4
    DureeQuestion = 2
    DureeResultat = 2
    RetardMax = 1
    MinuteursMax = 1
CHECK_DEADLOCK FALSE
INVARIANTS
    TypeOK
    ScoreExact
    BrisSeulementAEgalite
    VainqueurMerite
PROPERTIES
    MinuteurPleinSuffit
    ReponseDefinitive
