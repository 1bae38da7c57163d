\* One match of each kind: three questions, two points to win, one restart.
SPECIFICATION Spec
CONSTANTS
    ScoreCible = 2
    NbQuestions = 3
    TypesJeu = {"classique", "intrus"}
    RedemarragesMax = 1
    Rien = Rien
    Arme = Arme
CHECK_DEADLOCK FALSE
INVARIANTS
    TypeOK
    ToursSansTrou
    ScoreExact
PROPERTIES
    ClotureUnique
    JusteNePerdJamais
    MatchAvance
