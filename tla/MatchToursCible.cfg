\* A classic match: who wins by reaching the target.
SPECIFICATION Spec
CONSTANTS
    ScoreCible = 2
    NbQuestions = 3
    TypesJeu = {"classique"}
    RedemarragesMax = 0
    Rien = Rien
    Arme = Arme
CHECK_DEADLOCK FALSE
PROPERTIES
    CibleGagne
