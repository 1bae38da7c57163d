\* An "intrus" match: who loses by a wrong answer.
SPECIFICATION Spec
CONSTANTS
    ScoreCible = 2
    NbQuestions = 3
    TypesJeu = {"intrus"}
    RedemarragesMax = 0
    Rien = Rien
    Arme = Arme
CHECK_DEADLOCK FALSE
PROPERTIES
    FauxPerd
