\* One question, one tie-break: what becomes of it when no client asks.
SPECIFICATION MSpec
CONSTANTS
    Cible = 1
    Stock = 2
    DureeQuestion = 2
    DureeResultat = 2
    RetardMax = 1
    MinuteursMax = 1
CHECK_DEADLOCK FALSE
PROPERTY
    QuestionSeTermine
