\* Two users at rock-paper-scissors or penalties, one wallet, or one account.
SPECIFICATION Spec
CONSTANTS
    alice = alice
    bob = bob
    a1 = a1
    a2 = a2
    k1 = k1
    k2 = k2
    p1 = p1
    p2 = p2
    c1 = c1
    c2 = c2
    w1 = w1
    pin1 = pin1
    pin2 = pin2
    Utilisateurs <- DeuxUtilisateurs
    Appels <- DeuxAppels
    Rien = Rien
    Defis = {f1}
    Duels <- DeuxDuels
    Cibles = {1, 2}
    Joues <- PremierDuel
    MancheMax = 3
    DefisTir = {e1, e2}
    Seances <- DeuxSeances
    CiblesTir = {0, 1, 2}
    Pins <- DeuxPins
    Requetes <- DeuxAppels
    Cles <- DeuxCles
    Depots <- UnDepot
    Montants = {3}
    Verse <- Versements
    Dotation = 2
    Recharge = 2
    RechargeLimite = 1
    EssaisMax = 2
    Appareils <- DeuxAppels
    JetonsMax = 2
    CodesMax = 2
SYMMETRY Symetrie
CHECK_DEADLOCK FALSE
INVARIANTS
    TypeOK
    DuelsCoherents
    SeancesCoherentes
    SoldeEstLeGrandLivre
    BlocageCoherent
    JetonEchange
    EffetsParCode
