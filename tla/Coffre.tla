------------------------------- MODULE Coffre -------------------------------
(***************************************************************************)
(* One wallet without its games (apps/wallet): the PIN and the two locks,  *)
(* deposits, withdrawals, the webhook of the mobile money and the demo     *)
(* recharge.                                                               *)
(*                                                                         *)
(* The services of the PIN hold the row of the wallet from their reading   *)
(* to their commit and are one action.  Whether the wallet is unlocked,    *)
(* and whether a key is in the ledger, is read before that lock is taken:  *)
(* what a call in flight has read is in appelsC.                           *)
(***************************************************************************)
EXTENDS Integers, FiniteSets, FiniteSetsExt

CONSTANTS
    Pins,          \* the PINs a user may choose
    Requetes,      \* the calls that may be in flight at the same time
    Cles,          \* the idempotency keys the clients send
    Depots,        \* the references of the webhooks
    Montants,      \* the amounts of deposits and withdrawals
    Verse,         \* the amount that goes with the reference of a webhook
    Dotation,      \* DEMO_INITIAL_BALANCE
    Recharge,      \* DEMO_RECHARGE_AMOUNT
    RechargeLimite,\* DEMO_RECHARGE_LIMIT, a day
    EssaisMax      \* WALLET_PIN_MAX_ATTEMPTS

ASSUME CoffreHypotheses ==
    /\ Montants \subseteq Nat \ {0}
    /\ Verse \in [Depots -> Nat \ {0}]
    /\ {Dotation, Recharge, RechargeLimite, EssaisMax} \subseteq Nat \ {0}
    /\ "demo-initial" \notin Cles \cup Depots
    /\ Cles \cap Depots = {}

VARIABLES
    pf,            \* the row of the wallet
    livre,         \* the ledger: the entry under each key, or Manquante
    appelsC        \* the calls in flight

coffreVars == <<pf, livre, appelsC>>

(* A date is absent, still to come or past *)
Dates == {"aucune", "future", "passee"}
ClesDuLivre == Cles \cup Depots \cup {"demo-initial"}
Manquante == [genre |-> "manquante"]
Entree(genre, montant) == [genre |-> genre, montant |-> montant, duJour |-> TRUE]
Libre == [op |-> "libre"]

SansPin == "sans pin"

-----------------------------------------------------------------------------
(* creer_portefeuille: the wallet is credited when its owner registers,    *)
(* unless the credit fails, which nobody is told                           *)
CoffreInit ==
    /\ \E credite \in BOOLEAN :
         /\ pf = [pin |-> SansPin, verrouille |-> TRUE, bloqueJusqua |-> "aucune",
                  ouvertJusqua |-> "aucune", essais |-> 0,
                  solde |-> IF credite THEN Dotation ELSE 0]
         /\ livre = [c \in ClesDuLivre |->
                       IF c = "demo-initial" /\ credite
                       THEN Entree("demo-initial", Dotation) ELSE Manquante]
    /\ appelsC = [r \in Requetes |-> Libre]

-----------------------------------------------------------------------------
(* The PIN *)

DefinirPin(p) ==
    /\ pf.pin = SansPin
    /\ pf' = [pf EXCEPT !.pin = p, !.verrouille = TRUE, !.essais = 0]
    /\ UNCHANGED <<livre, appelsC>>

ChangerPin(actuel, nouveau) ==
    /\ pf.pin = actuel
    /\ pf' = [pf EXCEPT !.pin = nouveau, !.essais = 0]
    /\ UNCHANGED <<livre, appelsC>>

(* A lock whose time is up is lifted by the next attempt *)
\* Faulty: the attempts of before the lock are kept.
VerrouLeveSansRemise(w) ==
    IF w.verrouille /\ w.bloqueJusqua = "passee"
    THEN [w EXCEPT !.verrouille = FALSE, !.bloqueJusqua = "aucune"]
    ELSE w
VerrouLeve(w) ==
    IF w.verrouille /\ w.bloqueJusqua = "passee"
    THEN [w EXCEPT !.verrouille = FALSE, !.essais = 0, !.bloqueJusqua = "aucune"]
    ELSE w

BonPin(w) ==
    [w EXCEPT !.verrouille = FALSE, !.essais = 0,
              !.bloqueJusqua = "aucune", !.ouvertJusqua = "future"]

(* The failed attempt that reaches the limit locks the wallet for a while *)
MauvaisPin(w) ==
    IF w.essais + 1 >= EssaisMax
    THEN [w EXCEPT !.essais = @ + 1, !.verrouille = TRUE, !.bloqueJusqua = "future"]
    ELSE [w EXCEPT !.essais = @ + 1]

Deverrouiller(p) ==
    /\ ~ (pf.verrouille /\ pf.bloqueJusqua = "future")
    /\ pf.pin # SansPin
    /\ pf' = IF p = pf.pin THEN BonPin(VerrouLeve(pf)) ELSE MauvaisPin(VerrouLeve(pf))
    /\ UNCHANGED <<livre, appelsC>>

(* verrouiller_portefeuille: two fields, written without a lock *)
Verrouiller ==
    /\ pf' = [pf EXCEPT !.verrouille = TRUE, !.ouvertJusqua = "aucune"]
    /\ UNCHANGED <<livre, appelsC>>

DateArrive(champ) ==
    /\ pf[champ] = "future"
    /\ pf' = [pf EXCEPT ![champ] = "passee"]
    /\ UNCHANGED <<livre, appelsC>>

-----------------------------------------------------------------------------
(* est_deverrouille and its automatic lock *)

EstDeverrouille ==
    /\ pf.pin # SansPin
    /\ IF pf.verrouille THEN pf.bloqueJusqua = "passee" ELSE pf.ouvertJusqua # "passee"

Recevoir(r, appel) ==
    /\ appelsC[r] = Libre
    /\ appelsC' = [appelsC EXCEPT ![r] = appel]
    /\ UNCHANGED <<pf, livre>>

Repondre(r) == appelsC' = [appelsC EXCEPT ![r] = Libre]

(* The unlocked time is over: whoever reads so (a query, or a recharge, *)
(* which is refused) locks the wallet                                   *)
LireOuverture(r) ==
    /\ pf.pin # SansPin /\ ~ pf.verrouille /\ pf.ouvertJusqua = "passee"
    /\ Recevoir(r, [op |-> "verrou"])

VerrouAuto(r) ==
    /\ appelsC[r].op = "verrou"
    /\ pf' = [pf EXCEPT !.verrouille = TRUE]
    /\ Repondre(r)
    /\ UNCHANGED livre

-----------------------------------------------------------------------------
(* Moves of money.  A key is looked up first; the entry is written under   *)
(* the lock of the wallet, where the unique index refuses a second one and *)
(* the transaction rolls back.                                             *)

\* Faulty: without the unique index.
InscriptibleToujours(cle) == TRUE
Inscriptible(cle) == livre[cle] = Manquante

Inscrire(cle, entree, variation) ==
    /\ livre' = [livre EXCEPT ![cle] = entree]
    /\ pf' = [pf EXCEPT !.solde = variation]

(* effectuer_depot, demander_retrait: DuplicateIdempotencyKeyError on a key *)
(* that is in the ledger; traiter_depot_async: "duplicate"                  *)
LireCle(r, op, cle, montant) ==
    /\ livre[cle] = Manquante
    /\ Recevoir(r, [op |-> op, cle |-> cle, montant |-> montant])

(* The step-up token of a withdrawal is taken as good; withdrawals that are *)
(* pending do not exist: debiter writes SUCCES                              *)
DemanderDepot(r) == \E c \in Cles, m \in Montants : LireCle(r, "depot", c, m)
DemanderRetrait(r) == \E c \in Cles, m \in Montants : LireCle(r, "retrait", c, m)

(* The task of a webhook, which the provider may send again and Celery may *)
(* run again                                                               *)
TraiterDepot(r) == \E d \in Depots : LireCle(r, "depot", d, Verse[d])

Crediter(r) ==
    LET a == appelsC[r] IN
    /\ a.op = "depot"
    /\ Inscriptible(a.cle)
    /\ Inscrire(a.cle, Entree("depot", a.montant), pf.solde + a.montant)
    /\ Repondre(r)

Debiter(r) ==
    LET a == appelsC[r] IN
    /\ a.op = "retrait"
    /\ Inscriptible(a.cle)
    /\ pf.solde >= a.montant
    /\ Inscrire(a.cle, Entree("retrait", a.montant), pf.solde - a.montant)
    /\ Repondre(r)

(* InsufficientFundsError, or the key, which crediter and debiter look up *)
(* again (nothing is done), or which the unique index refuses            *)
MouvementEchoue(r) ==
    LET a == appelsC[r] IN
    /\ a.op \in {"depot", "retrait"}
    /\ ~ Inscriptible(a.cle) \/ (a.op = "retrait" /\ pf.solde < a.montant)
    /\ Repondre(r)
    /\ UNCHANGED <<pf, livre>>

-----------------------------------------------------------------------------
(* The demo recharge *)

RechargesDuJour ==
    {c \in ClesDuLivre : livre[c].genre = "recharge" /\ livre[c].duJour}

LireRecharge(r) ==
    /\ EstDeverrouille
    /\ \E c \in Cles : Recevoir(r, [op |-> "recharge", cle |-> c])

RechargePermise == Cardinality(RechargesDuJour) < RechargeLimite

Recharger(r) ==
    LET a == appelsC[r] IN
    /\ a.op = "recharge"
    /\ livre[a.cle] = Manquante
    /\ RechargePermise
    /\ Inscrire(a.cle, Entree("recharge", Recharge), pf.solde + Recharge)
    /\ Repondre(r)

(* The key is known, and the wallet is returned as it is, or the limit of *)
(* the day is reached                                                     *)
RechargeSansEffet(r) ==
    LET a == appelsC[r] IN
    /\ a.op = "recharge"
    /\ livre[a.cle] # Manquante \/ ~ RechargePermise
    /\ Repondre(r)
    /\ UNCHANGED <<pf, livre>>

JourSuivant ==
    /\ RechargesDuJour # {}
    /\ livre' = [c \in ClesDuLivre |->
                   IF livre[c] = Manquante THEN Manquante
                   ELSE [livre[c] EXCEPT !.duJour = FALSE]]
    /\ UNCHANGED <<pf, appelsC>>

-----------------------------------------------------------------------------
CoffreNext ==
    \/ \E p \in Pins : DefinirPin(p)
    \/ \E p, q \in Pins : ChangerPin(p, q)
    \/ \E p \in Pins : Deverrouiller(p)
    \/ Verrouiller
    \/ \E champ \in {"bloqueJusqua", "ouvertJusqua"} : DateArrive(champ)
    \/ JourSuivant
    \/ \E r \in Requetes :
         \/ LireOuverture(r)
         \/ VerrouAuto(r)
         \/ DemanderDepot(r)
         \/ DemanderRetrait(r)
         \/ TraiterDepot(r)
         \/ Crediter(r)
         \/ Debiter(r)
         \/ MouvementEchoue(r)
         \/ LireRecharge(r)
         \/ Recharger(r)
         \/ RechargeSansEffet(r)

CoffreSpec == CoffreInit /\ [][CoffreNext]_coffreVars

-----------------------------------------------------------------------------
Mouvements ==
    [genre : {"demo-initial", "depot", "retrait", "recharge"}, montant : Nat,
     duJour : BOOLEAN]

\* Legal values; the balance is never negative (debiter, "nouveau < 0").
CoffreTypeOK ==
    /\ pf \in [pin : Pins \cup {SansPin}, verrouille : BOOLEAN, bloqueJusqua : Dates,
               ouvertJusqua : Dates, essais : Nat, solde : Nat]
    /\ livre \in [ClesDuLivre -> Mouvements \cup {Manquante}]
    /\ \A r \in Requetes :
         appelsC[r].op \in {"libre", "verrou", "depot", "retrait", "recharge"}

Variation(e) ==
    CASE e.genre = "manquante" -> 0
      [] e.genre = "retrait"   -> -e.montant
      [] OTHER                 -> e.montant

\* The balance is the sum of the entries of the ledger, "source de verite des
\* mouvements financiers" (LedgerEntry): no call that is repeated or runs beside
\* another one with its key moves money without an entry of its own.
SoldeEstLeGrandLivre ==
    pf.solde = MapThenSumSet(LAMBDA c : Variation(livre[c]), ClesDuLivre)

\* deverrouiller_portefeuille: in every order of attempts, changes of PIN,
\* manual and automatic locks, the failed attempts never exceed the limit, the
\* last one permitted leaves a date at which the lock ends, and a wallet with
\* such a date is locked.
BlocageCoherent ==
    /\ pf.essais <= EssaisMax
    /\ pf.essais = EssaisMax => pf.bloqueJusqua # "aucune"
    /\ pf.bloqueJusqua # "aucune" => pf.verrouille
=============================================================================
