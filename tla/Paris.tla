------------------------------- MODULE Paris -------------------------------
(***************************************************************************)
(* The bets of spectators on a match (apps/betting): placing one, and the  *)
(* Celery task that resolves the bets of a match that was won.  Extends    *)
(* Matches, with which they share the wallets.                             *)
(*                                                                         *)
(* placer_pari gets the match as the resolver has read it, checks that     *)
(* reading, and writes the bet later: two steps.  resoudre_paris reads the *)
(* match, then lists its open bets, then resolves them one at a time, each *)
(* service call a transaction of its own.                                  *)
(*                                                                         *)
(* The client of a bet gives no idempotency key of its own.                *)
(***************************************************************************)
EXTENDS Matches

CONSTANTS Parieurs,  \* the users that bet
          Montants,  \* the amounts to bet
          Paris,     \* the primary keys of the bets
          Parrain,   \* the user whose code each user has given, or Personne
          Rien       \* "no call"

ASSUME MontantsHypothese == Montants \subseteq Nat \ {0}
ASSUME ParieursHypothese == Parieurs \subseteq Joueurs
ASSUME ParrainHypothese == Parrain \in [Joueurs -> Joueurs \cup {Personne}]

VARIABLES
    tiers,    \* Match.premier_tiers_atteint, a function of the scores
    paris,    \* the row of each bet
    lectures, \* the bet a user's call of placer_pari has checked
    tache     \* the task resoudre_paris_match of each match

StatutsPari == {"absent", "en_cours", "gagne", "perdu", "rembourse"}
Demandes == [partie : Parties, sur : Joueurs, montant : Montants]
LignesPari ==
    [statut : StatutsPari, qui : Utilisateurs, partie : Parties \cup {Rien},
     sur : Utilisateurs, montant : Montants \cup {0}]
ASSUME RienHypothese == Rien \notin Demandes /\ Rien \notin Parties

PariAbsent ==
    [statut |-> "absent", qui |-> Personne, partie |-> Rien, sur |-> Personne, montant |-> 0]

(* vu: the winner in the task's reading of the match; reste: the bets it has *)
(* listed and not resolved yet                                               *)
Taches == [etat : {"aucune", "en_file", "en_cours"}, vu : Utilisateurs, reste : SUBSET Paris]
SansTache == [etat |-> "aucune", vu |-> Personne, reste |-> {}]

varsParis == <<tiers, paris, lectures, tache>>
varsTout == <<matchVars, varsParis>>

PInit ==
    /\ MatchesInit
    /\ tiers = [g \in Parties |-> FALSE]
    /\ paris = [p \in Paris |-> PariAbsent]
    /\ lectures = [u \in Joueurs |-> Rien]
    /\ tache = [g \in Parties |-> SansTache]

-----------------------------------------------------------------------------
(* A score passes the first third of the target: the answers of MatchTours *)
FranchirTiers(g) ==
    /\ matchs[g].statut = "en_cours"
    /\ ~EstLapin(g)
    /\ ~tiers[g]
    /\ tiers' = [tiers EXCEPT ![g] = TRUE]
    /\ UNCHANGED <<matchVars, paris, lectures, tache>>

(* _cloturer sends the task, before the transaction around it commits: the *)
(* worker may read the match as it was before (avant), without a winner.   *)
(* A draw has returned before.                                             *)
CloturerEtEnvoyer(g, w, avant) ==
    /\ Cloturer(g, w)
    /\ tache' = [tache EXCEPT ![g].etat = "en_file",
                              ![g].vu = IF avant THEN Personne ELSE w]
    /\ UNCHANGED <<tiers, paris, lectures>>

-----------------------------------------------------------------------------
(* placer_pari *)

(* _lien_familial: one is the sponsor of the other *)
LienFamilial(u, v) == Parrain[u] = v \/ Parrain[v] = u

PeutParier(u, g, v, m) ==
    /\ matchs[g].statut = "en_cours"
    /\ v \in {matchs[g].hote, matchs[g].invite}
    /\ u \notin {matchs[g].hote, matchs[g].invite}
    /\ ~LienFamilial(u, v)
    /\ ~tiers[g]
    /\ m <= caisse.dispo[u]

LirePari(u, g, v, m) ==
    /\ lectures[u] = Rien
    /\ PeutParier(u, g, v, m)
    /\ lectures' = [lectures EXCEPT ![u] = [partie |-> g, sur |-> v, montant |-> m]]
    /\ UNCHANGED <<matchVars, tiers, paris, tache>>

(* The key names the user, the match and the amount: a second bet of the *)
(* same amount on the same match blocks nothing.                         *)
CleDuPari(u, d) == [op |-> "pari", partie |-> d.partie, qui |-> u, montant |-> d.montant]

\* Faulty: the balance is not looked at again under the lock
PeutEcrireToujours(u, d) == TRUE

PeutEcrire(u, d) ==
    matchs[d.partie].mise > 0 => PeutBloquer(caisse, u, d.montant, CleDuPari(u, d))

(* A bet on a match without stake blocks nothing either *)
EcrirePari(u, p) ==
    LET d == lectures[u]
    IN  /\ d # Rien
        /\ paris[p].statut = "absent"
        /\ PeutEcrire(u, d)
        /\ paris' = [paris EXCEPT ![p] =
                       [statut |-> "en_cours", qui |-> u, partie |-> d.partie,
                        sur |-> d.sur, montant |-> d.montant]]
        /\ caisse' = IF matchs[d.partie].mise = 0 THEN caisse
                     ELSE BloquerMise(caisse, u, d.montant, CleDuPari(u, d))
        /\ lectures' = [lectures EXCEPT ![u] = Rien]
        /\ UNCHANGED <<matchs, enVol, tiers, tache>>

(* bloquer_mise raises: the money was spent since the check *)
EcrirePariEchoue(u) ==
    /\ lectures[u] # Rien
    /\ ~PeutEcrire(u, lectures[u])
    /\ lectures' = [lectures EXCEPT ![u] = Rien]
    /\ UNCHANGED <<matchVars, tiers, paris, tache>>

-----------------------------------------------------------------------------
(* resoudre_paris_match *)

Ouverts(g) == {p \in Paris : paris[p].statut = "en_cours" /\ paris[p].partie = g}

\* Faulty: only one bet of a match is listed
TacheListeUn(g) ==
    /\ tache[g].etat = "en_file"
    /\ tache' = [tache EXCEPT ![g].etat = "en_cours",
                   ![g].reste = IF Ouverts(g) = {} THEN {} ELSE {CHOOSE p \in Ouverts(g) : TRUE}]
    /\ UNCHANGED <<matchVars, tiers, paris, lectures>>

TacheListe(g) ==
    /\ tache[g].etat = "en_file"
    /\ tache' = [tache EXCEPT ![g].etat = "en_cours", ![g].reste = Ouverts(g)]
    /\ UNCHANGED <<matchVars, tiers, paris, lectures>>

ClePari(op, p) == [op |-> op, pari |-> p]

\* Faulty: the winner keeps the stake blocked
GagnerSansMise(p) ==
    LET m == paris[p].montant
    IN  PayerGain(caisse, paris[p].qui, 0, 2 * m, CommissionPour(m),
                  ClePari("gagne", p), ClePari("gagne:commission", p))

(* payer_gain, of twice the amount: cote is always 2.00 *)
Gagner(p) ==
    LET m == paris[p].montant
    IN  PayerGain(caisse, paris[p].qui, m, 2 * m, CommissionPour(m),
                  ClePari("gagne", p), ClePari("gagne:commission", p))

\* Faulty: the bet is compared with the winner of the match, who may be nobody yet
GagnantSansVainqueur(g, p) == paris[p].sur = tache[g].vu \/ tache[g].vu = Personne

Gagnant(g, p) == paris[p].sur = tache[g].vu

Resolu(g, p, statut) ==
    /\ paris' = [paris EXCEPT ![p].statut = statut]
    /\ tache' = [tache EXCEPT ![g].reste = @ \ {p}]
    /\ UNCHANGED <<matchs, enVol, tiers, lectures>>

PariGagne(g, p) ==
    /\ p \in tache[g].reste
    /\ Gagnant(g, p)
    /\ CommissionPour(paris[p].montant) > 0
    /\ caisse' = CrediterPlateforme(Gagner(p), CommissionPour(paris[p].montant))
    /\ Resolu(g, p, "gagne")

(* crediter_plateforme raises on a commission of 0.00.  The gain is already *)
(* paid; the task ends, and this bet and the rest of the list stay open.    *)
PariGagneEchoue(g, p) ==
    /\ p \in tache[g].reste
    /\ Gagnant(g, p)
    /\ CommissionPour(paris[p].montant) = 0
    /\ caisse' = Gagner(p)
    /\ tache' = [tache EXCEPT ![g] = SansTache]
    /\ UNCHANGED <<matchs, enVol, tiers, paris, lectures>>

(* The task never sees an annulled match: nobody sends it for one *)
PariPerdu(g, p) ==
    /\ p \in tache[g].reste
    /\ ~Gagnant(g, p)
    /\ caisse' = ConsommerMise(caisse, paris[p].qui, paris[p].montant, ClePari("perdu", p))
    /\ Resolu(g, p, "perdu")

TacheFinit(g) ==
    /\ tache[g].etat = "en_cours"
    /\ tache[g].reste = {}
    /\ tache' = [tache EXCEPT ![g] = SansTache]
    /\ UNCHANGED <<matchVars, tiers, paris, lectures>>

-----------------------------------------------------------------------------
Tache(g) ==
    \/ TacheListe(g)
    \/ TacheFinit(g)
    \/ \E p \in Paris : PariGagne(g, p) \/ PariGagneEchoue(g, p) \/ PariPerdu(g, p)

PNext ==
    \/ HorsVictoire /\ UNCHANGED varsParis
    \/ \E g \in Parties :
          \/ FranchirTiers(g)
          \/ \E w \in Joueurs, avant \in BOOLEAN : CloturerEtEnvoyer(g, w, avant)
          \/ Tache(g)
    \/ \E u \in Parieurs :
          \/ \E g \in Parties, v \in Joueurs, m \in Montants : LirePari(u, g, v, m)
          \/ \E p \in Paris : EcrirePari(u, p)
          \/ EcrirePariEchoue(u)

(* The workers take the tasks of their queue and go on with them *)
PSpec == PInit /\ [][PNext]_varsTout /\ \A g \in Parties : WF_varsTout(Tache(g))

-----------------------------------------------------------------------------
(* Properties *)

\* The rows have legal values, and no balance is negative.
PTypeOK ==
    /\ matchs \in [Parties -> LignesMatch]
    /\ caisse.dispo \in [Joueurs -> Nat]
    /\ caisse.bloque \in [Joueurs -> Nat]
    /\ tiers \in [Parties -> BOOLEAN]
    /\ paris \in [Paris -> LignesPari]
    /\ lectures \in [Joueurs -> Demandes \cup {Rien}]
    /\ tache \in [Parties -> Taches]

\* A bet is paid only if the player it is on has won, although the match was
\* read for the bet before it was over, and by the task maybe too early.
GainMerite ==
    \A p \in Paris :
        paris[p].statut = "gagne" \/ ClePari("gagne", p) \in caisse.cles =>
            /\ matchs[paris[p].partie].statut = "termine"
            /\ matchs[paris[p].partie].vainqueur = paris[p].sur

(* u has an open bet p that was not paid *)
EnjeuPari(p, u) ==
    IF /\ paris[p].statut = "en_cours" /\ paris[p].qui = u
       /\ ClePari("gagne", p) \notin caisse.cles
    THEN paris[p].montant ELSE 0

(* What u has bet and not got an answer to *)
EnJeu(u) == MapThenSumSet(LAMBDA p : EnjeuPari(p, u), Paris)

(* Every bet of u was really reserved: none on a match without stake, and no *)
(* two of one amount on one match.                                           *)
TousReserves(u) ==
    \A p \in Paris :
        paris[p].qui = u =>
            /\ matchs[paris[p].partie].mise > 0
            /\ \A q \in Paris \ {p} :
                  paris[q].qui = u =>
                     <<paris[q].partie, paris[q].montant>> # <<paris[p].partie, paris[p].montant>>

\* What is blocked covers the stakes of the matches its owner plays and his open
\* bets, and is exactly that if he took part in no race, whatever his bets and
\* the matches of others come to meanwhile: the resolution of a bet never takes
\* the stake of a match.
MisesEtParisExacts ==
    \A u \in Joueurs :
        ~RenduParCourse(u) /\ TousReserves(u) =>
            /\ caisse.bloque[u] >= Engage(u) + EnJeu(u)
            /\ (\A g \in Courses : CleDe("reserve", g, u) \notin caisse.cles)
                  => caisse.bloque[u] = Engage(u) + EnJeu(u)

(* p is open on a match whose task was sent, and has read its winner *)
ARegler(p) ==
    \E g \in Parties : p \in Ouverts(g) /\ tache[g].etat = "en_file" /\ tache[g].vu # Personne

ReglePourSonJoueur(p) ==
    \E g \in Parties :
        /\ paris[p].partie = g
        /\ paris[p].statut = IF paris[p].sur = matchs[g].vainqueur THEN "gagne" ELSE "perdu"

(* A bet of the same match was paid, and its commission of 0.00 ended the task *)
TacheInterrompue(p) ==
    \E q \in Ouverts(paris[p].partie) : ClePari("gagne", q) \in caisse.cles

\* A task that was sent for a won match, and has read it with its winner, pays
\* every open bet on the winner and marks every other one lost in the end,
\* whichever bets come to its list meanwhile; the one excuse is a commission of
\* 0.00 on a bet of the same match.  A task that has read the match too early is
\* the business of GagnantJamaisPerdu.
ParisResolus ==
    \A p \in Paris : ARegler(p) ~> ReglePourSonJoueur(p) \/ TacheInterrompue(p)

(* "Pari gagnant -> [...] le joueur recoit le gain net": no bet on the winner *)
(* is ever marked lost.                                                       *)
GagnantJamaisPerdu ==
    [](\A p \in Paris :
         ~ /\ paris[p].statut = "perdu"
           /\ matchs[paris[p].partie].vainqueur = paris[p].sur)

(* "Match annule -> la mise reservee est liberee (jamais deduite)": an open bet *)
(* on an annulled match is given back.                                          *)
PariAnnuleRendu ==
    \A p \in Paris :
        (paris[p].statut = "en_cours" /\ matchs[paris[p].partie].statut = "annule")
          ~> paris[p].statut = "rembourse"

\* The docstring of resoudre_paris makes both of these promises.  This asks for
\* one of them only: a behaviour that refutes it breaks both.
UneReglePourLesParis == GagnantJamaisPerdu \/ PariAnnuleRendu
=============================================================================
