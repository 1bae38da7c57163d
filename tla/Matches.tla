------------------------------ MODULE Matches ------------------------------
(***************************************************************************)
(* The matches of apps/matches/services.py around their turns: creation,   *)
(* join, annulment, the invitations of a rabbit race, its launch, and the  *)
(* closing with its settlement.  What happens in a turn is MatchTours;     *)
(* here a match in progress may be closed at any time, with any outcome.   *)
(*                                                                         *)
(* creer, rejoindre, annuler, accepter, refuser and _cloturer each lock    *)
(* the row of the match (or create it) in one transaction.  inviter and    *)
(* lancer do not: they read the row, check it, and later write the fields  *)
(* they change.  They are two steps here, and for each match the model     *)
(* has one such call of each kind in flight at a time.                     *)
(*                                                                         *)
(* A race has no turns, so nothing ever calls _cloturer for it.            *)
(***************************************************************************)
EXTENDS Portefeuille, FiniteSets, FiniteSetsExt

CONSTANTS MisesMatch, \* the stakes to look at
          SoldeMatch, \* what each wallet holds at the start
          Courses,    \* the matches that are races, if they are created
          Duellistes  \* the users that may play each match

ASSUME MisesMatchHypothese == MisesMatch \subseteq Nat
ASSUME SoldeMatchHypothese == SoldeMatch \in Nat
ASSUME CoursesHypothese == Courses \subseteq Parties
ASSUME DuellistesHypothese == Duellistes \in [Parties -> SUBSET Joueurs]

VARIABLES
    matchs,   \* the row of each match
    enVol,    \* what the calls of inviter and lancer that have read will write
    caisse    \* the wallets, the platform and the ledger

StatutsMatch == {"absent", "en_attente", "en_cours", "termine", "annule"}
Utilisateurs == Joueurs \cup {Personne}

(* mise_proposee_invite is 0 where the code has None or 0: mise_effective,  *)
(* its only reader, treats them alike.  prete: commence_le is set.          *)
LignesMatch ==
    [statut : StatutsMatch, hote : Utilisateurs, invite : Utilisateurs,
     mise : MisesMatch \cup {0}, proposee : MisesMatch \cup {0},
     prete : BOOLEAN, vainqueur : Utilisateurs]

Absent ==
    [statut |-> "absent", hote |-> Personne, invite |-> Personne, mise |-> 0,
     proposee |-> 0, prete |-> FALSE, vainqueur |-> Personne]

EnVols == [inviter : Utilisateurs, lancer : BOOLEAN]

matchVars == <<matchs, enVol, caisse>>

MatchesInit ==
    /\ matchs = [g \in Parties |-> Absent]
    /\ enVol = [g \in Parties |-> [inviter |-> Personne, lancer |-> FALSE]]
    /\ caisse = [dispo   |-> [u \in Joueurs |-> SoldeMatch],
                 bloque  |-> [u \in Joueurs |-> 0],
                 gains   |-> [u \in Joueurs |-> 0],
                 capital |-> 0,
                 cles    |-> {}]

-----------------------------------------------------------------------------
MiseEffectiveMatch(r) == IF r.proposee = 0 THEN r.mise ELSE Moindre(r.mise, r.proposee)

(* type_jeu: the other matches are classic or "intrus", alike here *)
EstLapin(g) == g \in Courses

(* liberer_mise for a user who may be nobody *)
Rendre(b, u, m, op, g) ==
    IF u = Personne \/ m = 0 THEN b ELSE LibererMise(b, u, m, CleDe(op, g, u))

-----------------------------------------------------------------------------
(* creer_partie.  A match without stake blocks nothing. *)

Creer(u, g, m) ==
    /\ matchs[g].statut = "absent"
    /\ m > 0 => m <= caisse.dispo[u] /\ PeutBloquer(caisse, u, m, CleDe("reserve", g, u))
    /\ matchs' = [matchs EXCEPT ![g] =
                    [@ EXCEPT !.statut = "en_attente", !.hote = u, !.mise = m]]
    /\ caisse' = IF m = 0 THEN caisse
                 ELSE BloquerMise(caisse, u, m, CleDe("reserve", g, u))
    /\ UNCHANGED enVol

(* rejoindre_partie with the stake p: what exceeds the effective stake goes *)
(* back to its owner.  A race may be joined so as well.                     *)

\* Faulty: the surplus of the host stays blocked
EngagerSansSurplus(b, g, u, p) ==
    LET r == matchs[g]
        b1 == BloquerMise(b, u, p, CleDe("reserve", g, u))
    IN  IF r.mise = 0 THEN b
        ELSE Rendre(b1, u, p - Moindre(r.mise, p), "surplus", g)

Engager(b, g, u, p) ==
    LET r == matchs[g]
        eff == Moindre(r.mise, p)
        b1 == BloquerMise(b, u, p, CleDe("reserve", g, u))
        b2 == Rendre(b1, r.hote, r.mise - eff, "surplus", g)
    IN  IF r.mise = 0 THEN b ELSE Rendre(b2, u, p - eff, "surplus", g)

Rejoindre(u, g, p) ==
    /\ matchs[g].statut = "en_attente"
    /\ matchs[g].invite = Personne
    /\ matchs[g].hote # u
    /\ IF matchs[g].mise = 0 THEN p = 0
       ELSE p <= caisse.dispo[u] /\ PeutBloquer(caisse, u, p, CleDe("reserve", g, u))
    /\ matchs' = [matchs EXCEPT ![g] =
                    [@ EXCEPT !.invite = u, !.statut = "en_cours", !.prete = TRUE,
                              !.proposee = p]]
    /\ caisse' = Engager(caisse, g, u, p)
    /\ UNCHANGED enVol

(* annuler_partie: the stake of the match for the host, and for the guest of *)
(* a race whether he has accepted or not                                     *)

Annuler(u, g) ==
    LET r == matchs[g]
    IN  /\ r.hote = u
        /\ r.statut = "en_attente"
        /\ matchs' = [matchs EXCEPT ![g].statut = "annule"]
        /\ caisse' = Rendre(Rendre(caisse, r.hote, r.mise, "annulation", g),
                            r.invite, r.mise, "annulation", g)
        /\ UNCHANGED enVol

-----------------------------------------------------------------------------
(* inviter_joueur_course_lapin: the checks, then the write.  Inviting again *)
(* the same user changes nothing.                                           *)

InviterLit(u, g, v) ==
    /\ EstLapin(g)
    /\ matchs[g].statut = "en_attente"
    /\ matchs[g].hote = u
    /\ v # u
    /\ matchs[g].invite = Personne
    /\ enVol[g].inviter = Personne
    /\ enVol' = [enVol EXCEPT ![g].inviter = v]
    /\ UNCHANGED <<matchs, caisse>>

InviterEcrit(g) ==
    /\ enVol[g].inviter # Personne
    /\ matchs' = [matchs EXCEPT ![g].invite = enVol[g].inviter, ![g].prete = FALSE]
    /\ enVol' = [enVol EXCEPT ![g].inviter = Personne]
    /\ UNCHANGED caisse

(* accepter_invitation_course_lapin, for the guest or for anyone when the *)
(* race has none                                                          *)
Accepter(u, g) ==
    LET r == matchs[g]
        cle == CleDe("reserve", g, u)
    IN  /\ EstLapin(g)
        /\ r.statut = "en_attente"
        /\ r.hote # u
        /\ r.invite \in {u, Personne}
        /\ r.mise > 0 => r.mise <= caisse.dispo[u] /\ PeutBloquer(caisse, u, r.mise, cle)
        /\ matchs' = [matchs EXCEPT ![g] =
                        [@ EXCEPT !.invite = u, !.prete = TRUE, !.proposee = r.mise]]
        /\ caisse' = IF r.mise = 0 THEN caisse ELSE BloquerMise(caisse, u, r.mise, cle)
        /\ UNCHANGED enVol

(* refuser_invitation_course_lapin, by the guest or by the host: the guest *)
(* gets the stake of the match released, whether he has accepted or not    *)
Refuser(u, g) ==
    LET r == matchs[g]
    IN  /\ EstLapin(g)
        /\ r.statut = "en_attente"
        /\ u \in {r.hote, r.invite}
        /\ r.invite # Personne
        /\ matchs' = [matchs EXCEPT ![g] =
                        [@ EXCEPT !.invite = Personne, !.prete = FALSE, !.proposee = 0]]
        /\ caisse' = Rendre(caisse, r.invite, r.mise, "refus", g)
        /\ UNCHANGED enVol

(* lancer_course_lapin: the status is neither read nor checked, only written *)
LancerLit(u, g) ==
    /\ EstLapin(g)
    /\ matchs[g].hote = u
    /\ matchs[g].invite # Personne
    /\ matchs[g].prete
    /\ ~enVol[g].lancer
    /\ enVol' = [enVol EXCEPT ![g].lancer = TRUE]
    /\ UNCHANGED <<matchs, caisse>>

LancerEcrit(g) ==
    /\ enVol[g].lancer
    /\ matchs' = [matchs EXCEPT ![g].statut = "en_cours"]
    /\ enVol' = [enVol EXCEPT ![g].lancer = FALSE]
    /\ UNCHANGED caisse

-----------------------------------------------------------------------------
\* Faulty: the status is not looked at again under the lock
CloturableToujours(g) == matchs[g].invite # Personne /\ ~EstLapin(g)

(* A turn was answered, so it is not a race; a match is closed once *)
Cloturable(g) == matchs[g].statut = "en_cours" /\ ~EstLapin(g)

(* _cloturer, on a draw: both stakes go back *)
CloturerNul(g) ==
    LET r == matchs[g]
        eff == MiseEffectiveMatch(r)
    IN  /\ Cloturable(g)
        /\ matchs' = [matchs EXCEPT ![g].statut = "annule"]
        /\ caisse' = Rendre(Rendre(caisse, r.hote, eff, "egalite", g),
                            r.invite, eff, "egalite", g)
        /\ UNCHANGED enVol

\* Faulty: the effective stake is taken for the stake of the host
ReglerMiseHote(b, g, w, l) ==
    IF matchs[g].mise = 0 THEN b ELSE ReglerDuel(b, w, l, matchs[g].mise, g)

Regler(b, g, w, l) ==
    IF matchs[g].mise = 0 THEN b ELSE ReglerDuel(b, w, l, MiseEffectiveMatch(matchs[g]), g)

(* _cloturer with the winner w *)
Cloturer(g, w) ==
    LET r == matchs[g]
        l == IF w = r.hote THEN r.invite ELSE r.hote
    IN  /\ Cloturable(g)
        /\ w \in {r.hote, r.invite}
        /\ r.mise > 0 => PeutRegler(caisse, MiseEffectiveMatch(r), g)
        /\ matchs' = [matchs EXCEPT ![g].statut = "termine", ![g].vainqueur = w]
        /\ caisse' = Regler(caisse, g, w, l)
        /\ UNCHANGED enVol

-----------------------------------------------------------------------------
HorsVictoire ==
    \/ \E g \in Parties : \E u \in Duellistes[g] :
          \/ \E m \in MisesMatch : Creer(u, g, m)
          \/ \E p \in MisesMatch : Rejoindre(u, g, p)
          \/ Annuler(u, g)
          \/ \E v \in Duellistes[g] : InviterLit(u, g, v)
          \/ Accepter(u, g)
          \/ Refuser(u, g)
          \/ LancerLit(u, g)
    \/ \E g \in Parties :
          \/ InviterEcrit(g)
          \/ LancerEcrit(g)
          \/ CloturerNul(g)

MatchesNext == HorsVictoire \/ \E g \in Parties, w \in Joueurs : Cloturer(g, w)

MatchesSpec == MatchesInit /\ [][MatchesNext]_matchVars

-----------------------------------------------------------------------------
(* Properties *)

\* The rows and the calls in flight have legal values, and no balance is negative.
TypeOKMatchs ==
    /\ matchs \in [Parties -> LignesMatch]
    /\ enVol \in [Parties -> EnVols]
    /\ caisse \in Banques

(* u has a stake in g that he reserved and that nothing gave back *)
Engagement(g, u) ==
    LET r == matchs[g]
    IN  IF /\ u \in {r.hote, r.invite}
           /\ r.statut \in {"en_attente", "en_cours"}
           /\ CleDe("reserve", g, u) \in caisse.cles
           /\ \A op \in {"annulation", "refus"} : CleDe(op, g, u) \notin caisse.cles
        THEN MiseEffectiveMatch(r) ELSE 0

(* A race has given u something back as a guest *)
RenduParCourse(u) ==
    \E g \in Parties : /\ EstLapin(g) /\ u # matchs[g].hote
                       /\ \E op \in {"annulation", "refus", "surplus"} :
                             CleDe(op, g, u) \in caisse.cles

(* What u has staked in all matches *)
Engage(u) == MapThenSumSet(LAMBDA g : Engagement(g, u), Parties)

\* The stakes of a player stay blocked until his matches are over, whatever
\* matches others annul, join and close meanwhile, and nothing else is blocked
\* unless a race took part in it.  A race that gives a guest something back,
\* reserved or not, is left out: RefusRendReserve is about that.
MisesCouvertes ==
    \A u \in Joueurs :
        ~RenduParCourse(u) =>
            /\ caisse.bloque[u] >= Engage(u)
            /\ (\A g \in Courses : CleDe("reserve", g, u) \notin caisse.cles)
                  => caisse.bloque[u] = Engage(u)

\* No money appears or disappears as long as no race gave back what was not
\* reserved in it.
ConservationMatchs ==
    (\A u \in Joueurs : ~RenduParCourse(u)) =>
        MapThenSumSet(LAMBDA u : Avoir(caisse, u), Joueurs) + caisse.capital
          = Cardinality(Joueurs) * SoldeMatch

\* A match is either given back or paid out, never both, whatever annulments,
\* refusals and closings race with each other.
UneSeuleIssue ==
    \A g \in Parties :
        CleDe("gagnant", g, Personne) \in caisse.cles =>
            \A u \in Joueurs, op \in {"annulation", "refus", "egalite"} :
                CleDe(op, g, u) \notin caisse.cles

\* A refusal gives back only what the guest had reserved ("Si l'invite avait deja
\* reserve sa mise (accepte puis retire avant lancement), on libere la somme
\* reservee"): nothing is released to a guest who has not accepted.
RefusRendReserve ==
    [][\A g \in Parties, u \in Joueurs :
          /\ CleDe("refus", g, u) \notin caisse.cles
          /\ CleDe("refus", g, u) \in caisse'.cles
          /\ CleDe("reserve", g, u) \notin caisse.cles
          => caisse'.bloque[u] = caisse.bloque[u]]_matchVars

\* Nobody becomes poorer but the loser of a match that has just been won, and
\* he loses at most the smaller of the two stakes.
SeulLePerdantPaieMatchs ==
    [][\A u \in Joueurs :
          Avoir(caisse', u) < Avoir(caisse, u) =>
            \E g \in Parties :
               /\ matchs[g].statut = "en_cours" /\ matchs'[g].statut = "termine"
               /\ u \in {matchs[g].hote, matchs[g].invite} \ {matchs'[g].vainqueur}
               /\ Avoir(caisse, u) - Avoir(caisse', u) <= MiseEffectiveMatch(matchs[g])]_matchVars
=============================================================================
