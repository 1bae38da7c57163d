----------------------------- MODULE QuizGlobal -----------------------------
(***************************************************************************)
(* The rooms, the invitations and the stakes of the global quiz:           *)
(* apps/quiz_global/services.py and active_game_service.py.                *)
(*                                                                         *)
(* Every mutation locks the row of its game (select_for_update) and runs   *)
(* in one transaction.atomic block, so it is one action here.  Where the   *)
(* code commits in between (join_game) or acts on what it read before it   *)
(* took the lock (abandonner_parties_bloquees), there are two.             *)
(*                                                                         *)
(* How a started game is played (themes, answers, scores, deadlines) is    *)
(* the business of QuizPhases: here any outcome of a question is possible. *)
(***************************************************************************)
EXTENDS Portefeuille

CONSTANTS Mises,            \* the amounts a player may propose, in cents
          SoldeInitial,     \* what every wallet holds at the start
          BalayageAbandon,  \* is quiz_global_cleanup_abandoned ever run?
          Aucune            \* "no game"

ASSUME MisesHypothese == Mises \subseteq Nat
ASSUME SoldeHypothese == SoldeInitial \in Nat
ASSUME BalayageHypothese == BalayageAbandon \in BOOLEAN
ASSUME AucuneHypothese == Aucune \notin Parties

VARIABLES
    statut,      \* [Parties -> Statuts]: QuizGlobalGame.status
    siegeA,      \* the host: the QuizGlobalPlayer row of seat A
    siegeB,      \* the guest: the row of seat B
    invite,      \* QuizGlobalGame.invited_player
    invitation,  \* the status of the QuizGlobalInvitation of (game, receiver)
    mise,        \* QuizGlobalGame.mise
    proposee,    \* QuizGlobalGame.mise_proposee_invite, 0 when it is NULL
    actif,       \* the QuizGlobalActivePlayer row of each player
    vieux,       \* is cree_le older than WAITING_EXPIRY_SECONDS?
    perimee,     \* is phase_deadline older than ABANDON_TIMEOUT_SECONDS?
    balayage,    \* stuck_ids, while a sweep of stuck games is in progress
    banque       \* the wallets, the platform's capital and the ledger keys

vars == <<statut, siegeA, siegeB, invite, invitation, mise, proposee,
          actif, vieux, perimee, balayage, banque>>
places == <<siegeA, siegeB, mise, proposee>>
salons == <<invite, invitation>>

-----------------------------------------------------------------------------
(* The state machine of a game: errors.py, models.py *)

EnJeu == {"THEME_SELECTION", "QUESTION_READING", "ANSWERING",
          "QUESTION_FINISHED", "TIE_BREAK_THEME"}
Actives == EnJeu \cup {"WAITING"}
Inactives == {"FINISHED", "CANCELLED", "EXPIRED", "ABANDONED"}
Statuts == Actives \cup Inactives \cup {"ABSENTE"}  \* ABSENTE: no such row yet

Transitions(s) ==
    CASE s = "WAITING"           -> {"THEME_SELECTION", "CANCELLED", "EXPIRED"}
      [] s = "THEME_SELECTION"   -> {"QUESTION_READING", "ABANDONED"}
      [] s = "QUESTION_READING"  -> {"ANSWERING", "ABANDONED"}
      [] s = "ANSWERING"         -> {"QUESTION_FINISHED", "ABANDONED"}
      [] s = "QUESTION_FINISHED" -> {"QUESTION_READING", "THEME_SELECTION",
                                     "TIE_BREAK_THEME", "FINISHED", "ABANDONED"}
      [] s = "TIE_BREAK_THEME"   -> {"QUESTION_READING", "FINISHED", "ABANDONED"}
      [] OTHER                   -> {}

(* The statuses whose phase_deadline the sweep of stuck games looks at.  *)
(* THEME_SELECTION has no deadline; TIE_BREAK_THEME never outlives the   *)
(* transaction that enters it.                                           *)
Chronometres == {"QUESTION_READING", "ANSWERING", "QUESTION_FINISHED"}

EtatsInvitation == {"AUCUNE", "PENDING", "ACCEPTED", "CANCELLED", "EXPIRED"}

-----------------------------------------------------------------------------
(* Readings of the state *)

Participants(g) == {siegeA[g], siegeB[g]} \ {Personne}
Pendantes(g) == {u \in Joueurs : invitation[g][u] = "PENDING"}

(* mise_effective: MIN(stake of the host, stake of the guest) *)
Effective(m, p) == IF p = 0 THEN m ELSE Moindre(m, p)
MiseEffective(g) == Effective(mise[g], proposee[g])

(* What u has at stake in g while g is active *)
Enjeu(g, u) == IF /\ statut[g] \in Actives
                  /\ u \in Participants(g)
               THEN MiseEffective(g)
               ELSE 0

(* The rows of a game leave the table of active players *)

\* Faulty: only the row of the host
LiberesHote(G) ==
    [u \in Joueurs |-> IF actif[u] \in G /\ u = siegeA[actif[u]] THEN Aucune
                                                                ELSE actif[u]]

Liberes(G) == [u \in Joueurs |-> IF actif[u] \in G THEN Aucune ELSE actif[u]]

(* The pending invitations of g take status s *)
Closes(g, s) == [u \in Joueurs |-> IF u \in Pendantes(g) THEN s ELSE invitation[g][u]]

LibreHors(u, g) == actif[u] \in {Aucune, g}

-----------------------------------------------------------------------------
Init ==
    /\ statut = [g \in Parties |-> "ABSENTE"]
    /\ siegeA = [g \in Parties |-> Personne]
    /\ siegeB = [g \in Parties |-> Personne]
    /\ invite = [g \in Parties |-> Personne]
    /\ invitation = [g \in Parties |-> [u \in Joueurs |-> "AUCUNE"]]
    /\ mise = [g \in Parties |-> 0]
    /\ proposee = [g \in Parties |-> 0]
    /\ actif = [u \in Joueurs |-> Aucune]
    /\ vieux = [g \in Parties |-> FALSE]
    /\ perimee = [g \in Parties |-> FALSE]
    /\ balayage = {}
    /\ banque = [dispo   |-> [u \in Joueurs |-> SoldeInitial],
                 bloque  |-> [u \in Joueurs |-> 0],
                 gains   |-> [u \in Joueurs |-> 0],
                 capital |-> 0,
                 cles    |-> {}]

-----------------------------------------------------------------------------
(* Rooms *)

(* create_game: u opens room g, for everyone (i = Personne) or for i *)
CreateGame(u, g, i, m) ==
    /\ statut[g] = "ABSENTE"
    /\ i # u
    /\ actif[u] = Aucune
    /\ m <= banque.dispo[u]
    /\ statut' = [statut EXCEPT ![g] = "WAITING"]
    /\ siegeA' = [siegeA EXCEPT ![g] = u]
    /\ invite' = [invite EXCEPT ![g] = i]
    /\ invitation' = [invitation EXCEPT ![g] =
                        [v \in Joueurs |-> IF v = i THEN "PENDING" ELSE "AUCUNE"]]
    /\ mise' = [mise EXCEPT ![g] = m]
    /\ actif' = [actif EXCEPT ![u] = g]
    /\ banque' = IF m > 0 THEN BloquerMise(banque, u, m, CleDe("reserve", g, u))
                          ELSE banque
    /\ UNCHANGED <<siegeB, proposee, vieux, perimee, balayage>>

(* inviter_joueur: the host invites r too; a pending invitation stays as it is *)
InviterJoueur(u, g, r) ==
    /\ statut[g] = "WAITING"
    /\ u = siegeA[g]
    /\ r # u
    /\ r \notin Participants(g)
    /\ r \notin Pendantes(g)
    /\ invitation' = [invitation EXCEPT ![g][r] = "PENDING"]
    /\ invite' = [invite EXCEPT ![g] = IF @ = Personne THEN r ELSE @]
    /\ UNCHANGED <<statut, places, actif, vieux, perimee, balayage, banque>>

(* _realigner_invitation_principale: invited_player names a pending receiver *)
(* (the oldest; which one matters to nobody here), or nobody.                *)

\* Faulty: invited_player stays as it was
RealignerSansEffet(g, pendantes) == UNCHANGED invite

Realigner(g, pendantes) ==
    \E i \in (IF pendantes = {} THEN {Personne} ELSE pendantes) :
        invite' = [invite EXCEPT ![g] = i]

(* annuler_invitation: the host withdraws the invitation of r *)
AnnulerInvitation(u, g, r) ==
    /\ statut[g] = "WAITING"
    /\ u = siegeA[g]
    /\ r \in Pendantes(g)
    /\ invitation' = [invitation EXCEPT ![g][r] = "CANCELLED"]
    /\ Realigner(g, Pendantes(g) \ {r})
    /\ UNCHANGED <<statut, places, actif, vieux, perimee, balayage, banque>>

PeutRefuser(u, g) ==
    /\ statut[g] = "WAITING"
    /\ u \in Pendantes(g) \/ invite[g] = u

(* refuser_invitation, when others are still invited: the room stays open *)
RefuserEtGarder(u, g) ==
    /\ PeutRefuser(u, g)
    /\ Pendantes(g) \ {u} # {}
    /\ invitation' = [invitation EXCEPT ![g][u] =
                        IF u \in Pendantes(g) THEN "CANCELLED" ELSE @]
    /\ Realigner(g, Pendantes(g) \ {u})
    /\ UNCHANGED <<statut, places, actif, vieux, perimee, balayage, banque>>

(* _liberer_mise_hote: the host of a room gets the whole stake back *)

\* Faulty: the room closes and the stake stays blocked
LibererMiseHoteOubliee(g, motif) == banque

LibererMiseHote(g, motif) ==
    IF mise[g] = 0 THEN banque
    ELSE LibererMise(banque, siegeA[g], mise[g], CleDe(motif, g, siegeA[g]))

(* A room closes without a game: its invitations take status s *)
FermerSalon(g, nouveau, s, motif) ==
    /\ nouveau \in Transitions(statut[g])
    /\ statut' = [statut EXCEPT ![g] = nouveau]
    /\ invite' = [invite EXCEPT ![g] = Personne]
    /\ invitation' = [invitation EXCEPT ![g] = Closes(g, s)]
    /\ actif' = Liberes({g})
    /\ banque' = LibererMiseHote(g, motif)
    /\ UNCHANGED <<places, vieux, perimee, balayage>>

(* refuser_invitation of the last invited player cancels the room *)
RefuserEtFermer(u, g) ==
    /\ PeutRefuser(u, g)
    /\ Pendantes(g) \ {u} = {}
    /\ FermerSalon(g, "CANCELLED", "CANCELLED", "refus")

(* cree_le falls behind the cutoff of five minutes *)
Vieillir(g) ==
    /\ statut[g] = "WAITING"
    /\ ~vieux[g]
    /\ vieux' = [vieux EXCEPT ![g] = TRUE]
    /\ UNCHANGED <<statut, places, salons, actif, perimee, balayage, banque>>

(* _expirer_salon, as the periodic sweep, a get or a join calls it.  A sweep  *)
(* of several rooms is a sequence of these steps: each one tests the status   *)
(* again under the lock of its game.                                          *)

\* Faulty: a room somebody was invited to never expires
ExpirerSalonPublic(g) ==
    /\ statut[g] = "WAITING"
    /\ vieux[g]
    /\ invite[g] = Personne
    /\ FermerSalon(g, "EXPIRED", "EXPIRED", "expiration")

ExpirerSalon(g) ==
    /\ statut[g] = "WAITING"
    /\ vieux[g]
    /\ FermerSalon(g, "EXPIRED", "EXPIRED", "expiration")

-----------------------------------------------------------------------------
(* Joining *)

\* Faulty: the players are not reserved
PeutRejoindreSansReserver(u, g) ==
    /\ statut[g] = "WAITING"
    /\ u \notin Participants(g)
    /\ invite[g] # Personne =>
         u \in (IF Pendantes(g) = {} THEN {invite[g]} ELSE Pendantes(g))
    /\ siegeB[g] = Personne

\* Faulty: the host may join his own room
PeutRejoindreSoiMeme(u, g) ==
    /\ statut[g] = "WAITING"
    /\ LibreHors(u, g)
    /\ invite[g] # Personne =>
         u \in (IF Pendantes(g) = {} THEN {invite[g]} ELSE Pendantes(g))
    /\ siegeB[g] = Personne

PeutRejoindre(u, g) ==
    /\ statut[g] = "WAITING"
    /\ LibreHors(u, g)
    /\ LibreHors(siegeA[g], g)
    /\ u \notin Participants(g)
    /\ invite[g] # Personne =>
         u \in (IF Pendantes(g) = {} THEN {invite[g]} ELSE Pendantes(g))
    /\ siegeB[g] = Personne

(* A proposal of 0 to a room with a stake is refused by bloquer_mise *)
PeutProposer(u, g, p) ==
    IF mise[g] = 0 THEN p = 0
                   ELSE PeutBloquer(banque, u, p, CleDe("reserve", g, u))

(* The stake p of the guest is blocked, and what exceeds the effective stake *)
(* is given back, to the host or to the guest.  engager_mise writes a ledger *)
(* entry and moves nothing.                                                  *)

\* Faulty: the surplus of the host stays blocked
MisesEngageesSansSurplus(u, g, p) ==
    LET eff == Effective(mise[g], p)
        b1  == BloquerMise(banque, u, p, CleDe("reserve", g, u))
    IN  IF p > eff THEN LibererMise(b1, u, p - eff, CleDe("surplus", g, u)) ELSE b1

\* Faulty: the surplus of the guest is given back under the key of a refund
MisesEngageesCleReprise(u, g, p) ==
    LET h   == siegeA[g]
        eff == Effective(mise[g], p)
        b1  == BloquerMise(banque, u, p, CleDe("reserve", g, u))
        b2  == IF mise[g] > eff
               THEN LibererMise(b1, h, mise[g] - eff, CleDe("surplus", g, h))
               ELSE b1
    IN  IF p > eff
        THEN LibererMise(b2, u, p - eff, CleDe("abandon", g, u))
        ELSE b2

MisesEngagees(u, g, p) ==
    LET h   == siegeA[g]
        eff == Effective(mise[g], p)
        b1  == BloquerMise(banque, u, p, CleDe("reserve", g, u))
        b2  == IF mise[g] > eff
               THEN LibererMise(b1, h, mise[g] - eff, CleDe("surplus", g, h))
               ELSE b1
    IN  IF p > eff
        THEN LibererMise(b2, u, p - eff, CleDe("surplus", g, u))
        ELSE b2

(* join_game, its second transaction.  The first one is ExpirerSalon when the *)
(* room is too old; it is committed before this one locks the game, and this  *)
(* one tests the status again but not the age.                                *)
JoinGame(u, g, p) ==
    /\ PeutRejoindre(u, g)
    /\ PeutProposer(u, g, p)
    /\ "THEME_SELECTION" \in Transitions(statut[g])
    /\ statut' = [statut EXCEPT ![g] = "THEME_SELECTION"]
    /\ siegeB' = [siegeB EXCEPT ![g] = u]
    /\ proposee' = [proposee EXCEPT ![g] = p]
    /\ actif' = [actif EXCEPT ![u] = g]
    /\ invitation' = [invitation EXCEPT ![g] =
                        [Closes(g, "EXPIRED") EXCEPT ![u] = "ACCEPTED"]]
    /\ banque' = IF mise[g] = 0 THEN banque ELSE MisesEngagees(u, g, p)
    /\ UNCHANGED <<siegeA, invite, mise, vieux, perimee, balayage>>

-----------------------------------------------------------------------------
(* Playing *)

(* g moves to status s of the game in progress, with a new deadline (or none) *)
Avancer(g, s) ==
    /\ s \in Transitions(statut[g])
    /\ statut' = [statut EXCEPT ![g] = s]
    /\ perimee' = [perimee EXCEPT ![g] = FALSE]
    /\ UNCHANGED <<places, salons, actif, vieux, balayage, banque>>

(* select_theme, and the tick that ends the reading, the answering and the  *)
(* display of the result, when the game goes on: to the next turn or to a   *)
(* tie-break question.                                                      *)
SelectTheme(g) == statut[g] = "THEME_SELECTION" /\ Avancer(g, "QUESTION_READING")
StartAnswering(g) == statut[g] = "QUESTION_READING" /\ Avancer(g, "ANSWERING")
FinishQuestion(g) == statut[g] = "ANSWERING" /\ Avancer(g, "QUESTION_FINISHED")
AdvanceAfterResult(g) ==
    /\ statut[g] = "QUESTION_FINISHED"
    /\ \E s \in {"THEME_SELECTION", "QUESTION_READING"} : Avancer(g, s)

(* The effective stake goes back to every participant: _rembourser_mises of *)
(* an annulation, and the draw of _finish_game                              *)
RembourserMises(g, motif) ==
    LET a  == siegeA[g]
        b  == siegeB[g]
        m  == MiseEffective(g)
        b1 == LibererMise(banque, a, m, CleDe(motif, g, a))
    IN  IF mise[g] = 0 THEN banque
        ELSE IF b = Personne THEN b1
        ELSE LibererMise(b1, b, m, CleDe(motif, g, b))

(* _finish_game with a winner, who is paid by regler_duel; it is called when *)
(* a question is over, and raises when there is nothing to pay the platform. *)
FinishGame(g, w) ==
    LET l == IF w = siegeA[g] THEN siegeB[g] ELSE siegeA[g]
    IN  /\ statut[g] = "QUESTION_FINISHED"
        /\ w \in Participants(g)
        /\ mise[g] > 0 => PeutRegler(banque, MiseEffective(g), g)
        /\ statut' = [statut EXCEPT ![g] = "FINISHED"]
        /\ perimee' = [perimee EXCEPT ![g] = FALSE]
        /\ invitation' = [invitation EXCEPT ![g] = Closes(g, "EXPIRED")]
        /\ actif' = Liberes({g})
        /\ banque' = IF mise[g] > 0
                     THEN ReglerDuel(banque, w, l, MiseEffective(g), g)
                     ELSE banque
        /\ UNCHANGED <<places, invite, vieux, balayage>>

(* _finish_game without a winner: no question is left to break the tie *)
FinishDraw(g) ==
    /\ statut[g] = "QUESTION_FINISHED"
    /\ statut' = [statut EXCEPT ![g] = "FINISHED"]
    /\ perimee' = [perimee EXCEPT ![g] = FALSE]
    /\ invitation' = [invitation EXCEPT ![g] = Closes(g, "EXPIRED")]
    /\ actif' = Liberes({g})
    /\ banque' = RembourserMises(g, "egalite")
    /\ UNCHANGED <<places, invite, vieux, balayage>>

(* annuler_game: the host closes a room, a participant leaves a started game *)
AnnulerGame(u, g) ==
    LET salon   == statut[g] = "WAITING"
        nouveau == IF salon THEN "CANCELLED" ELSE "ABANDONED"
    IN  /\ u \in Participants(g)
        /\ statut[g] \notin Inactives
        /\ salon => u = siegeA[g]
        /\ nouveau \in Transitions(statut[g])
        /\ statut' = [statut EXCEPT ![g] = nouveau]
        /\ invite' = [invite EXCEPT ![g] = Personne]
        /\ perimee' = [perimee EXCEPT ![g] = FALSE]
        /\ invitation' = [invitation EXCEPT ![g] = Closes(g, "CANCELLED")]
        /\ actif' = Liberes({g})
        /\ banque' = RembourserMises(g, IF salon THEN "annulation" ELSE "abandon")
        /\ UNCHANGED <<places, vieux, balayage>>

(* revanche_game: u plays the finished game g again, as game n, against the *)
(* same opponent and for the stake of the host of g                         *)
Revanche(u, g, n) ==
    LET adversaire == IF u = siegeA[g] THEN siegeB[g] ELSE siegeA[g]
        libres     == Liberes({g})
        m          == mise[g]
        b1         == BloquerMise(banque, u, m, CleDe("reserve", n, u))
    IN  /\ statut[g] = "FINISHED"
        /\ statut[n] = "ABSENTE"
        /\ u \in Participants(g)
        /\ adversaire # Personne
        /\ libres[u] = Aucune
        /\ libres[adversaire] = Aucune
        /\ m > 0 => /\ PeutBloquer(banque, u, m, CleDe("reserve", n, u))
                    /\ PeutBloquer(b1, adversaire, m, CleDe("reserve", n, adversaire))
        /\ statut' = [statut EXCEPT ![n] = "THEME_SELECTION"]
        /\ siegeA' = [siegeA EXCEPT ![n] = u]
        /\ siegeB' = [siegeB EXCEPT ![n] = adversaire]
        /\ mise' = [mise EXCEPT ![n] = m]
        /\ actif' = [libres EXCEPT ![u] = n, ![adversaire] = n]
        /\ banque' = IF m > 0
                     THEN BloquerMise(b1, adversaire, m, CleDe("reserve", n, adversaire))
                     ELSE banque
        /\ UNCHANGED <<invite, invitation, proposee, vieux, perimee, balayage>>

-----------------------------------------------------------------------------
(* The sweep of stuck games: abandonner_parties_bloquees *)

(* Nobody sends a tick: the deadline of g is two minutes behind.  A tick that *)
(* comes after all still moves the game on.                                   *)
Stagner(g) ==
    /\ statut[g] \in Chronometres
    /\ ~perimee[g]
    /\ perimee' = [perimee EXCEPT ![g] = TRUE]
    /\ UNCHANGED <<statut, places, salons, actif, vieux, balayage, banque>>

(* The sweep reads stuck_ids without locking anything *)
ListerBloquees ==
    /\ BalayageAbandon
    /\ balayage = {}
    /\ balayage' = {g \in Parties : perimee[g]}
    /\ UNCHANGED <<statut, places, salons, actif, vieux, perimee, banque>>

\* Faulty: a game that is over is abandoned like any other
BalayageLeveJamais == FALSE

(* A game that is over meanwhile makes validate_transition raise *)
BalayageLeve == \E g \in balayage : "ABANDONED" \notin Transitions(statut[g])

(* The sweep then locks each of them and abandons it, whatever became of it,  *)
(* or rolls back as a whole.  No stake is given back.                         *)
AbandonnerBloquees ==
    /\ balayage # {}
    /\ balayage' = {}
    /\ \/ /\ ~BalayageLeve
          /\ statut' = [g \in Parties |-> IF g \in balayage THEN "ABANDONED"
                                                            ELSE statut[g]]
          /\ perimee' = [g \in Parties |-> perimee[g] /\ g \notin balayage]
          /\ invitation' = [g \in Parties |-> IF g \in balayage
                                              THEN Closes(g, "EXPIRED")
                                              ELSE invitation[g]]
          /\ actif' = Liberes(balayage)
       \/ /\ BalayageLeve
          /\ UNCHANGED <<statut, perimee, invitation, actif>>
    /\ UNCHANGED <<places, invite, vieux, banque>>

-----------------------------------------------------------------------------
Jouer(g) ==
    \/ SelectTheme(g) \/ StartAnswering(g) \/ FinishQuestion(g)
    \/ AdvanceAfterResult(g) \/ FinishDraw(g) \/ Stagner(g)
    \/ \E w \in Joueurs : FinishGame(g, w)

Next ==
    \/ \E u \in Joueurs, g \in Parties :
          \/ \E i \in Joueurs \cup {Personne}, m \in Mises : CreateGame(u, g, i, m)
          \/ \E r \in Joueurs : InviterJoueur(u, g, r) \/ AnnulerInvitation(u, g, r)
          \/ \E p \in Mises : JoinGame(u, g, p)
          \/ \E n \in Parties : Revanche(u, g, n)
          \/ RefuserEtGarder(u, g)
          \/ RefuserEtFermer(u, g)
          \/ AnnulerGame(u, g)
    \/ \E g \in Parties : Vieillir(g) \/ ExpirerSalon(g) \/ Jouer(g)
    \/ ListerBloquees
    \/ AbandonnerBloquees

(* Time passes, and Celery beat sweeps the waiting rooms every minute. *)
Fairness == \A g \in Parties : WF_vars(Vieillir(g)) /\ WF_vars(ExpirerSalon(g))

Spec == Init /\ [][Next]_vars /\ Fairness

-----------------------------------------------------------------------------
(* Properties *)

\* The types of the variables: every status, seat, stake and balance of the
\* rows is one that models.py allows, and no balance is ever negative.
TypeOK ==
    /\ statut \in [Parties -> Statuts]
    /\ siegeA \in [Parties -> Joueurs \cup {Personne}]
    /\ siegeB \in [Parties -> Joueurs \cup {Personne}]
    /\ invite \in [Parties -> Joueurs \cup {Personne}]
    /\ invitation \in [Parties -> [Joueurs -> EtatsInvitation]]
    /\ mise \in [Parties -> Nat]
    /\ proposee \in [Parties -> Nat]
    /\ actif \in [Joueurs -> Parties \cup {Aucune}]
    /\ vieux \in [Parties -> BOOLEAN]
    /\ perimee \in [Parties -> BOOLEAN]
    /\ balayage \in SUBSET Parties
    /\ banque \in Banques

\* The table of active players says exactly who plays: a player has a row for
\* g if and only if g is active and he has a seat in it.  So nobody plays two
\* games at once, whatever creations, joins and rematches run together, and
\* nobody stays locked out by a game that is over.
UnePartieActive ==
    \A u \in Joueurs, g \in Parties :
        actif[u] = g <=> statut[g] \in Actives /\ u \in Participants(g)

\* The seats follow the status: a room has a host and no guest, a game that
\* was started has two different players.
Sieges ==
    \A g \in Parties :
        /\ statut[g] = "ABSENTE" => siegeA[g] = Personne /\ siegeB[g] = Personne
        /\ statut[g] \in {"WAITING", "CANCELLED", "EXPIRED"} =>
             siegeA[g] # Personne /\ siegeB[g] = Personne
        /\ statut[g] \in EnJeu \cup {"FINISHED", "ABANDONED"} =>
             siegeA[g] # Personne /\ siegeB[g] # Personne /\ siegeA[g] # siegeB[g]

\* The guard of join_game can be trusted: a waiting room is private
\* (invited_player is set) exactly while an invitation is pending, and then
\* invited_player is one of those invited.  No invitation is left pending on
\* a room that has closed or a game that has started.
InvitationsCoherentes ==
    \A g \in Parties :
        IF statut[g] = "WAITING"
        THEN IF Pendantes(g) = {} THEN invite[g] = Personne
                                  ELSE invite[g] \in Pendantes(g)
        ELSE Pendantes(g) = {}

\* No idempotency key swallows a move of money that is still to come: a key
\* of a reservation belongs to somebody who sits in the game, of a surplus to a
\* game that was started, and any other key to a game that is over.
CleValide(k) ==
    CASE k.op = "reserve" -> k.qui \in Participants(k.partie)
      [] k.op = "surplus" -> statut[k.partie] \notin {"ABSENTE", "WAITING"}
      [] OTHER            -> statut[k.partie] \in Inactives
ClesFraiches == \A k \in banque.cles : CleValide(k)

\* Whoever plays has the stake of his game in solde_bloque: the min() of
\* liberer_mise, consommer_mise and payer_gain never cuts an amount.
Solvabilite ==
    \A g \in Parties, u \in Joueurs : Enjeu(g, u) <= banque.bloque[u]

\* Nothing stays blocked for nothing: solde_bloque is the stake of the game
\* the player is in, and 0 when he plays no game ("les mises ... sont
\* remboursees et les deux joueurs sont liberes").
AucuneMiseOubliee ==
    \A u \in Joueurs :
        banque.bloque[u] = IF actif[u] = Aucune THEN 0 ELSE Enjeu(actif[u], u)

\* Only the loser of a duel loses money, in the step that finishes his game,
\* and he loses the effective stake of that game and no more.
SeulLePerdantPaie ==
    [][\A u \in Joueurs :
          Avoir(banque', u) < Avoir(banque, u) =>
            \E g \in Parties :
                /\ statut[g] \in EnJeu /\ statut'[g] = "FINISHED"
                /\ u \in Participants(g)
                /\ Avoir(banque', u) + MiseEffective(g) = Avoir(banque, u)]_vars

\* A game that is over stays as it is, and its wallets are settled or
\* refunded only once: after its last step no key of the game enters the ledger.
ReglementUnique ==
    [][\A g \in Parties :
          statut[g] \in Inactives =>
            /\ statut'[g] = statut[g]
            /\ {k \in banque'.cles : k.partie = g} = {k \in banque.cles : k.partie = g}]_vars

\* A room that nobody joins does not stay open for ever.
SalonNeTrainePas ==
    \A g \in Parties : statut[g] = "WAITING" ~> statut[g] # "WAITING"

-----------------------------------------------------------------------------
(* Refinement: one blocked balance per player implements an escrow per game. *)

Contrat == INSTANCE Sequestre WITH
    SoldeDepart <- SoldeInitial,
    etat    <- [g \in Parties |->
                  CASE statut[g] = "ABSENTE" -> "absent"
                    [] statut[g] = "WAITING" -> "ouvert"
                    [] statut[g] \in EnJeu   -> "engage"
                    [] OTHER                 -> "clos"],
    depot   <- [g \in Parties |-> [u \in Joueurs |-> Enjeu(g, u)]],
    libre   <- [u \in Joueurs |-> banque.dispo[u] + banque.gains[u]],
    capital <- banque.capital

\* Without the sweep of stuck games, every stake that is put into a game comes
\* out of it once: to its owner, or to the winner less the platform's share.
RespecteLeContrat == Contrat!Spec

=============================================================================
