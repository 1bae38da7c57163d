-------------------------------- MODULE Rps --------------------------------
(***************************************************************************)
(* Rock, paper, scissors: the challenges and the matches that live in the  *)
(* cache only (apps/matches/services.py).  jouer_coup reads a match, plays *)
(* in the copy and writes it back; when both have played it writes again,  *)
(* with the round judged.  A call that finds nothing to do writes back     *)
(* what it has read all the same.  Every reading and every writing is a    *)
(* step, and any call may come between.                                    *)
(***************************************************************************)
EXTENDS Magasin

CONSTANTS Defis,     \* the keys of RPS_CHALLENGES, uuid4 in the code
          Duels,     \* the keys of RPS_MATCHES
          Cibles,    \* the values of score_cible to look at
          Joues,     \* the matches that are played, and the last round in
          MancheMax  \* which a move is begun: bounds of the model

ASSUME CiblesHypothese == Cibles \subseteq Nat \ {0}
ASSUME JouesHypothese == Joues \subseteq Duels
ASSUME MancheMaxHypothese == MancheMax \in Nat

VARIABLES
    defis,   \* the entry of each challenge
    duels,   \* the entry of each match
    uses,    \* the keys that were used: a uuid comes only once
    appels   \* the calls in flight

Coups == {"pierre", "papier", "ciseaux"}
FormeDefi == [de : Utilisateurs, a : Utilisateurs, cible : Cibles]
FormeDuel ==
    [hote : Utilisateurs, invite : Utilisateurs, cible : Cibles, score : [Roles -> Nat],
     manche : Nat, coups : [Roles -> Coups \cup {Rien}],
     statut : {"en_cours", "termine"}, gagnant : Roles \cup {Rien}]

(* What a call will write next *)
FormeCoup == [op : {"reecrire", "coup", "manche"}, duel : Duels, copie : FormeDuel]
FormeAcceptation == [op : {"accepter"}, defi : Defis, lu : FormeDefi]
ASSUME RpsRienHypothese ==
    Rien \notin Coups \cup Roles \cup FormeDefi \cup FormeDuel \cup FormeCoup \cup FormeAcceptation

rpsVars == <<defis, duels, uses, appels>>

RpsInit ==
    /\ defis = [d \in Defis |-> Rien]
    /\ duels = [k \in Duels |-> Rien]
    /\ uses = {}
    /\ appels = [a \in Appels |-> Rien]

Rendu(a) == appels' = [appels EXCEPT ![a] = Rien]

Nouveau(h, i, c) ==
    [hote |-> h, invite |-> i, cible |-> c, score |-> Zero, manche |-> 1,
     coups |-> [r \in Roles |-> Rien], statut |-> "en_cours", gagnant |-> Rien]

-----------------------------------------------------------------------------
(* defier_joueur *)
Defier(u, v, d, c) ==
    /\ u # v
    /\ d \notin uses
    /\ defis' = Mettre(defis, d, [de |-> u, a |-> v, cible |-> c])
    /\ uses' = uses \cup {d}
    /\ UNCHANGED <<duels, appels>>

(* accepter_defi: the challenge is read, then the match written and the *)
(* challenge deleted, whether it is still there or not                  *)
AccepterLit(a, u, d) ==
    /\ appels[a] = Rien
    /\ Present(defis[d])
    /\ defis[d].a = u
    /\ appels' = [appels EXCEPT ![a] = [op |-> "accepter", defi |-> d, lu |-> defis[d]]]
    /\ UNCHANGED <<defis, duels, uses>>

AccepterEcrit(a, k) ==
    /\ appels[a] # Rien
    /\ appels[a].op = "accepter"
    /\ k \notin uses
    /\ LET l == appels[a].lu
       IN  duels' = Mettre(duels, k, Nouveau(l.de, l.a, l.cible))
    /\ uses' = uses \cup {k}
    /\ defis' = Mettre(defis, appels[a].defi, Rien)
    /\ Rendu(a)

(* demarrer_revanche: by anybody, and as often as one likes *)
Revanche(k, n) ==
    /\ Present(duels[k])
    /\ duels[k].statut = "termine"
    /\ n \notin uses
    /\ duels' = Mettre(duels, n, Nouveau(duels[k].hote, duels[k].invite, duels[k].cible))
    /\ uses' = uses \cup {n}
    /\ UNCHANGED <<defis, appels>>

(* supprimer_match_rps.  A call in flight can write the match again. *)
Supprimer(u, k) ==
    /\ Present(duels[k])
    /\ duels[k].hote = u
    /\ duels' = Mettre(duels, k, Rien)
    /\ UNCHANGED <<defis, uses, appels>>

-----------------------------------------------------------------------------
(* jouer_coup *)

Bat(x, y) ==
    <<x, y>> \in {<<"pierre", "ciseaux">>, <<"ciseaux", "papier">>, <<"papier", "pierre">>}

DeuxCoups(c) == \A r \in Roles : c.coups[r] # Rien

(* The round is won by r *)
ManchePour(c, r) ==
    LET fin == c.score[r] + 1 >= c.cible
    IN  [c EXCEPT !.coups   = [x \in Roles |-> Rien],
                  !.manche  = @ + 1,
                  !.score[r] = @ + 1,
                  !.statut  = IF fin THEN "termine" ELSE @,
                  !.gagnant = IF fin THEN r ELSE @]

\* Faulty: the moves are dropped, not emptied
MancheNulleSansCoups(c) == [c EXCEPT !.coups = Rien, !.manche = @ + 1]

MancheNulle(c) == [c EXCEPT !.coups = [x \in Roles |-> Rien], !.manche = @ + 1]

Jugee(c) ==
    CASE Bat(c.coups["hote"], c.coups["invite"]) -> ManchePour(c, "hote")
      [] Bat(c.coups["invite"], c.coups["hote"]) -> ManchePour(c, "invite")
      [] OTHER                                   -> MancheNulle(c)

EstRole(u, c, r) == (r = "hote" /\ c.hote = u) \/ (r = "invite" /\ c.invite = u)

\* Faulty: the status of the match is not looked at
CoupInutileSiJoue(c, r) == c.coups[r] # Rien

(* The match is over, or the player has already moved in this round *)
CoupInutile(c, r) == c.statut = "termine" \/ c.coups[r] # Rien

JouerLit(a, u, k, r, x) ==
    /\ appels[a] = Rien
    /\ Present(duels[k])
    /\ EstRole(u, duels[k], r)
    /\ duels[k].manche <= MancheMax
    /\ appels' = [appels EXCEPT ![a] =
          IF CoupInutile(duels[k], r)
          THEN [op |-> "reecrire", duel |-> k, copie |-> duels[k]]
          ELSE [op |-> "coup", duel |-> k, copie |-> [duels[k] EXCEPT !.coups[r] = x]]]
    /\ UNCHANGED <<defis, duels, uses>>

(* The copy is written.  The call that has put the second move goes on, with *)
(* the round judged in its copy.                                             *)
JouerEcrit(a) ==
    /\ appels[a] # Rien
    /\ appels[a].op \in {"reecrire", "coup"}
    /\ LET c == appels[a].copie
       IN  /\ duels' = Mettre(duels, appels[a].duel, c)
           /\ appels' = [appels EXCEPT ![a] =
                 IF appels[a].op = "coup" /\ DeuxCoups(c)
                 THEN [op |-> "manche", duel |-> appels[a].duel, copie |-> Jugee(c)]
                 ELSE Rien]
    /\ UNCHANGED <<defis, uses>>

MancheEcrite(a) ==
    /\ appels[a] # Rien
    /\ appels[a].op = "manche"
    /\ duels' = Mettre(duels, appels[a].duel, appels[a].copie)
    /\ Rendu(a)
    /\ UNCHANGED <<defis, uses>>

-----------------------------------------------------------------------------
RpsNext ==
    \/ \E u, v \in Utilisateurs, d \in Defis, c \in Cibles : Defier(u, v, d, c)
    \/ \E k, n \in Duels : Revanche(k, n)
    \/ \E u \in Utilisateurs, k \in Duels : Supprimer(u, k)
    \/ \E a \in Appels :
          \/ \E u \in Utilisateurs, d \in Defis : AccepterLit(a, u, d)
          \/ \E k \in Duels : AccepterEcrit(a, k)
          \/ \E u \in Utilisateurs, k \in Joues, r \in Roles, x \in Coups : JouerLit(a, u, k, r, x)
          \/ JouerEcrit(a)
          \/ MancheEcrite(a)

RpsSpec == RpsInit /\ [][RpsNext]_rpsVars

-----------------------------------------------------------------------------
(* Properties *)

\* The shapes of the entries and of the calls in flight.
RpsTypeOK ==
    /\ defis \in [Defis -> FormeDefi \cup {Rien}]
    /\ duels \in [Duels -> FormeDuel \cup {Rien}]
    /\ uses \subseteq Defis \cup Duels
    /\ appels \in [Appels -> FormeCoup \cup FormeAcceptation \cup {Rien}]

\* What a match says of itself: it is over exactly when the winner it names has
\* reached the target, nobody has passed it, and no more points were given than
\* rounds were judged.
Coherent(c) ==
    /\ c.hote # c.invite
    /\ c.statut = "termine" <=> c.gagnant # Rien
    /\ c.score["hote"] + c.score["invite"] < c.manche
    /\ \A r \in Roles :
          /\ c.score[r] <= c.cible
          /\ c.score[r] = c.cible <=> c.gagnant = r

\* No interleaving of calls, however stale what they write, leaves a match in
\* the cache that contradicts itself: two winners, a winner below the target, a
\* match that is played on with the target reached.
DuelsCoherents == \A k \in Duels : duels[k] # Rien => Coherent(duels[k])
=============================================================================
