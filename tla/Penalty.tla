------------------------------ MODULE Penalty ------------------------------
(***************************************************************************)
(* The penalty shoot-out of apps/matches/services.py, in the cache as the  *)
(* game of Rps.  One shot is one reading and one writing.  Nothing clears  *)
(* the shots or counts the rounds: each player shoots once.                *)
(***************************************************************************)
EXTENDS Magasin

CONSTANTS DefisTir,  \* the keys of PENALTY_CHALLENGES
          Seances,   \* the keys of PENALTY_MATCHES
          CiblesTir  \* the values of score_cible: any, the code checks none

ASSUME CiblesTirHypothese == CiblesTir \subseteq Nat

VARIABLES
    defisTir,  \* the entry of each challenge
    seances,   \* the entry of each match
    usesTir,   \* the keys that were used
    tirs       \* the calls in flight

Tirs == {"but", "rate"}
FormeDefiTir == [de : Utilisateurs, a : Utilisateurs, cible : CiblesTir]
FormeSeance ==
    [hote : Utilisateurs, invite : Utilisateurs, cible : CiblesTir, score : [Roles -> Nat],
     tirs : [Roles -> Tirs \cup {Rien}], statut : {"en_cours", "termine"},
     gagnant : Roles \cup {Rien}]
FormeTir == [op : {"tirer"}, seance : Seances, copie : FormeSeance]
FormeAcceptationTir == [op : {"accepter"}, defi : DefisTir, lu : FormeDefiTir]
ASSUME TirRienHypothese ==
    Rien \notin Tirs \cup Roles \cup FormeDefiTir \cup FormeSeance \cup FormeTir
                \cup FormeAcceptationTir

penaltyVars == <<defisTir, seances, usesTir, tirs>>

PenaltyInit ==
    /\ defisTir = [d \in DefisTir |-> Rien]
    /\ seances = [k \in Seances |-> Rien]
    /\ usesTir = {}
    /\ tirs = [a \in Appels |-> Rien]

NouvelleSeance(h, i, c) ==
    [hote |-> h, invite |-> i, cible |-> c, score |-> Zero,
     tirs |-> [r \in Roles |-> Rien], statut |-> "en_cours", gagnant |-> Rien]

(* defier_joueur_penalty *)
DefierTir(u, v, d, c) ==
    /\ u # v
    /\ d \notin usesTir
    /\ defisTir' = Mettre(defisTir, d, [de |-> u, a |-> v, cible |-> c])
    /\ usesTir' = usesTir \cup {d}
    /\ UNCHANGED <<seances, tirs>>

(* accepter_defi_penalty.  The status of a challenge, which it checks, never *)
(* changes: an accepted challenge is deleted.                                *)
AccepterTirLit(a, u, d) ==
    /\ tirs[a] = Rien
    /\ Present(defisTir[d])
    /\ defisTir[d].a = u
    /\ tirs' = [tirs EXCEPT ![a] = [op |-> "accepter", defi |-> d, lu |-> defisTir[d]]]
    /\ UNCHANGED <<defisTir, seances, usesTir>>

AccepterTirEcrit(a, k) ==
    /\ tirs[a] # Rien
    /\ tirs[a].op = "accepter"
    /\ k \notin usesTir
    /\ LET l == tirs[a].lu
       IN  seances' = Mettre(seances, k, NouvelleSeance(l.de, l.a, l.cible))
    /\ usesTir' = usesTir \cup {k}
    /\ defisTir' = Mettre(defisTir, tirs[a].defi, Rien)
    /\ tirs' = [tirs EXCEPT ![a] = Rien]

\* Faulty: the other player wins the point
TirPourAutre(c, r, x) ==
    [c EXCEPT !.tirs[r] = x, !.score[Autre(r)] = IF x = "but" THEN @ + 1 ELSE @]

(* The shot x of r; the match ends when somebody has reached the target, and *)
(* the host wins when both have.                                             *)
Tir(c, r, x) ==
    LET s == IF x = "but" THEN [c.score EXCEPT ![r] = @ + 1] ELSE c.score
        fin == \E p \in Roles : s[p] >= c.cible
    IN  [c EXCEPT !.tirs[r] = x,
                  !.score   = s,
                  !.statut  = IF fin THEN "termine" ELSE @,
                  !.gagnant = IF ~fin THEN @ ELSE IF s["hote"] >= c.cible THEN "hote" ELSE "invite"]

(* jouer_tir_penalty: nothing to do when the match is over or the player has *)
(* already shot; the goalkeeper is drawn at random                           *)
TirerLit(a, u, k, r, x) ==
    /\ tirs[a] = Rien
    /\ Present(seances[k])
    /\ (r = "hote" /\ seances[k].hote = u) \/ (r = "invite" /\ seances[k].invite = u)
    /\ seances[k].statut # "termine"
    /\ seances[k].tirs[r] = Rien
    /\ tirs' = [tirs EXCEPT ![a] =
                  [op |-> "tirer", seance |-> k, copie |-> Tir(seances[k], r, x)]]
    /\ UNCHANGED <<defisTir, seances, usesTir>>

TirerEcrit(a) ==
    /\ tirs[a] # Rien
    /\ tirs[a].op = "tirer"
    /\ seances' = Mettre(seances, tirs[a].seance, tirs[a].copie)
    /\ tirs' = [tirs EXCEPT ![a] = Rien]
    /\ UNCHANGED <<defisTir, usesTir>>

(* demarrer_revanche_penalty *)
RevancheTir(k, n) ==
    /\ Present(seances[k])
    /\ seances[k].statut = "termine"
    /\ n \notin usesTir
    /\ seances' = Mettre(seances, n,
                         NouvelleSeance(seances[k].hote, seances[k].invite, seances[k].cible))
    /\ usesTir' = usesTir \cup {n}
    /\ UNCHANGED <<defisTir, tirs>>

(* supprimer_match_penalty *)
SupprimerTir(u, k) ==
    /\ Present(seances[k])
    /\ seances[k].hote = u
    /\ seances' = Mettre(seances, k, Rien)
    /\ UNCHANGED <<defisTir, usesTir, tirs>>

PenaltyNext ==
    \/ \E u, v \in Utilisateurs, d \in DefisTir, c \in CiblesTir : DefierTir(u, v, d, c)
    \/ \E k, n \in Seances : RevancheTir(k, n)
    \/ \E u \in Utilisateurs, k \in Seances : SupprimerTir(u, k)
    \/ \E a \in Appels :
          \/ \E u \in Utilisateurs, d \in DefisTir : AccepterTirLit(a, u, d)
          \/ \E k \in Seances : AccepterTirEcrit(a, k)
          \/ \E u \in Utilisateurs, k \in Seances, r \in Roles, x \in Tirs : TirerLit(a, u, k, r, x)
          \/ TirerEcrit(a)

PenaltySpec == PenaltyInit /\ [][PenaltyNext]_penaltyVars

-----------------------------------------------------------------------------
(* Properties *)

\* The shapes of the entries and of the calls in flight.
PenaltyTypeOK ==
    /\ defisTir \in [DefisTir -> FormeDefiTir \cup {Rien}]
    /\ seances \in [Seances -> FormeSeance \cup {Rien}]
    /\ usesTir \subseteq DefisTir \cup Seances
    /\ tirs \in [Appels -> FormeTir \cup FormeAcceptationTir \cup {Rien}]

\* The score of a player is the goal of his one shot, and a match is over when,
\* after a shot, somebody has reached the target; the winner is one who has.
SeanceCoherente(c) ==
    /\ \A r \in Roles : c.score[r] = IF c.tirs[r] = "but" THEN 1 ELSE 0
    /\ c.statut = "termine" <=>
          /\ \E r \in Roles : c.score[r] >= c.cible
          /\ \E r \in Roles : c.tirs[r] # Rien
    /\ c.statut = "termine" <=> c.gagnant # Rien
    /\ c.gagnant \in Roles => c.score[c.gagnant] >= c.cible

\* Two shots at once may lose one of them, but never the score from the shots:
\* no match in the cache contradicts itself.
SeancesCoherentes == \A k \in Seances : seances[k] # Rien => SeanceCoherente(seances[k])
=============================================================================
