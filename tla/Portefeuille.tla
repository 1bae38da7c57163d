---------------------------- MODULE Portefeuille ----------------------------
(***************************************************************************)
(* The wallet services of apps/wallet/services.py, as functions from one   *)
(* state of the bank to the next.  Every service is one transaction.atomic *)
(* block that locks the rows it changes, so a transaction of a game that   *)
(* calls several services is the composition of their functions.           *)
(*                                                                         *)
(* A service that raises makes the transaction of its caller roll back:    *)
(* the condition under which it does not raise is an operator of its own   *)
(* (Peut...), and the caller's action has it as a guard.                   *)
(*                                                                         *)
(* Amounts are in cents: Decimal values quantized to 0.01.                 *)
(***************************************************************************)
EXTENDS Naturals

CONSTANTS Joueurs,      \* the users that own a wallet
          Parties,      \* the primary keys of the games
          Personne      \* "no user"

ASSUME PersonneHypothese == Personne \notin Joueurs

\* Faulty: a key does not name the player
CleDeSansJoueur(op, g, u) == [op |-> op, partie |-> g, qui |-> Personne]

\* The idempotency key of a ledger entry: f"{op}:{partie}:{qui}".  A
\* settlement key names the game and a role only, then qui is Personne.
CleDe(op, g, u) == [op |-> op, partie |-> g, qui |-> u]
Operations ==
    {"reserve", "surplus", "expiration", "refus", "annulation", "abandon",
     "egalite", "perdant", "gagnant", "gagnant:commission"}
Cles == [op: Operations, partie: Parties, qui: Joueurs \cup {Personne}]

\* solde_recharge, solde_bloque and solde_gains of each wallet, the capital
\* of the platform, and the keys that are in the ledger.
Banques == [dispo   : [Joueurs -> Nat],
            bloque  : [Joueurs -> Nat],
            gains   : [Joueurs -> Nat],
            capital : Nat,
            cles    : SUBSET Cles]

Moindre(a, b) == IF a <= b THEN a ELSE b

(* Portefeuille.solde_total: the three balances of one user together *)
Avoir(b, u) == b.dispo[u] + b.bloque[u] + b.gains[u]

-----------------------------------------------------------------------------

(* bloquer_mise: available -> blocked *)

\* Faulty: the balance is not looked at
PeutBloquerSansSolde(b, u, m, k) == m > 0

PeutBloquer(b, u, m, k) == m > 0 /\ (k \in b.cles \/ m <= b.dispo[u])

BloquerMise(b, u, m, k) ==
    IF k \in b.cles THEN b
    ELSE [b EXCEPT !.dispo[u]  = @ - m,
                   !.bloque[u] = @ + m,
                   !.cles   = @ \cup {k}]

\* Faulty: more than what is blocked can be released
LibererMiseSansBorne(b, u, m, k) ==
    IF k \in b.cles THEN b
    ELSE [b EXCEPT !.bloque[u] = @ - m,
                   !.dispo[u]  = @ + m,
                   !.cles   = @ \cup {k}]

(* liberer_mise: blocked -> available, never more than what is blocked *)
LibererMise(b, u, m, k) ==
    IF k \in b.cles THEN b
    ELSE LET releve == Moindre(m, b.bloque[u])
         IN  [b EXCEPT !.bloque[u] = @ - releve,
                       !.dispo[u]  = @ + releve,
                       !.cles   = @ \cup {k}]

(* consommer_mise: the blocked stake of the loser is gone *)
ConsommerMise(b, u, m, k) ==
    IF k \in b.cles THEN b
    ELSE [b EXCEPT !.bloque[u] = @ - Moindre(m, @),
                   !.cles   = @ \cup {k}]

(* payer_gain: the stake of the winner is consumed, the net gain credited. *)
(* The entry of the commission has a key of its own (kc).                  *)

\* Faulty: the winner is paid before the commission is held back
PayerGainBrut(b, u, m, brut, commission, k, kc) ==
    IF k \in b.cles THEN b
    ELSE [b EXCEPT !.gains[u]  = @ + brut,
                   !.bloque[u] = @ - Moindre(m, @),
                   !.cles   = @ \cup {k, kc}]

PayerGain(b, u, m, brut, commission, k, kc) ==
    IF k \in b.cles THEN b
    ELSE LET retenue == Moindre(commission, brut)
         IN  [b EXCEPT !.gains[u]  = @ + (brut - retenue),
                       !.bloque[u] = @ - Moindre(m, @),
                       !.cles   = @ \cup {k} \cup (IF retenue > 0 THEN {kc} ELSE {})]

(* crediter_plateforme: raises on an amount that is not positive, and has *)
(* no idempotency key.                                                    *)
CrediterPlateforme(b, m) == [b EXCEPT !.capital = @ + m]

-----------------------------------------------------------------------------

(* GameSettlementService: 20 % of the effective stake of each player,      *)
(* rounded down to the cent.                                               *)
CommissionPour(m) == (20 * m) \div 100

DejaRegle(b, g) ==
    /\ CleDe("perdant", g, Personne) \in b.cles
    /\ CleDe("gagnant", g, Personne) \in b.cles

PeutRegler(b, m, g) == m > 0 /\ (DejaRegle(b, g) \/ 2 * CommissionPour(m) > 0)

\* Faulty: the pot is the stake of one player only
ReglerDuelPotSimple(b, gagnant, perdant, m, g) ==
    IF DejaRegle(b, g) THEN b
    ELSE LET commission == 2 * CommissionPour(m)
             b1 == ConsommerMise(b, perdant, m, CleDe("perdant", g, Personne))
             b2 == PayerGain(b1, gagnant, m, m, commission,
                             CleDe("gagnant", g, Personne),
                             CleDe("gagnant:commission", g, Personne))
         IN  CrediterPlateforme(b2, commission)

ReglerDuel(b, gagnant, perdant, m, g) ==
    IF DejaRegle(b, g) THEN b
    ELSE LET commission == 2 * CommissionPour(m)
             b1 == ConsommerMise(b, perdant, m, CleDe("perdant", g, Personne))
             b2 == PayerGain(b1, gagnant, m, 2 * m, commission,
                             CleDe("gagnant", g, Personne),
                             CleDe("gagnant:commission", g, Personne))
         IN  CrediterPlateforme(b2, commission)
=============================================================================
