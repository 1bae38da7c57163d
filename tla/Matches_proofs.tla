--------------------------- MODULE Matches_proofs ---------------------------
(***************************************************************************)
(* Theorems about Matches and about the bets of Paris, for any number of   *)
(* players, matches, stakes and bets: legal rows and balances, one outcome *)
(* for each match, stakes and bets that stay covered, money that neither   *)
(* appears nor disappears, and a bet is only paid to who has bet on the    *)
(* winner.                                                                 *)
(*                                                                         *)
(* The ledger never forgets a key, so "refunded and settled" can only be   *)
(* excluded by what a key says of the status of its match: the settlement  *)
(* of a match that is over, the refund of one that is annulled.  A race    *)
(* may lose its status to lancer_course_lapin; but it is never settled.    *)
(*                                                                         *)
(* The ledger of the bets holds keys that the matches do not know, which   *)
(* is why the steps of the matches are stated for any ledger (Tient).      *)
(*                                                                         *)
(* What a wallet has blocked is a sum over all its matches, and bets.  A   *)
(* step is of one match (Etape): it moves what that match keeps of each    *)
(* player (Retenue) in step with his blocked balance (Suit), and leaves    *)
(* what the other matches keep.  With bets there is a second sum, of what  *)
(* its owner has bet: then a step of a match leaves the second sum, and    *)
(* one of a bet the first.                                                 *)
(***************************************************************************)
EXTENDS Paris, Portefeuille_proofs

USE DEF StatutsMatch, Utilisateurs

(* Who sits in a match, and which matches have calls in flight *)
Place(g) ==
    /\ matchs[g].statut # "absent" \/ enVol[g].inviter # Personne \/ enVol[g].lancer =>
         matchs[g].hote \in Joueurs
    /\ g \notin Courses =>
         /\ matchs[g].statut = "en_cours" =>
              matchs[g].invite \in Joueurs /\ matchs[g].invite # matchs[g].hote
         /\ enVol[g].inviter = Personne
         /\ ~ enVol[g].lancer

(* The rows by themselves: they do not depend on the bank *)
Rangs ==
    /\ matchs \in [Parties -> LignesMatch]
    /\ enVol \in [Parties -> EnVols]
    /\ \A g \in Parties : Place(g)

CleJuste(k) ==
    /\ k.op = "gagnant" =>
         k.partie \notin Courses /\ matchs[k.partie].statut = "termine"
    /\ k.op \in {"annulation", "egalite"} =>
         k.partie \in Courses \/ matchs[k.partie].statut = "annule"
    /\ k.op = "refus" => k.partie \in Courses

IInv ==
    /\ Rangs
    /\ caisse \in Banques
    /\ \A k \in caisse.cles : CleJuste(k)

(* A match that is over stays as it is, unless it is a race *)
Termine(g) == g \notin Courses /\ matchs[g].statut \in {"termine", "annule"}
FinTient == \A g \in Parties : Termine(g) => matchs'[g] = matchs[g]

-----------------------------------------------------------------------------
(* The bank.  K is what its ledger may hold. *)

(* A bank whose ledger holds the keys of the matches, and maybe others *)
Tient(K) == Cles \subseteq K /\ caisse \in FondsDe(K)

LEMMA BanqueTient == IInv => Tient(Cles)
  BY BanquesFonds DEF IInv, Tient

\* What a user who may be nobody gets back.
LEMMA RendreFonds ==
    ASSUME NEW K, Cles \subseteq K, NEW b \in FondsDe(K), NEW u \in Utilisateurs,
           NEW m \in Nat, NEW op \in Operations, NEW g \in Parties
    PROVE  Augmente(K, b, Rendre(b, u, m, op, g), {CleDe(op, g, u)})
  <1>1. CASE u = Personne \/ m = 0
    BY <1>1, AugmenteRien DEF Rendre
  <1>2. CASE ~ (u = Personne \/ m = 0)
    <2>1. u \in Joueurs /\ CleDe(op, g, u) \in K
      BY <1>2, CleType
    <2> QED BY <1>2, <2>1, LibererFonds DEF Rendre
  <1> QED BY <1>1, <1>2

\* The effective stake is an amount.
LEMMA EffectiveType ==
    ASSUME NEW r \in LignesMatch
    PROVE  r.mise \in Nat /\ r.proposee \in Nat /\ MiseEffectiveMatch(r) \in Nat
  <1>1. r.mise \in MisesMatch \cup {0} /\ r.proposee \in MisesMatch \cup {0}
    BY DEF LignesMatch
  <1>2. \A x \in MisesMatch \cup {0} : x \in Nat
    BY MisesMatchHypothese
  <1>3. r.mise \in Nat /\ r.proposee \in Nat
    BY <1>1, <1>2
  <1> QED BY <1>3, MoindreType DEF MiseEffectiveMatch

\* What the rows say of a match before a step.
LEMMA Depart ==
    ASSUME Rangs, NEW g \in Parties
    PROVE  /\ matchs[g] \in LignesMatch /\ enVol[g] \in EnVols
           /\ matchs[g].hote \in Utilisateurs /\ matchs[g].invite \in Utilisateurs
           /\ matchs[g].mise \in Nat
           /\ matchs[g].statut # "absent" \/ enVol[g].inviter # Personne \/ enVol[g].lancer =>
                matchs[g].hote \in Joueurs
  <1>1. matchs[g] \in LignesMatch /\ enVol[g] \in EnVols
    BY DEF Rangs
  <1> QED BY <1>1, EffectiveType DEF LignesMatch, Rangs, Place

\* bloquer_mise, when there is a stake.
LEMMA ReserverFonds ==
    ASSUME NEW K, Tient(K), NEW g \in Parties, NEW u \in Joueurs, NEW m \in Nat,
           m = 0 \/ m <= caisse.dispo[u],
           caisse' = IF m = 0 THEN caisse
                     ELSE BloquerMise(caisse, u, m, CleDe("reserve", g, u))
    PROVE  Augmente(K, caisse, caisse', {CleDe("reserve", g, u)})
  <1>1. CleDe("reserve", g, u) \in K /\ caisse \in FondsDe(K)
    BY CleType DEF Operations, Tient
  <1>2. CASE m = 0
    BY <1>1, <1>2, AugmenteRien
  <1>3. CASE m # 0
    BY <1>1, <1>3, BloquerFonds
  <1> QED BY <1>2, <1>3

\* The stake of the guest, and the surplus of either.
LEMMA EngagerFonds ==
    ASSUME NEW K, Tient(K), Rangs, NEW g \in Parties, NEW u \in Joueurs, NEW p \in Nat,
           matchs[g].mise # 0 => p <= caisse.dispo[u]
    PROVE  Augmente(K, caisse, Engager(caisse, g, u, p),
                    {CleDe("reserve", g, u), CleDe("surplus", g, matchs[g].hote),
                     CleDe("surplus", g, u)})
  <1> DEFINE h == matchs[g].hote
             m == matchs[g].mise
             eff == Moindre(m, p)
             k == CleDe("reserve", g, u)
             b1 == BloquerMise(caisse, u, p, k)
             b2 == Rendre(b1, h, m - eff, "surplus", g)
             b3 == Rendre(b2, u, p - eff, "surplus", g)
  <1>1. /\ Cles \subseteq K /\ caisse \in FondsDe(K) /\ h \in Utilisateurs /\ m \in Nat
        /\ k \in K /\ "surplus" \in Operations /\ u \in Utilisateurs
    BY Depart, CleType DEF Operations, Tient
  <1>2. m - eff \in Nat /\ p - eff \in Nat
    <2>1. eff \in Nat /\ eff <= m /\ eff <= p
      BY <1>1, MoindreType
    <2> HIDE DEF m, eff
    <2> QED BY <1>1, <2>1
  <1>3. Engager(caisse, g, u, p) = IF m = 0 THEN caisse ELSE b3
    BY DEF Engager
  <1>4. CASE m = 0
    BY <1>1, <1>3, <1>4, AugmenteRien
  <1>5. CASE m # 0
    <2> HIDE DEF eff, h, k
    <2>1. Augmente(K, caisse, b1, {k})
      BY <1>1, <1>5, BloquerFonds
    <2> HIDE DEF b1, m
    <2>2. b1 \in FondsDe(K)
      BY <2>1 DEF Augmente
    <2>3. Augmente(K, b1, b2, {CleDe("surplus", g, h)})
      BY <1>1, <1>2, <2>2, RendreFonds
    <2> HIDE DEF b2
    <2>4. b2 \in FondsDe(K)
      BY <2>3 DEF Augmente
    <2>5. Augmente(K, b2, b3, {CleDe("surplus", g, u)})
      BY <1>1, <1>2, <2>4, RendreFonds
    <2> HIDE DEF b3
    <2>6. Augmente(K, caisse, b3, {k, CleDe("surplus", g, h), CleDe("surplus", g, u)})
      BY <2>1, <2>3, <2>5 DEF Augmente
    <2> QED BY <1>3, <1>5, <2>6 DEF k, h
  <1> QED BY <1>4, <1>5

\* Two refunds, to host and guest.
LEMMA DeuxRendus ==
    ASSUME NEW K, Tient(K), Rangs, NEW g \in Parties, NEW m \in Nat, NEW op \in Operations,
           caisse' = Rendre(Rendre(caisse, matchs[g].hote, m, op, g),
                            matchs[g].invite, m, op, g)
    PROVE  Augmente(K, caisse, caisse',
                    {CleDe(op, g, matchs[g].hote), CleDe(op, g, matchs[g].invite)})
  <1>1. PICK b : b = Rendre(caisse, matchs[g].hote, m, op, g)
    OBVIOUS
  <1>2. Cles \subseteq K /\ caisse \in FondsDe(K)
    BY DEF Tient
  <1>3. Augmente(K, caisse, b, {CleDe(op, g, matchs[g].hote)})
    BY <1>1, <1>2, Depart, RendreFonds
  <1>4. b \in FondsDe(K)
    BY <1>3 DEF Augmente
  <1>5. Augmente(K, b, caisse', {CleDe(op, g, matchs[g].invite)})
    BY <1>1, <1>2, <1>4, Depart, RendreFonds
  <1> QED BY <1>3, <1>5 DEF Augmente

-----------------------------------------------------------------------------
(* The keys *)

\* The keys of operations that are no outcome say nothing of a match.
LEMMA CleNeutre ==
    ASSUME NEW op, op \notin {"gagnant", "annulation", "egalite", "refus"},
           NEW g, NEW u
    PROVE  CleJuste(CleDe(op, g, u)) /\ CleJuste(CleDe(op, g, u))'
  BY DEF CleJuste, CleDe

\* Keys stay right as long as matches that are over stay so.
LEMMA ClesRestent ==
    ASSUME IInv, FinTient, NEW N, Augmente(Cles, caisse, caisse', N),
           \A k \in N : CleJuste(k)'
    PROVE  \A k \in caisse'.cles : CleJuste(k)'
  <1>1. ASSUME NEW k \in caisse.cles PROVE CleJuste(k)'
    <2>1. k.partie \in Parties
      BY DEF IInv, Banques, Cles
    <2>2. CleJuste(k)
      BY DEF IInv
    <2> QED BY <2>1, <2>2 DEF CleJuste, FinTient, Termine
  <1> QED BY <1>1 DEF Augmente

\* A step of the rows that moves money under keys that are right.
LEMMA Pas ==
    ASSUME IInv, Rangs', FinTient, NEW N, Augmente(Cles, caisse, caisse', N),
           \A k \in N : CleJuste(k)'
    PROVE  IInv'
  <1>1. caisse' \in Banques
    BY BanquesFonds DEF Augmente
  <1> QED BY <1>1, ClesRestent DEF IInv

-----------------------------------------------------------------------------
(* The rows *)

\* Everything but the row of g and its calls in flight stays.
LEMMA Ligne ==
    ASSUME Rangs, NEW g \in Parties, NEW r \in LignesMatch, NEW e \in EnVols,
           matchs' = [matchs EXCEPT ![g] = r], enVol' = [enVol EXCEPT ![g] = e],
           r.hote \in Joueurs,
           g \notin Courses =>
             /\ r.statut = "en_cours" => r.invite \in Joueurs /\ r.invite # r.hote
             /\ e.inviter = Personne /\ ~ e.lancer,
           ~ Termine(g)
    PROVE  Rangs' /\ matchs'[g] = r /\ FinTient
  <1>1. matchs' \in [Parties -> LignesMatch] /\ enVol' \in [Parties -> EnVols]
    BY DEF Rangs
  <1>2. \A h \in Parties : /\ matchs'[h] = IF h = g THEN r ELSE matchs[h]
                           /\ enVol'[h] = IF h = g THEN e ELSE enVol[h]
    BY DEF Rangs
  <1>3. ASSUME NEW h \in Parties PROVE Place(h)'
    <2>1. CASE h = g
      BY <1>2, <2>1 DEF Place
    <2>2. CASE h # g
      BY <1>2, <2>2 DEF Place, Rangs
    <2> QED BY <2>1, <2>2
  <1>4. FinTient
    BY <1>2 DEF FinTient
  <1> QED BY <1>1, <1>2, <1>3, <1>4 DEF Rangs

\* The same when the calls in flight stay.
LEMMA LigneSeule ==
    ASSUME Rangs, NEW g \in Parties, NEW r \in LignesMatch, UNCHANGED enVol,
           matchs' = [matchs EXCEPT ![g] = r], r.hote \in Joueurs,
           g \notin Courses =>
             (r.statut = "en_cours" => r.invite \in Joueurs /\ r.invite # r.hote),
           ~ Termine(g)
    PROVE  Rangs' /\ matchs'[g] = r /\ FinTient
  <1>1. enVol' = [enVol EXCEPT ![g] = enVol[g]] /\ enVol[g] \in EnVols
    BY DEF Rangs
  <1>2. g \notin Courses => enVol[g].inviter = Personne /\ ~ enVol[g].lancer
    BY DEF Rangs, Place
  <1> QED BY <1>1, <1>2, Ligne

-----------------------------------------------------------------------------
\* No match, and full wallets.
LEMMA RangsInitiaux == MatchesInit => Rangs
  <1> SUFFICES ASSUME MatchesInit PROVE Rangs
    OBVIOUS
  <1>1. matchs \in [Parties -> LignesMatch] /\ enVol \in [Parties -> EnVols]
    BY DEF MatchesInit, Absent, LignesMatch, EnVols
  <1>2. \A g \in Parties : Place(g)
    BY DEF MatchesInit, Place, Absent, EnVols
  <1> QED BY <1>1, <1>2 DEF Rangs

LEMMA BanqueInitiale == MatchesInit => caisse \in Banques /\ caisse.cles = {}
  BY SoldeMatchHypothese DEF MatchesInit, Banques

\* A match is created, with its stake blocked.
LEMMA CreerPas ==
    ASSUME Rangs, NEW g \in Parties, NEW u \in Joueurs, NEW m \in MisesMatch, Creer(u, g, m)
    PROVE  /\ Rangs' /\ FinTient
           /\ \A K : Tient(K) => Augmente(K, caisse, caisse', {CleDe("reserve", g, u)})
  <1> DEFINE r == [matchs[g] EXCEPT !.statut = "en_attente", !.hote = u, !.mise = m]
  <1>1. r \in LignesMatch /\ r.statut = "en_attente" /\ r.hote = u
    BY Depart DEF LignesMatch
  <1>2. m \in Nat
    BY MisesMatchHypothese
  <1>3. matchs' = [matchs EXCEPT ![g] = r] /\ UNCHANGED enVol /\ ~ Termine(g)
    BY DEF Creer, Termine
  <1> HIDE DEF r
  <1>4. Rangs' /\ FinTient
    BY <1>1, <1>3, LigneSeule
  <1>5. ASSUME NEW K, Tient(K)
        PROVE  Augmente(K, caisse, caisse', {CleDe("reserve", g, u)})
    BY <1>2, <1>5, ReserverFonds DEF Creer
  <1> QED BY <1>4, <1>5

\* A match is joined.
LEMMA RejoindrePas ==
    ASSUME Rangs, NEW g \in Parties, NEW u \in Joueurs, NEW p \in MisesMatch, Rejoindre(u, g, p)
    PROVE  /\ Rangs' /\ FinTient
           /\ \A K : Tient(K) => Augmente(K, caisse, caisse',
                {CleDe("reserve", g, u), CleDe("surplus", g, matchs[g].hote),
                 CleDe("surplus", g, u)})
  <1> DEFINE r == [matchs[g] EXCEPT !.invite = u, !.statut = "en_cours", !.prete = TRUE,
                                    !.proposee = p]
  <1>1. r \in LignesMatch
    <2>1. matchs[g] \in LignesMatch /\ TRUE \in BOOLEAN /\ "en_cours" \in StatutsMatch
          /\ u \in Utilisateurs /\ p \in MisesMatch \cup {0}
      BY Depart
    <2> QED BY <2>1, Zenon DEF LignesMatch
  <1>2. r.invite = u /\ r.hote = matchs[g].hote
    BY Depart DEF LignesMatch
  <1>3. p \in Nat /\ (matchs[g].mise # 0 => p <= caisse.dispo[u])
    BY MisesMatchHypothese DEF Rejoindre
  <1>4. /\ matchs' = [matchs EXCEPT ![g] = r] /\ UNCHANGED enVol
        /\ ~ Termine(g) /\ matchs[g].statut # "absent" /\ u # matchs[g].hote
    BY DEF Rejoindre, Termine
  <1>5. matchs[g].hote \in Joueurs
    BY <1>4, Depart
  <1> HIDE DEF r
  <1>6. Rangs' /\ FinTient
    BY <1>1, <1>2, <1>4, <1>5, LigneSeule
  <1>7. ASSUME NEW K, Tient(K)
        PROVE  Augmente(K, caisse, caisse',
                 {CleDe("reserve", g, u), CleDe("surplus", g, matchs[g].hote),
                  CleDe("surplus", g, u)})
    BY <1>3, <1>7, EngagerFonds DEF Rejoindre
  <1> QED BY <1>6, <1>7

\* A match is annulled: by its host, or by a draw.
LEMMA AnnulerPas ==
    ASSUME Rangs, NEW g \in Parties, (\E u \in Joueurs : Annuler(u, g)) \/ CloturerNul(g)
    PROVE  /\ Rangs' /\ FinTient /\ matchs'[g].statut = "annule"
           /\ \E op \in {"annulation", "egalite"} :
                \A K : Tient(K) => Augmente(K, caisse, caisse',
                  {CleDe(op, g, matchs[g].hote), CleDe(op, g, matchs[g].invite)})
  <1> DEFINE r == [matchs[g] EXCEPT !.statut = "annule"]
  <1>1. PICK op \in {"annulation", "egalite"}, m \in Nat :
          caisse' = Rendre(Rendre(caisse, matchs[g].hote, m, op, g),
                           matchs[g].invite, m, op, g)
    BY Depart, EffectiveType DEF Annuler, CloturerNul
  <1>2. r \in LignesMatch /\ r.statut = "annule" /\ r.hote = matchs[g].hote
    BY Depart DEF LignesMatch
  <1>3. op \in Operations
    BY DEF Operations
  <1>4. /\ matchs' = [matchs EXCEPT ![g] = r] /\ UNCHANGED enVol
        /\ ~ Termine(g) /\ matchs[g].statut # "absent"
    BY DEF Annuler, CloturerNul, Cloturable, Termine
  <1>5. matchs[g].hote \in Joueurs
    BY <1>4, Depart
  <1> HIDE DEF r
  <1>6. Rangs' /\ FinTient /\ matchs'[g] = r
    BY <1>2, <1>4, <1>5, LigneSeule
  <1>7. ASSUME NEW K, Tient(K)
        PROVE  Augmente(K, caisse, caisse',
                 {CleDe(op, g, matchs[g].hote), CleDe(op, g, matchs[g].invite)})
    BY <1>1, <1>3, <1>7, DeuxRendus
  <1> QED BY <1>2, <1>6, <1>7

\* Steps of a race that move no money.
LEMMA CourseSansArgent ==
    ASSUME Rangs, NEW g \in Parties,
           \/ \E u, v \in Joueurs : InviterLit(u, g, v)
           \/ InviterEcrit(g)
           \/ \E u \in Joueurs : LancerLit(u, g)
           \/ LancerEcrit(g)
    PROVE  Rangs' /\ FinTient /\ UNCHANGED caisse
  <1>1. g \in Courses
    BY DEF InviterLit, InviterEcrit, LancerLit, LancerEcrit, EstLapin, Rangs, Place
  <1>2. enVol[g] \in EnVols /\ matchs[g] \in LignesMatch
    BY <1>1 DEF Rangs
  <1>3. PICK e \in EnVols : enVol' = [enVol EXCEPT ![g] = e]
    <2>1. CASE \E u, v \in Joueurs : InviterLit(u, g, v)
      <3>1. PICK v \in Joueurs : enVol' = [enVol EXCEPT ![g].inviter = v]
        BY <2>1 DEF InviterLit
      <3>2. [enVol[g] EXCEPT !.inviter = v] \in EnVols
        BY <1>2 DEF EnVols
      <3> QED BY <3>1, <3>2
    <2>2. CASE InviterEcrit(g)
      <3>1. [enVol[g] EXCEPT !.inviter = Personne] \in EnVols
        BY <1>2 DEF EnVols
      <3> QED BY <2>2, <3>1 DEF InviterEcrit
    <2>3. CASE \E u \in Joueurs : LancerLit(u, g)
      <3>1. [enVol[g] EXCEPT !.lancer = TRUE] \in EnVols
        BY <1>2 DEF EnVols
      <3> QED BY <2>3, <3>1 DEF LancerLit
    <2>4. CASE LancerEcrit(g)
      <3>1. [enVol[g] EXCEPT !.lancer = FALSE] \in EnVols
        BY <1>2 DEF EnVols
      <3> QED BY <2>4, <3>1 DEF LancerEcrit
    <2> QED BY <2>1, <2>2, <2>3, <2>4
  <1>4. matchs[g].hote \in Joueurs
    BY Depart DEF InviterLit, InviterEcrit, LancerLit, LancerEcrit
  <1>5. PICK r \in LignesMatch :
          matchs' = [matchs EXCEPT ![g] = r] /\ r.hote \in Joueurs
    <2>1. CASE \/ \E u, v \in Joueurs : InviterLit(u, g, v)
               \/ \E u \in Joueurs : LancerLit(u, g)
      <3>1. matchs' = [matchs EXCEPT ![g] = matchs[g]]
        BY <2>1 DEF InviterLit, LancerLit, Rangs
      <3> QED BY <1>2, <1>4, <3>1
    <2>2. CASE InviterEcrit(g)
      <3> DEFINE r == [matchs[g] EXCEPT !.invite = enVol[g].inviter, !.prete = FALSE]
      <3>1. enVol[g].inviter \in Utilisateurs /\ FALSE \in BOOLEAN
        BY <1>2 DEF EnVols
      <3>2. r \in LignesMatch
        BY <1>2, <3>1, Zenon DEF LignesMatch
      <3>3. r.hote = matchs[g].hote
        BY <1>2 DEF LignesMatch
      <3>4. matchs' = [matchs EXCEPT ![g] = r]
        BY <2>2 DEF InviterEcrit, Rangs
      <3> QED BY <1>4, <3>2, <3>3, <3>4
    <2>3. CASE LancerEcrit(g)
      <3> DEFINE r == [matchs[g] EXCEPT !.statut = "en_cours"]
      <3>1. r \in LignesMatch /\ r.hote = matchs[g].hote
        BY <1>2 DEF LignesMatch
      <3>2. matchs' = [matchs EXCEPT ![g] = r]
        BY <2>3 DEF LancerEcrit
      <3> QED BY <1>4, <3>1, <3>2
    <2> QED BY <2>1, <2>2, <2>3
  <1>6. UNCHANGED caisse
    BY DEF InviterLit, InviterEcrit, LancerLit, LancerEcrit
  <1>7. Rangs' /\ FinTient
    BY <1>1, <1>3, <1>5, Ligne DEF Termine
  <1> QED BY <1>6, <1>7

\* A guest accepts a race.
LEMMA AccepterPas ==
    ASSUME Rangs, NEW g \in Parties, NEW u \in Joueurs, Accepter(u, g)
    PROVE  /\ Rangs' /\ FinTient
           /\ \A K : Tient(K) => Augmente(K, caisse, caisse', {CleDe("reserve", g, u)})
  <1> DEFINE r == [matchs[g] EXCEPT !.invite = u, !.prete = TRUE,
                                    !.proposee = matchs[g].mise]
  <1>1. /\ g \in Courses /\ matchs[g].hote \in Joueurs
        /\ matchs[g] \in LignesMatch /\ matchs[g].mise \in Nat
    BY Depart DEF Accepter, EstLapin
  <1>2. matchs[g].mise \in MisesMatch \cup {0} /\ TRUE \in BOOLEAN /\ u \in Utilisateurs
    BY <1>1 DEF LignesMatch
  <1>3. r \in LignesMatch
    BY <1>1, <1>2, Zenon DEF LignesMatch
  <1>4. r.hote = matchs[g].hote
    BY <1>1 DEF LignesMatch
  <1>5. matchs' = [matchs EXCEPT ![g] = r] /\ UNCHANGED enVol
    BY DEF Accepter
  <1> HIDE DEF r
  <1>6. Rangs' /\ FinTient
    BY <1>1, <1>3, <1>4, <1>5, LigneSeule DEF Termine
  <1>7. ASSUME NEW K, Tient(K)
        PROVE  Augmente(K, caisse, caisse', {CleDe("reserve", g, u)})
    BY <1>1, <1>7, ReserverFonds DEF Accepter
  <1> QED BY <1>6, <1>7

\* A guest refuses a race, or its host puts him out.
LEMMA RefuserPas ==
    ASSUME Rangs, NEW g \in Parties, NEW u \in Joueurs, Refuser(u, g)
    PROVE  /\ Rangs' /\ FinTient /\ g \in Courses
           /\ \A K : Tient(K) => Augmente(K, caisse, caisse',
                                          {CleDe("refus", g, matchs[g].invite)})
  <1> DEFINE r == [matchs[g] EXCEPT !.invite = Personne, !.prete = FALSE, !.proposee = 0]
  <1>1. /\ g \in Courses /\ matchs[g].hote \in Joueurs
        /\ matchs[g] \in LignesMatch /\ matchs[g].mise \in Nat
    BY Depart DEF Refuser, EstLapin
  <1>2. FALSE \in BOOLEAN /\ Personne \in Utilisateurs /\ 0 \in MisesMatch \cup {0}
    OBVIOUS
  <1>3. r \in LignesMatch
    BY <1>1, <1>2, Zenon DEF LignesMatch
  <1>4. r.hote = matchs[g].hote
    BY <1>1 DEF LignesMatch
  <1>5. matchs' = [matchs EXCEPT ![g] = r] /\ UNCHANGED enVol
    BY DEF Refuser
  <1> HIDE DEF r
  <1>6. Rangs' /\ FinTient
    BY <1>1, <1>3, <1>4, <1>5, LigneSeule DEF Termine
  <1>7. "refus" \in Operations /\ matchs[g].invite \in Utilisateurs
    BY Depart DEF Operations
  <1>8. ASSUME NEW K, Tient(K)
        PROVE  Augmente(K, caisse, caisse', {CleDe("refus", g, matchs[g].invite)})
    BY <1>1, <1>7, <1>8, RendreFonds DEF Refuser, Tient
  <1> QED BY <1>1, <1>6, <1>8

\* A match is won.
LEMMA CloturerPas ==
    ASSUME Rangs, NEW g \in Parties, NEW w \in Joueurs, Cloturer(g, w)
    PROVE  /\ Rangs' /\ FinTient /\ g \notin Courses
           /\ matchs'[g].statut = "termine" /\ matchs'[g].vainqueur = w
           /\ \A K : Tient(K) => Augmente(K, caisse, caisse',
                {CleDe("perdant", g, Personne), CleDe("gagnant", g, Personne),
                 CleDe("gagnant:commission", g, Personne)})
  <1> DEFINE h == matchs[g].hote
             i == matchs[g].invite
             l == IF w = h THEN i ELSE h
             r == [matchs[g] EXCEPT !.statut = "termine", !.vainqueur = w]
             N == {CleDe("perdant", g, Personne), CleDe("gagnant", g, Personne),
                   CleDe("gagnant:commission", g, Personne)}
  <1>1. g \notin Courses /\ matchs[g].statut = "en_cours"
    BY DEF Cloturer, Cloturable, EstLapin
  <1>2. matchs[g] \in LignesMatch /\ h \in Joueurs /\ i \in Joueurs
    BY <1>1, Depart DEF Rangs, Place
  <1>3. r \in LignesMatch /\ r.statut = "termine" /\ r.vainqueur = w /\ r.hote = h
    BY <1>2 DEF LignesMatch
  <1>4. MiseEffectiveMatch(matchs[g]) \in Nat /\ l \in Joueurs
    BY <1>2, EffectiveType
  <1>5. matchs' = [matchs EXCEPT ![g] = r] /\ UNCHANGED enVol /\ ~ Termine(g)
    BY <1>1 DEF Cloturer, Termine
  <1>6. caisse' = IF matchs[g].mise = 0 THEN caisse
                  ELSE ReglerDuel(caisse, w, l, MiseEffectiveMatch(matchs[g]), g)
    BY DEF Cloturer, Regler
  <1> HIDE DEF r, l
  <1>7. Rangs' /\ FinTient /\ matchs'[g] = r
    BY <1>2, <1>3, <1>5, LigneSeule
  <1>8. ASSUME NEW K, Tient(K)
        PROVE  Augmente(K, caisse, caisse', N)
    BY <1>4, <1>6, <1>8, ReglerFonds, AugmenteRien DEF Tient
  <1> QED BY <1>1, <1>3, <1>7, <1>8

-----------------------------------------------------------------------------
(* All steps together *)

\* The rows keep what they say of each other whatever the bank holds, and no match
\* that is over changes; the ledger gains keys of the matches only.
LEMMA MatchesPas ==
    ASSUME Rangs, MatchesNext
    PROVE  /\ Rangs' /\ FinTient
           /\ \A K : Tient(K) => Augmente(K, caisse, caisse', Cles)
  <1>1. \A g \in Parties : Duellistes[g] \subseteq Joueurs
    BY DuellistesHypothese
  <1>2. ASSUME NEW N \in SUBSET Cles,
               \A K : Tient(K) => Augmente(K, caisse, caisse', N)
        PROVE  \A K : Tient(K) => Augmente(K, caisse, caisse', Cles)
    BY <1>2 DEF Augmente
  <1>3. ASSUME NEW g \in Parties, NEW u \in Joueurs,
               \/ \E m \in MisesMatch : Creer(u, g, m)
               \/ Accepter(u, g)
        PROVE  /\ Rangs' /\ FinTient
               /\ \A K : Tient(K) => Augmente(K, caisse, caisse', Cles)
    <2>1. {CleDe("reserve", g, u)} \in SUBSET Cles
      BY CleType DEF Operations
    <2> QED BY <1>2, <1>3, <2>1, CreerPas, AccepterPas
  <1>4. ASSUME NEW g \in Parties, NEW u \in Joueurs, NEW p \in MisesMatch, Rejoindre(u, g, p)
        PROVE  /\ Rangs' /\ FinTient
               /\ \A K : Tient(K) => Augmente(K, caisse, caisse', Cles)
    <2>1. {CleDe("reserve", g, u), CleDe("surplus", g, matchs[g].hote),
           CleDe("surplus", g, u)} \in SUBSET Cles
      BY Depart, CleType DEF Operations
    <2> QED BY <1>2, <1>4, <2>1, RejoindrePas
  <1>5. ASSUME NEW g \in Parties, (\E u \in Joueurs : Annuler(u, g)) \/ CloturerNul(g)
        PROVE  /\ Rangs' /\ FinTient
               /\ \A K : Tient(K) => Augmente(K, caisse, caisse', Cles)
    <2>1. PICK op \in {"annulation", "egalite"} :
             \A K : Tient(K) => Augmente(K, caisse, caisse',
               {CleDe(op, g, matchs[g].hote), CleDe(op, g, matchs[g].invite)})
      BY <1>5, AnnulerPas
    <2>2. {CleDe(op, g, matchs[g].hote), CleDe(op, g, matchs[g].invite)} \in SUBSET Cles
      BY Depart, CleType DEF Operations
    <2> QED BY <1>2, <1>5, <2>1, <2>2, AnnulerPas
  <1>6. ASSUME NEW g \in Parties,
               \/ \E u, v \in Joueurs : InviterLit(u, g, v)
               \/ InviterEcrit(g)
               \/ \E u \in Joueurs : LancerLit(u, g)
               \/ LancerEcrit(g)
        PROVE  /\ Rangs' /\ FinTient
               /\ \A K : Tient(K) => Augmente(K, caisse, caisse', Cles)
    BY <1>6, CourseSansArgent, AugmenteRien DEF Tient
  <1>7. ASSUME NEW g \in Parties, NEW u \in Joueurs, Refuser(u, g)
        PROVE  /\ Rangs' /\ FinTient
               /\ \A K : Tient(K) => Augmente(K, caisse, caisse', Cles)
    <2>1. {CleDe("refus", g, matchs[g].invite)} \in SUBSET Cles
      BY Depart, CleType DEF Operations
    <2> QED BY <1>2, <1>7, <2>1, RefuserPas
  <1>8. ASSUME NEW g \in Parties, NEW w \in Joueurs, Cloturer(g, w)
        PROVE  /\ Rangs' /\ FinTient
               /\ \A K : Tient(K) => Augmente(K, caisse, caisse', Cles)
    <2>1. {CleDe("perdant", g, Personne), CleDe("gagnant", g, Personne),
           CleDe("gagnant:commission", g, Personne)} \in SUBSET Cles
      BY CleType DEF Operations
    <2> QED BY <1>2, <1>8, <2>1, CloturerPas
  <1> QED BY <1>1, <1>3, <1>4, <1>5, <1>6, <1>7, <1>8 DEF MatchesNext, HorsVictoire

\* Every new key is right.
LEMMA MatchesCles ==
    ASSUME IInv, MatchesNext
    PROVE  IInv'
  <1>0. Rangs /\ Rangs' /\ FinTient /\ Tient(Cles)
    BY MatchesPas, BanqueTient DEF IInv
  <1>1. \A g \in Parties : Duellistes[g] \subseteq Joueurs
    BY DuellistesHypothese
  <1>2. ASSUME NEW N, Augmente(Cles, caisse, caisse', N), \A k \in N : CleJuste(k)'
        PROVE  IInv'
    BY <1>0, <1>2, Pas
  <1>3. ASSUME NEW g \in Parties, NEW u \in Joueurs,
               \/ \E m \in MisesMatch : Creer(u, g, m)
               \/ Accepter(u, g)
        PROVE  IInv'
    <2>1. Augmente(Cles, caisse, caisse', {CleDe("reserve", g, u)})
      BY <1>0, <1>3, CreerPas, AccepterPas
    <2>2. CleJuste(CleDe("reserve", g, u))'
      BY CleNeutre
    <2> QED BY <1>2, <2>1, <2>2
  <1>4. ASSUME NEW g \in Parties, NEW u \in Joueurs, NEW p \in MisesMatch, Rejoindre(u, g, p)
        PROVE  IInv'
    <2>1. PICK N : N = {CleDe("reserve", g, u), CleDe("surplus", g, matchs[g].hote),
                        CleDe("surplus", g, u)}
      OBVIOUS
    <2>2. Augmente(Cles, caisse, caisse', N)
      BY <1>0, <1>4, <2>1, RejoindrePas
    <2>3. /\ CleJuste(CleDe("reserve", g, u))'
          /\ CleJuste(CleDe("surplus", g, matchs[g].hote))'
          /\ CleJuste(CleDe("surplus", g, u))'
      BY DEF CleJuste, CleDe
    <2>4. \A k \in N : CleJuste(k)'
      BY <2>1, <2>3 DEF CleJuste, CleDe
    <2> QED BY <1>2, <2>2, <2>4
  <1>5. ASSUME NEW g \in Parties, (\E u \in Joueurs : Annuler(u, g)) \/ CloturerNul(g)
        PROVE  IInv'
    <2>1. matchs'[g].statut = "annule"
      BY <1>0, <1>5, AnnulerPas
    <2>2. PICK op \in {"annulation", "egalite"} :
             \A K : Tient(K) => Augmente(K, caisse, caisse',
               {CleDe(op, g, matchs[g].hote), CleDe(op, g, matchs[g].invite)})
      BY <1>0, <1>5, AnnulerPas
    <2>3. PICK N : N = {CleDe(op, g, matchs[g].hote), CleDe(op, g, matchs[g].invite)}
      OBVIOUS
    <2>4. Augmente(Cles, caisse, caisse', N)
      BY <1>0, <2>2, <2>3
    <2>5. ASSUME NEW k \in N PROVE k.op = op /\ k.partie = g
      BY <2>3 DEF CleDe
    <2>6. \A k \in N : CleJuste(k)'
      BY <2>1, <2>5 DEF CleJuste
    <2> QED BY <1>2, <2>4, <2>6
  <1>6. ASSUME NEW g \in Parties,
               \/ \E u, v \in Joueurs : InviterLit(u, g, v)
               \/ InviterEcrit(g)
               \/ \E u \in Joueurs : LancerLit(u, g)
               \/ LancerEcrit(g)
        PROVE  IInv'
    <2>1. PICK N : N = {}
      OBVIOUS
    <2>2. Augmente(Cles, caisse, caisse', N)
      BY <1>0, <1>6, CourseSansArgent, AugmenteRien DEF Tient
    <2> QED BY <1>2, <2>1, <2>2
  <1>7. ASSUME NEW g \in Parties, NEW u \in Joueurs, Refuser(u, g)
        PROVE  IInv'
    <2>1. PICK N : N = {CleDe("refus", g, matchs[g].invite)}
      OBVIOUS
    <2>2. Augmente(Cles, caisse, caisse', N) /\ g \in Courses
      BY <1>0, <1>7, <2>1, RefuserPas
    <2>3. ASSUME NEW k \in N PROVE k.op = "refus" /\ k.partie = g
      BY <2>1 DEF CleDe
    <2>4. \A k \in N : CleJuste(k)'
      BY <2>2, <2>3 DEF CleJuste
    <2> QED BY <1>2, <2>2, <2>4
  <1>8. ASSUME NEW g \in Parties, NEW w \in Joueurs, Cloturer(g, w)
        PROVE  IInv'
    <2>1. PICK N : N = {CleDe("perdant", g, Personne), CleDe("gagnant", g, Personne),
                        CleDe("gagnant:commission", g, Personne)}
      OBVIOUS
    <2>2. /\ Augmente(Cles, caisse, caisse', N)
          /\ g \notin Courses /\ matchs'[g].statut = "termine"
      BY <1>0, <1>8, <2>1, CloturerPas
    <2>3. ASSUME NEW k \in N
          PROVE  k.op \in {"perdant", "gagnant", "gagnant:commission"} /\ k.partie = g
      BY <2>1 DEF CleDe
    <2>4. \A k \in N : CleJuste(k)'
      BY <2>2, <2>3 DEF CleJuste
    <2> QED BY <1>2, <2>2, <2>4
  <1> QED BY <1>1, <1>3, <1>4, <1>5, <1>6, <1>7, <1>8 DEF MatchesNext, HorsVictoire

\* Every step keeps the invariant, and no match that is over changes its end.
LEMMA MatchesInvariant == IInv /\ [MatchesNext]_matchVars => IInv' /\ FinTient
  <1> SUFFICES ASSUME IInv, [MatchesNext]_matchVars PROVE IInv' /\ FinTient
    OBVIOUS
  <1>1. CASE MatchesNext
    BY <1>1, MatchesPas, MatchesCles DEF IInv
  <1>2. CASE UNCHANGED matchVars
    BY <1>2 DEF matchVars, IInv, Rangs, Place, CleJuste, FinTient
  <1> QED BY <1>1, <1>2

\* The inductive invariant of the matches.
THEOREM MatchesTenus == MatchesSpec => []IInv
  <1>1. MatchesInit => IInv
    BY RangsInitiaux, BanqueInitiale DEF IInv
  <1> QED BY <1>1, MatchesInvariant, PTL DEF MatchesSpec

\* The rows have legal values and no balance is negative, whatever matches are
\* created, joined, raced, annulled and closed beside each other.
THEOREM MatchesTypes == MatchesSpec => []TypeOKMatchs
  <1>1. IInv => TypeOKMatchs
    BY DEF IInv, Rangs, TypeOKMatchs
  <1> QED BY <1>1, MatchesTenus, PTL

\* annuler_partie, refuser and _cloturer: a match is refunded or settled, and
\* never both.
THEOREM IssueUnique == MatchesSpec => []UneSeuleIssue
  <1>1. IInv => UneSeuleIssue
    <2> SUFFICES ASSUME IInv, NEW g \in Parties,
                        CleDe("gagnant", g, Personne) \in caisse.cles,
                        NEW u \in Joueurs, NEW op \in {"annulation", "refus", "egalite"},
                        CleDe(op, g, u) \in caisse.cles
                 PROVE  FALSE
      BY DEF UneSeuleIssue
    <2>1. CleJuste(CleDe("gagnant", g, Personne)) /\ CleJuste(CleDe(op, g, u))
      BY DEF IInv
    <2> QED BY <2>1 DEF CleJuste, CleDe
  <1> QED BY <1>1, MatchesTenus, PTL

\* _cloturer tests the status under the lock: a match that is over (and no
\* race) keeps its row, the status and the winner in particular.
THEOREM FinDefinitive == MatchesSpec => [][FinTient]_matchVars
  <1>1. IInv /\ [MatchesNext]_matchVars => [FinTient]_matchVars
    BY MatchesInvariant
  <1> QED BY <1>1, MatchesTenus, PTL DEF MatchesSpec
-----------------------------------------------------------------------------
(* Who owns what *)

LEMMA RendreConserve ==
    ASSUME NEW b \in Banques, NEW u \in Utilisateurs, NEW m \in Nat,
           NEW op \in Operations, NEW g \in Parties
    PROVE  Conserve(b, Rendre(b, u, m, op, g))
  <1>1. CASE u = Personne \/ m = 0
    BY <1>1 DEF Rendre, Conserve
  <1>2. CASE ~ (u = Personne \/ m = 0)
    <2>1. u \in Joueurs /\ CleDe(op, g, u) \in Cles
      BY <1>2, CleType
    <2> QED BY <1>2, <2>1, LibererConserve DEF Rendre
  <1> QED BY <1>1, <1>2

LEMMA EngagerConserve ==
    ASSUME IInv, NEW g \in Parties, NEW u \in Joueurs, NEW p \in Nat,
           matchs[g].mise # 0 => p <= caisse.dispo[u]
    PROVE  Conserve(caisse, Engager(caisse, g, u, p))
  <1> DEFINE h == matchs[g].hote
             m == matchs[g].mise
             eff == Moindre(m, p)
             k == CleDe("reserve", g, u)
             b1 == BloquerMise(caisse, u, p, k)
             b2 == Rendre(b1, h, m - eff, "surplus", g)
             b3 == Rendre(b2, u, p - eff, "surplus", g)
  <1>1. /\ caisse \in Banques /\ h \in Utilisateurs /\ m \in Nat /\ k \in Cles
        /\ "surplus" \in Operations /\ u \in Utilisateurs
    BY Depart, CleType DEF Operations, IInv
  <1>2. m - eff \in Nat /\ p - eff \in Nat
    <2>1. eff \in Nat /\ eff <= m /\ eff <= p
      BY <1>1, MoindreType
    <2> HIDE DEF m, eff
    <2> QED BY <1>1, <2>1
  <1>3. Engager(caisse, g, u, p) = IF m = 0 THEN caisse ELSE b3
    BY DEF Engager
  <1> HIDE DEF eff, h, k
  <1>4. m # 0 => Conserve(caisse, b1)
    BY <1>1, BloquerConserve
  <1> HIDE DEF b1, m
  <1>5. m # 0 => Conserve(b1, b2)
    <2>1. m # 0 => b1 \in Banques
      BY <1>4 DEF Conserve
    <2> QED BY <1>1, <1>2, <2>1, RendreConserve
  <1> HIDE DEF b2
  <1>6. m # 0 => Conserve(b2, b3)
    <2>1. m # 0 => b2 \in Banques
      BY <1>5 DEF Conserve
    <2> QED BY <1>1, <1>2, <2>1, RendreConserve
  <1> HIDE DEF b3
  <1>7. m # 0 => Conserve(caisse, b2)
    BY <1>4, <1>5, ConserveTrans
  <1>8. m # 0 => Conserve(caisse, b3)
    BY <1>6, <1>7, ConserveTrans
  <1>9. Conserve(caisse, caisse)
    BY <1>1 DEF Conserve
  <1> QED BY <1>3, <1>8, <1>9

\* Every step but a victory leaves to everybody what he owns.
LEMMA HorsVictoireConserve ==
    ASSUME IInv, HorsVictoire
    PROVE  Conserve(caisse, caisse')
  <1>0. caisse \in Banques /\ Conserve(caisse, caisse)
    BY DEF IInv, Conserve
  <1>1. \A g \in Parties : Duellistes[g] \subseteq Joueurs
    BY DuellistesHypothese
  <1>2. ASSUME NEW g \in Parties, NEW u \in Joueurs, NEW m \in MisesMatch, Creer(u, g, m)
        PROVE  Conserve(caisse, caisse')
    <2>1. m \in Nat /\ CleDe("reserve", g, u) \in Cles
      BY MisesMatchHypothese, CleType DEF Operations
    <2>2. m > 0 => Conserve(caisse, BloquerMise(caisse, u, m, CleDe("reserve", g, u)))
      BY <1>0, <1>2, <2>1, BloquerConserve DEF Creer
    <2> QED BY <1>0, <1>2, <2>1, <2>2 DEF Creer
  <1>3. ASSUME NEW g \in Parties, NEW u \in Joueurs, NEW p \in MisesMatch, Rejoindre(u, g, p)
        PROVE  Conserve(caisse, caisse')
    <2>1. p \in Nat /\ (matchs[g].mise # 0 => p <= caisse.dispo[u])
      BY <1>3, MisesMatchHypothese DEF Rejoindre
    <2> QED BY <1>3, <2>1, EngagerConserve DEF Rejoindre
  <1>4. ASSUME NEW g \in Parties, (\E u \in Joueurs : Annuler(u, g)) \/ CloturerNul(g)
        PROVE  Conserve(caisse, caisse')
    <2> DEFINE h == matchs[g].hote
               i == matchs[g].invite
    <2>1. PICK op \in {"annulation", "egalite"}, m \in Nat :
            caisse' = Rendre(Rendre(caisse, h, m, op, g), i, m, op, g)
      BY <1>4, Depart, EffectiveType DEF IInv, Annuler, CloturerNul
    <2>2. op \in Operations /\ h \in Utilisateurs /\ i \in Utilisateurs
      BY Depart DEF Operations, IInv
    <2> HIDE DEF h, i
    <2>3. PICK b : b = Rendre(caisse, h, m, op, g)
      OBVIOUS
    <2>4. Conserve(caisse, b) /\ b \in Banques
      BY <1>0, <2>2, <2>3, RendreConserve DEF Conserve
    <2>5. Conserve(b, caisse')
      BY <2>1, <2>2, <2>3, <2>4, RendreConserve
    <2> QED BY <2>4, <2>5, ConserveTrans
  <1>5. ASSUME NEW g \in Parties, NEW u \in Joueurs, Accepter(u, g)
        PROVE  Conserve(caisse, caisse')
    <2>1. matchs[g].mise \in Nat /\ CleDe("reserve", g, u) \in Cles
      BY Depart, CleType DEF Operations, IInv
    <2>2. matchs[g].mise > 0 =>
            Conserve(caisse, BloquerMise(caisse, u, matchs[g].mise, CleDe("reserve", g, u)))
      BY <1>0, <1>5, <2>1, BloquerConserve DEF Accepter
    <2> QED BY <1>0, <1>5, <2>1, <2>2 DEF Accepter
  <1>6. ASSUME NEW g \in Parties, NEW u \in Joueurs, Refuser(u, g)
        PROVE  Conserve(caisse, caisse')
    <2>1. /\ matchs[g].mise \in Nat /\ matchs[g].invite \in Utilisateurs
          /\ "refus" \in Operations
      BY Depart DEF Operations, IInv
    <2> QED BY <1>0, <1>6, <2>1, RendreConserve DEF Refuser
  <1>7. ASSUME NEW g \in Parties,
               \/ \E u, v \in Joueurs : InviterLit(u, g, v)
               \/ InviterEcrit(g)
               \/ \E u \in Joueurs : LancerLit(u, g)
               \/ LancerEcrit(g)
        PROVE  Conserve(caisse, caisse')
    BY <1>0, <1>7 DEF InviterLit, InviterEcrit, LancerLit, LancerEcrit
  <1> QED BY <1>1, <1>2, <1>3, <1>4, <1>5, <1>6, <1>7 DEF HorsVictoire

\* A victory makes nobody poorer but the loser, by one effective stake at most.
LEMMA VictoirePaie ==
    ASSUME IInv, NEW g \in Parties, NEW w \in Joueurs, Cloturer(g, w), NEW u \in Joueurs,
           Avoir(caisse', u) < Avoir(caisse, u)
    PROVE  /\ matchs[g].statut = "en_cours" /\ matchs'[g].statut = "termine"
           /\ u \in {matchs[g].hote, matchs[g].invite} \ {matchs'[g].vainqueur}
           /\ Avoir(caisse, u) - Avoir(caisse', u) <= MiseEffectiveMatch(matchs[g])
  <1>1. PICK l, m : /\ l = IF w = matchs[g].hote THEN matchs[g].invite ELSE matchs[g].hote
                    /\ m = MiseEffectiveMatch(matchs[g])
    OBVIOUS
  <1>2. /\ g \notin Courses /\ matchs[g].statut = "en_cours"
        /\ w \in {matchs[g].hote, matchs[g].invite}
    BY DEF Cloturer, Cloturable, EstLapin
  <1>3. /\ matchs[g] \in LignesMatch /\ caisse \in Banques
        /\ l \in {matchs[g].hote, matchs[g].invite} \cap Joueurs /\ l # w
        /\ m \in Nat /\ Avoir(caisse, u) \in Nat
    BY <1>1, <1>2, Depart, EffectiveType, AvoirType DEF IInv, Rangs, Place
  <1>4. matchs'[g].statut = "termine" /\ matchs'[g].vainqueur = w
    <2>1. matchs' = [matchs EXCEPT ![g] = [@ EXCEPT !.statut = "termine", !.vainqueur = w]]
      BY DEF Cloturer
    <2> QED BY <1>3, <2>1 DEF IInv, Rangs, LignesMatch
  <1>5. matchs[g].mise # 0
    BY <1>3 DEF Cloturer, Regler
  <1>6. caisse' = ReglerDuel(caisse, w, l, m, g)
    BY <1>1, <1>5 DEF Cloturer, Regler
  <1>7. /\ \A v \in Joueurs \ {l} : Avoir(caisse', v) >= Avoir(caisse, v)
        /\ Avoir(caisse, l) - Avoir(caisse', l) <= m
        /\ caisse' \in Banques
    <2>1. l \in Joueurs /\ w # l /\ m \in Nat /\ caisse \in Banques
      BY <1>3
    <2>2. PICK r : r = ReglerDuel(caisse, w, l, m, g)
      OBVIOUS
    <2>3. /\ \A v \in Joueurs \ {l} : Avoir(r, v) >= Avoir(caisse, v)
          /\ Avoir(caisse, l) - Avoir(r, l) <= m
          /\ r \in Banques
      BY <2>1, <2>2, ReglerBorne
    <2> QED BY <1>6, <2>2, <2>3
  <1>8. Avoir(caisse', u) \in Nat
    BY <1>7, AvoirType
  <1>9. u = l
    BY <1>3, <1>7, <1>8
  <1> QED BY <1>1, <1>2, <1>3, <1>4, <1>7, <1>9

\* Whatever matches are created, joined, raced, annulled and closed beside each
\* other, and whatever keys their ledger holds, money is only ever lost by the
\* loser of a match that was just won, and never more than its smaller stake.
THEOREM SeulLePerdantPaieTheoreme == MatchesSpec => SeulLePerdantPaieMatchs
  <1>1. ASSUME IInv, [MatchesNext]_matchVars, NEW u \in Joueurs,
               Avoir(caisse', u) < Avoir(caisse, u)
        PROVE  \E g \in Parties :
                  /\ matchs[g].statut = "en_cours" /\ matchs'[g].statut = "termine"
                  /\ u \in {matchs[g].hote, matchs[g].invite} \ {matchs'[g].vainqueur}
                  /\ Avoir(caisse, u) - Avoir(caisse', u) <= MiseEffectiveMatch(matchs[g])
    <2>1. Avoir(caisse, u) \in Nat
      BY <1>1, AvoirType DEF IInv
    <2>2. Avoir(caisse', u) # Avoir(caisse, u)
      BY <1>1, <2>1
    <2>3. ~ HorsVictoire
      BY <1>1, <2>2, HorsVictoireConserve DEF Conserve
    <2>4. ~ UNCHANGED matchVars
      BY <2>2 DEF matchVars
    <2>5. PICK g \in Parties, w \in Joueurs : Cloturer(g, w)
      BY <1>1, <2>3, <2>4 DEF MatchesNext
    <2> QED BY <1>1, <2>5, VictoirePaie
  <1>2. ASSUME IInv, [MatchesNext]_matchVars
        PROVE  \A u \in Joueurs :
                 Avoir(caisse', u) < Avoir(caisse, u) =>
                   \E g \in Parties :
                      /\ matchs[g].statut = "en_cours" /\ matchs'[g].statut = "termine"
                      /\ u \in {matchs[g].hote, matchs[g].invite} \ {matchs'[g].vainqueur}
                      /\ Avoir(caisse, u) - Avoir(caisse', u) <= MiseEffectiveMatch(matchs[g])
    BY <1>1, <1>2
  <1> QED BY <1>2, MatchesTenus, PTL DEF MatchesSpec, SeulLePerdantPaieMatchs

-----------------------------------------------------------------------------
(* The stakes stay covered.  What a match keeps of a player is his effective *)
(* stake, from the reservation to the refund or the closing, also of a guest *)
(* of a race who was put out of it: that is what every step leaves covered.  *)

RangSain(g, r, e) ==
    /\ r.statut = "absent" => r = Absent /\ e.inviter = Personne /\ ~ e.lancer
    /\ r.invite = Personne \/ r.mise = 0 => r.proposee = 0
    /\ r.statut = "en_attente" => r.proposee \in {0, r.mise}
    /\ r.statut = "en_attente" /\ g \notin Courses => r.invite = Personne
    /\ r.statut # "absent" => /\ r.hote \in Joueurs
                              /\ r.invite # r.hote /\ e.inviter # r.hote

ReserveSaine(g, r, ks) ==
    /\ r.mise # 0 /\ r.statut # "absent" => CleDe("reserve", g, r.hote) \in ks
    /\ r.mise # 0 /\ r.statut = "en_cours" /\ g \notin Courses =>
         CleDe("reserve", g, r.invite) \in ks
    /\ g \notin Courses =>
         \A u \in Joueurs : CleDe("reserve", g, u) \in ks => u \in {r.hote, r.invite}

(* What the key op:g:u says of the match g, if it is in the ledger *)
CleSaine(op, g, u, r) ==
    /\ r.statut # "absent"
    /\ op \notin {"reserve", "refus"} => r.statut # "en_attente"
    /\ op \in {"perdant", "gagnant"} => g \notin Courses /\ r.statut = "termine"
    /\ op \in {"annulation", "egalite"} => g \in Courses \/ r.statut = "annule"
    /\ op = "refus" => g \in Courses /\ u # r.hote

ClesSaines(g, r, ks) ==
    \A op \in Operations, u \in Utilisateurs :
        CleDe(op, g, u) \in ks => CleSaine(op, g, u, r)

Sain(g, r, e, ks) == RangSain(g, r, e) /\ ReserveSaine(g, r, ks) /\ ClesSaines(g, r, ks)

Regles == \A g \in Parties : Sain(g, matchs[g], enVol[g], caisse.cles)

(* What g keeps of the blocked balance of u *)
Retenue(g, r, ks, u) ==
    IF /\ CleDe("reserve", g, u) \in ks
       /\ \A op \in {"annulation", "refus"} : CleDe(op, g, u) \notin ks
       /\ g \in Courses \/ r.statut \in {"en_attente", "en_cours"}
    THEN MiseEffectiveMatch(r) ELSE 0

(* RenduParCourse, of one match *)
RenduIci(g, r, ks, u) ==
    /\ g \in Courses /\ u # r.hote
    /\ \E op \in {"annulation", "refus", "surplus"} : CleDe(op, g, u) \in ks

HorsCourse(g, ks, u) == g \in Courses => CleDe("reserve", g, u) \notin ks

(* From b to c the blocked balance of u follows what g keeps of it *)
Suit(g, r, b, s, c, u) ==
    ~ RenduIci(g, s, c.cles, u) /\ Retenue(g, r, b.cles, u) <= b.bloque[u] =>
        /\ c.bloque[u] + Retenue(g, r, b.cles, u) >= b.bloque[u] + Retenue(g, s, c.cles, u)
        /\ HorsCourse(g, c.cles, u) =>
             c.bloque[u] + Retenue(g, r, b.cles, u) = b.bloque[u] + Retenue(g, s, c.cles, u)

(* The step is one of the match g *)
Ailleurs(g) ==
    /\ caisse.cles \subseteq caisse'.cles
    /\ \A h \in Parties \ {g} :
          /\ matchs'[h] = matchs[h] /\ enVol'[h] = enVol[h]
          /\ \A op \in Operations, u \in Utilisateurs :
                CleDe(op, h, u) \in caisse'.cles <=> CleDe(op, h, u) \in caisse.cles

Etape(g) ==
    /\ Ailleurs(g)
    /\ matchs[g].statut # "absent" =>
         matchs'[g].hote = matchs[g].hote /\ matchs'[g].mise = matchs[g].mise
    /\ matchs'[g].statut # "absent"
    /\ Sain(g, matchs'[g], enVol'[g], caisse'.cles)
    /\ \A u \in Joueurs : Suit(g, matchs[g], caisse, matchs'[g], caisse', u)

-----------------------------------------------------------------------------
LEMMA CleEgale ==
    ASSUME NEW op, NEW g, NEW u, NEW po, NEW h, NEW v
    PROVE  CleDe(op, g, u) = CleDe(po, h, v) <=> op = po /\ g = h /\ u = v
  BY DEF CleDe

LEMMA RetenueType ==
    ASSUME NEW r \in LignesMatch, NEW g, NEW ks, NEW u
    PROVE  Retenue(g, r, ks, u) \in Nat /\ Retenue(g, r, ks, u) \in {0, MiseEffectiveMatch(r)}
  BY EffectiveType DEF Retenue

\* Without a stake there is nothing to keep; a match that waits keeps the
\* stake of the match.
LEMMA EffectiveSaine ==
    ASSUME NEW r \in LignesMatch, NEW g, NEW e, RangSain(g, r, e)
    PROVE  /\ r.mise = 0 => MiseEffectiveMatch(r) = 0
           /\ r.statut = "en_attente" => MiseEffectiveMatch(r) = r.mise
           /\ MiseEffectiveMatch(r) \in Nat /\ MiseEffectiveMatch(r) <= r.mise
  <1>1. r.mise \in Nat /\ r.proposee \in Nat
    BY EffectiveType
  <1> QED BY <1>1 DEF RangSain, MiseEffectiveMatch, Moindre

(* The step writes the row and the calls of g, and the keys N, all of g *)
Ecrit(g, r, e) == matchs' = [matchs EXCEPT ![g] = r] /\ enVol' = [enVol EXCEPT ![g] = e]
ClesDuMatch(g, N) ==
    \A k \in N : \E op \in Operations, u \in Utilisateurs : k = CleDe(op, g, u)

\* Such a step leaves the other matches alone.
LEMMA EtapeAilleurs ==
    ASSUME Rangs, NEW g \in Parties, NEW r, NEW e, Ecrit(g, r, e),
           NEW K, NEW N, NEW b, NEW c, b = caisse, c = caisse', Augmente(K, b, c, N),
           ClesDuMatch(g, N)
    PROVE  Ailleurs(g) /\ matchs'[g] = r /\ enVol'[g] = e
  <1>1. /\ matchs'[g] = r /\ enVol'[g] = e
        /\ \A h \in Parties \ {g} : matchs'[h] = matchs[h] /\ enVol'[h] = enVol[h]
    BY DEF Rangs, Ecrit
  <1>2. caisse.cles \subseteq caisse'.cles /\ caisse'.cles \subseteq caisse.cles \cup N
    BY DEF Augmente
  <1>3. ASSUME NEW h \in Parties \ {g}, NEW op \in Operations, NEW u \in Utilisateurs
        PROVE  CleDe(op, h, u) \in caisse'.cles <=> CleDe(op, h, u) \in caisse.cles
    <2>1. CleDe(op, h, u) \notin N
      BY CleEgale DEF ClesDuMatch
    <2> QED BY <1>2, <2>1
  <1> QED BY <1>1, <1>2, <1>3 DEF Ailleurs

\* A match is created: it keeps the stake of its host.
LEMMA CreerEtape ==
    ASSUME NEW K, Tient(K), Rangs, Regles,
           NEW g \in Parties, NEW u \in Joueurs, NEW m \in MisesMatch, Creer(u, g, m)
    PROVE  Etape(g)
  <1>1. PICK s : s = [matchs[g] EXCEPT !.statut = "en_attente", !.hote = u, !.mise = m]
    OBVIOUS
  <1>2. PICK r, e, b, c : r = matchs[g] /\ e = enVol[g] /\ b = caisse /\ c = caisse'
    OBVIOUS
  <1>3. r \in LignesMatch /\ b \in FondsDe(K) /\ m \in Nat /\ Sain(g, r, e, b.cles)
    BY <1>2, Depart, MisesMatchHypothese DEF Tient, Regles
  <1>4. r = Absent /\ e.inviter = Personne
    BY <1>2, <1>3 DEF Creer, Sain, RangSain
  <1>5. /\ s.statut = "en_attente" /\ s.hote = u /\ s.invite = Personne
        /\ s.mise = m /\ s.proposee = 0
    BY <1>1, <1>2, <1>4 DEF Absent
  <1>6. Augmente(K, b, c, {CleDe("reserve", g, u)})
    BY <1>2, CreerPas
  <1>7. Ailleurs(g) /\ matchs'[g] = s /\ enVol'[g] = e
    <2>1. Ecrit(g, s, e)
      BY <1>1, <1>2 DEF Creer, Rangs, Ecrit
    <2>2. PICK N : N = {CleDe("reserve", g, u)}
      OBVIOUS
    <2>3. Augmente(K, b, c, N)
      BY <1>6, <2>2
    <2>4. ClesDuMatch(g, N)
      BY <2>2 DEF Operations, ClesDuMatch, Utilisateurs
    <2> QED BY <1>2, <2>1, <2>3, <2>4, EtapeAilleurs
  <1>8. \A op \in Operations, v \in Utilisateurs : CleDe(op, g, v) \notin b.cles
    BY <1>2, <1>3 DEF Creer, Sain, ClesSaines, CleSaine
  <1>9. \A op \in Operations, v \in Utilisateurs :
           CleDe(op, g, v) \in c.cles => op = "reserve" /\ v = u
    BY <1>6, <1>8, CleEgale DEF Augmente
  <1>10. /\ m = 0 => c = b
         /\ \A v \in Joueurs \ {u} : c.bloque[v] = b.bloque[v]
         /\ m # 0 => /\ CleDe("reserve", g, u) \in c.cles
                     /\ c.bloque[u] = b.bloque[u] + m
    <2>1. m = 0 => c = b
      BY <1>2 DEF Creer
    <2>2. CASE m # 0
      <3>1. c = BloquerMise(b, u, m, CleDe("reserve", g, u))
        BY <1>2, <2>2 DEF Creer
      <3>2. CleDe("reserve", g, u) \notin b.cles
        BY <1>8 DEF Operations
      <3> QED BY <1>3, <2>2, <3>1, <3>2, BloquerBloque
    <2> QED BY <2>1, <2>2
  <1>11. Sain(g, s, e, c.cles)
    <2>1. RangSain(g, s, e)
      BY <1>4, <1>5, PersonneHypothese DEF RangSain
    <2>2. ReserveSaine(g, s, c.cles)
      BY <1>5, <1>9, <1>10 DEF ReserveSaine, Operations
    <2>3. ClesSaines(g, s, c.cles)
      BY <1>5, <1>9 DEF ClesSaines, CleSaine
    <2> QED BY <2>1, <2>2, <2>3 DEF Sain
  <1>12. ASSUME NEW v \in Joueurs PROVE Suit(g, r, b, s, c, v)
    <2>1. Retenue(g, r, b.cles, v) = 0
      BY <1>8 DEF Retenue, Operations
    <2>2. b.bloque[v] \in Nat
      BY <1>3, ChampsFonds
    <2>3. MiseEffectiveMatch(s) = m
      BY <1>5 DEF MiseEffectiveMatch
    <2>4. CASE v # u
      <3>1. Retenue(g, s, c.cles, v) = 0
        BY <1>9, <2>4 DEF Retenue, Operations
      <3> QED BY <1>10, <2>1, <2>2, <2>4, <3>1 DEF Suit
    <2>5. CASE v = u /\ m = 0
      <3>1. Retenue(g, s, c.cles, v) = 0
        BY <2>3, <2>5 DEF Retenue
      <3> QED BY <1>10, <2>1, <2>2, <2>5, <3>1 DEF Suit
    <2>6. CASE v = u /\ m # 0
      <3>1. \A op \in {"annulation", "refus"} : CleDe(op, g, v) \notin c.cles
        BY <1>9 DEF Operations
      <3>2. Retenue(g, s, c.cles, v) = m
        BY <1>5, <1>10, <2>3, <2>6, <3>1 DEF Retenue
      <3> QED BY <1>3, <1>10, <2>1, <2>2, <2>6, <3>2 DEF Suit
    <2> QED BY <2>4, <2>5, <2>6
  <1>13. r.statut = "absent"
    BY <1>4 DEF Absent
  <1> QED BY <1>2, <1>5, <1>7, <1>11, <1>12, <1>13 DEF Etape

\* A step of a race that moves no money: what the race keeps depends neither on
\* its guest nor on its status.
LEMMA CourseEtape ==
    ASSUME NEW K, Tient(K), Rangs, Regles, NEW g \in Parties,
           \/ \E u, v \in Joueurs : InviterLit(u, g, v)
           \/ InviterEcrit(g)
           \/ \E u \in Joueurs : LancerLit(u, g)
           \/ LancerEcrit(g)
    PROVE  Etape(g)
  <1>1. g \in Courses /\ UNCHANGED caisse
    BY CourseSansArgent DEF InviterLit, InviterEcrit, LancerLit, LancerEcrit, EstLapin,
                            Rangs, Place
  <1>2. PICK r, e, b, s, f : /\ r = matchs[g] /\ e = enVol[g] /\ b = caisse
                             /\ s = matchs'[g] /\ f = enVol'[g]
    OBVIOUS
  <1>3. /\ r \in LignesMatch /\ e \in EnVols /\ b \in FondsDe(K) /\ Sain(g, r, e, b.cles)
        /\ r.statut # "absent" \/ e.inviter # Personne \/ e.lancer => r.hote \in Joueurs
    BY <1>2, Depart DEF Tient, Regles
  <1>4. \A h \in Parties \ {g} : matchs'[h] = matchs[h] /\ enVol'[h] = enVol[h]
    BY DEF InviterLit, InviterEcrit, LancerLit, LancerEcrit, Rangs
  <1>5. Ailleurs(g)
    BY <1>1, <1>4 DEF Ailleurs
  <1>6. r.statut # "absent"
    <2>1. r.statut = "absent" => r.hote = Personne /\ e.inviter = Personne /\ ~ e.lancer
      BY <1>3 DEF Sain, RangSain, Absent
    <2>2. r.statut # "absent" \/ e.inviter # Personne \/ e.lancer \/ r.hote \in Joueurs
      BY <1>2 DEF InviterLit, InviterEcrit, LancerLit, LancerEcrit
    <2> QED BY <2>1, <2>2, PersonneHypothese
  <1>7. /\ s.hote = r.hote /\ s.mise = r.mise /\ s.proposee = r.proposee
        /\ s.statut # "absent"
        /\ s.statut = "en_attente" => r.statut = "en_attente"
        /\ s.invite = Personne => r.invite = Personne
        /\ s.invite # r.hote /\ f.inviter # r.hote
    <2>1. CASE \E u, v \in Joueurs : InviterLit(u, g, v)
      <3>1. PICK u, v \in Joueurs : InviterLit(u, g, v)
        BY <2>1
      <3>2. s = r /\ f = [e EXCEPT !.inviter = v] /\ v # r.hote
        BY <1>2, <3>1 DEF InviterLit, Rangs
      <3>3. f.inviter = v
        BY <1>3, <3>2 DEF EnVols
      <3> QED BY <1>3, <1>6, <3>2, <3>3 DEF Sain, RangSain
    <2>2. CASE InviterEcrit(g)
      <3>1. /\ s = [r EXCEPT !.invite = e.inviter, !.prete = FALSE]
            /\ f = [e EXCEPT !.inviter = Personne] /\ e.inviter # Personne
        BY <1>2, <2>2 DEF InviterEcrit, Rangs
      <3>2. /\ s.invite = e.inviter /\ s.hote = r.hote /\ s.mise = r.mise
            /\ s.proposee = r.proposee /\ s.statut = r.statut
        BY <1>3, <3>1 DEF LignesMatch
      <3>3. f.inviter = Personne /\ r.hote # Personne
        BY <1>3, <1>6, <3>1, PersonneHypothese DEF EnVols
      <3> QED BY <1>3, <1>6, <3>1, <3>2, <3>3 DEF Sain, RangSain
    <2>3. CASE \E u \in Joueurs : LancerLit(u, g)
      <3>1. s = r /\ f = [e EXCEPT !.lancer = TRUE]
        BY <1>2, <2>3 DEF LancerLit, Rangs
      <3>2. f.inviter = e.inviter
        BY <1>3, <3>1 DEF EnVols
      <3> QED BY <1>3, <1>6, <3>1, <3>2 DEF Sain, RangSain
    <2>4. CASE LancerEcrit(g)
      <3>1. /\ s = [r EXCEPT !.statut = "en_cours"]
            /\ f = [e EXCEPT !.lancer = FALSE]
        BY <1>2, <2>4 DEF LancerEcrit, Rangs
      <3>2. /\ s.invite = r.invite /\ s.hote = r.hote /\ s.mise = r.mise
            /\ s.proposee = r.proposee /\ s.statut = "en_cours"
        BY <1>3, <3>1 DEF LignesMatch
      <3>3. f.inviter = e.inviter
        BY <1>3, <3>1 DEF EnVols
      <3> QED BY <1>3, <1>6, <3>2, <3>3 DEF Sain, RangSain
    <2> QED BY <2>1, <2>2, <2>3, <2>4
  <1>8. Sain(g, s, f, b.cles)
    <2>1. RangSain(g, s, f)
      BY <1>1, <1>3, <1>6, <1>7 DEF Sain, RangSain
    <2>2. ReserveSaine(g, s, b.cles)
      BY <1>1, <1>3, <1>6, <1>7 DEF Sain, ReserveSaine
    <2>3. ClesSaines(g, s, b.cles)
      BY <1>1, <1>3, <1>7 DEF Sain, ClesSaines, CleSaine
    <2> QED BY <2>1, <2>2, <2>3 DEF Sain
  <1>9. ASSUME NEW v \in Joueurs PROVE Suit(g, r, b, s, b, v)
    <2>1. MiseEffectiveMatch(s) = MiseEffectiveMatch(r)
      BY <1>7 DEF MiseEffectiveMatch
    <2>2. Retenue(g, s, b.cles, v) = Retenue(g, r, b.cles, v)
      BY <1>1, <2>1 DEF Retenue
    <2>3. b.bloque[v] \in Nat /\ Retenue(g, r, b.cles, v) \in Nat
      BY <1>3, ChampsFonds, RetenueType
    <2> QED BY <2>2, <2>3 DEF Suit
  <1> QED BY <1>1, <1>2, <1>5, <1>7, <1>8, <1>9 DEF Etape

\* A guest accepts a race: the race keeps his stake as well.
LEMMA AccepterEtape ==
    ASSUME NEW K, Tient(K), Rangs, Regles,
           NEW g \in Parties, NEW u \in Joueurs, Accepter(u, g)
    PROVE  Etape(g)
  <1>1. PICK r, e, b, c : r = matchs[g] /\ e = enVol[g] /\ b = caisse /\ c = caisse'
    OBVIOUS
  <1>2. PICK s : s = [r EXCEPT !.invite = u, !.prete = TRUE, !.proposee = r.mise]
    OBVIOUS
  <1>3. r \in LignesMatch /\ b \in FondsDe(K) /\ Sain(g, r, e, b.cles) /\ r.mise \in Nat
    BY <1>1, Depart DEF Tient, Regles
  <1>4. g \in Courses /\ r.statut = "en_attente" /\ r.hote # u
    BY <1>1 DEF Accepter, EstLapin
  <1>5. /\ s.statut = "en_attente" /\ s.hote = r.hote /\ s.invite = u
        /\ s.mise = r.mise /\ s.proposee = r.mise
    BY <1>2, <1>3, <1>4 DEF LignesMatch
  <1>6. Augmente(K, b, c, {CleDe("reserve", g, u)})
    BY <1>1, AccepterPas
  <1>7. Ailleurs(g) /\ matchs'[g] = s /\ enVol'[g] = e
    <2>1. Ecrit(g, s, e)
      BY <1>1, <1>2 DEF Accepter, Rangs, Ecrit
    <2>2. PICK N : N = {CleDe("reserve", g, u)}
      OBVIOUS
    <2>3. Augmente(K, b, c, N)
      BY <1>6, <2>2
    <2>4. ClesDuMatch(g, N)
      BY <2>2 DEF Operations, ClesDuMatch, Utilisateurs
    <2> QED BY <1>1, <2>1, <2>3, <2>4, EtapeAilleurs
  <1>8. \A op \in Operations, v \in Utilisateurs :
           CleDe(op, g, v) \in c.cles =>
             CleDe(op, g, v) \in b.cles \/ (op = "reserve" /\ v = u)
    BY <1>6, CleEgale DEF Augmente
  <1>9. b.cles \subseteq c.cles
    BY <1>6 DEF Augmente
  <1>10. /\ r.mise = 0 => c = b
         /\ \A v \in Joueurs \ {u} : c.bloque[v] = b.bloque[v]
         /\ r.mise # 0 =>
              /\ CleDe("reserve", g, u) \in c.cles
              /\ c.bloque[u] = IF CleDe("reserve", g, u) \in b.cles THEN b.bloque[u]
                               ELSE b.bloque[u] + r.mise
    <2>1. r.mise = 0 => c = b
      BY <1>1 DEF Accepter
    <2>2. CASE r.mise # 0
      <3>1. c = BloquerMise(b, u, r.mise, CleDe("reserve", g, u))
        BY <1>1, <2>2 DEF Accepter
      <3> QED BY <1>3, <2>2, <3>1, BloquerBloque
    <2> QED BY <2>1, <2>2
  <1>11. Sain(g, s, e, c.cles)
    <2>1. RangSain(g, s, e)
      BY <1>3, <1>4, <1>5, PersonneHypothese DEF Sain, RangSain
    <2>2. ReserveSaine(g, s, c.cles)
      BY <1>3, <1>4, <1>5, <1>9 DEF Sain, ReserveSaine
    <2>3. ClesSaines(g, s, c.cles)
      <3> SUFFICES ASSUME NEW op \in Operations, NEW v \in Utilisateurs,
                          CleDe(op, g, v) \in c.cles
                   PROVE  CleSaine(op, g, v, s)
        BY DEF ClesSaines
      <3>1. CASE CleDe(op, g, v) \in b.cles
        BY <1>3, <1>4, <1>5, <3>1 DEF Sain, ClesSaines, CleSaine
      <3>2. CASE op = "reserve"
        BY <1>5, <3>2 DEF CleSaine
      <3> QED BY <1>8, <3>1, <3>2
    <2> QED BY <2>1, <2>2, <2>3 DEF Sain
  <1>12. ASSUME NEW v \in Joueurs PROVE Suit(g, r, b, s, c, v)
    <2>1. b.bloque[v] \in Nat /\ Retenue(g, r, b.cles, v) \in Nat
      BY <1>3, ChampsFonds, RetenueType
    <2>2. MiseEffectiveMatch(s) = r.mise /\ MiseEffectiveMatch(r) = r.mise
      <3>1. MiseEffectiveMatch(s) = r.mise
        BY <1>3, <1>5 DEF MiseEffectiveMatch, Moindre
      <3> QED BY <1>3, <1>4, <3>1, EffectiveSaine DEF Sain
    <2>3. \A op \in {"annulation", "refus"} :
             CleDe(op, g, v) \in c.cles <=> CleDe(op, g, v) \in b.cles
      BY <1>8, <1>9 DEF Operations
    <2>4. CASE CleDe("reserve", g, v) \in c.cles <=> CleDe("reserve", g, v) \in b.cles
      <3>1. Retenue(g, s, c.cles, v) = Retenue(g, r, b.cles, v)
        BY <1>4, <2>2, <2>3, <2>4 DEF Retenue
      <3>2. c.bloque[v] = b.bloque[v]
        BY <1>10, <2>4
      <3> QED BY <2>1, <3>1, <3>2 DEF Suit
    <2>5. CASE /\ CleDe("reserve", g, v) \in c.cles
               /\ CleDe("reserve", g, v) \notin b.cles
      <3>1. v = u /\ r.mise # 0
        BY <1>8, <1>10, <2>5 DEF Operations
      <3>2. Retenue(g, r, b.cles, v) = 0
        BY <2>5 DEF Retenue
      <3>3. c.bloque[v] = b.bloque[v] + r.mise
        BY <1>10, <2>5, <3>1
      <3>4. Retenue(g, s, c.cles, v) = r.mise \/ Retenue(g, s, c.cles, v) = 0
        BY <2>2 DEF Retenue
      <3>5. ~ RenduIci(g, s, c.cles, v) => Retenue(g, s, c.cles, v) = r.mise
        <4>1. ~ RenduIci(g, s, c.cles, v) =>
                \A op \in {"annulation", "refus"} : CleDe(op, g, v) \notin c.cles
          BY <1>4, <1>5, <3>1 DEF RenduIci
        <4> QED BY <1>4, <2>2, <2>5, <4>1 DEF Retenue
      <3> QED BY <1>3, <2>1, <3>2, <3>3, <3>5 DEF Suit
    <2> QED BY <1>9, <2>4, <2>5
  <1> QED BY <1>1, <1>5, <1>7, <1>11, <1>12 DEF Etape

\* liberer_mise for a user who may be nobody, on the blocked balances.
LEMMA RendreDebloque ==
    ASSUME NEW K, NEW b \in FondsDe(K), NEW u \in Utilisateurs, NEW m \in Nat,
           NEW op, NEW g, NEW c, c = Rendre(b, u, m, op, g)
    PROVE  /\ u = Personne \/ m = 0 => c = b
           /\ u \in Joueurs /\ m # 0 => Debloque(b, c, u, m, CleDe(op, g, u))
           /\ \A v \in Joueurs \ {u} : c.bloque[v] = b.bloque[v]
           /\ u \in Joueurs => (m <= b.bloque[u] /\ CleDe(op, g, u) \notin b.cles =>
                                  c.bloque[u] = b.bloque[u] - m)
  <1>1. CASE u = Personne \/ m = 0
    <2>1. c = b
      BY <1>1 DEF Rendre
    <2>2. u \in Joueurs => b.bloque[u] \in Nat /\ m = 0
      BY <1>1, ChampsFonds, PersonneHypothese
    <2>3. u \in Joueurs => b.bloque[u] = b.bloque[u] - m
      BY <2>2
    <2> QED BY <1>1, <2>1, <2>3, PersonneHypothese
  <1>2. CASE ~ (u = Personne \/ m = 0)
    <2>1. c = LibererMise(b, u, m, CleDe(op, g, u)) /\ u \in Joueurs
      BY <1>2 DEF Rendre, Utilisateurs
    <2>2. Debloque(b, c, u, m, CleDe(op, g, u))
      BY <2>1, LibererDebloque
    <2> QED BY <1>2, <2>1, <2>2 DEF Debloque
  <1> QED BY <1>1, <1>2

\* A refusal: the race still keeps what it kept of all but its guest.
LEMMA RefuserEtape ==
    ASSUME NEW K, Tient(K), Rangs, Regles,
           NEW g \in Parties, NEW u \in Joueurs, Refuser(u, g)
    PROVE  Etape(g)
  <1>1. PICK r, e, b, c : r = matchs[g] /\ e = enVol[g] /\ b = caisse /\ c = caisse'
    OBVIOUS
  <1>2. PICK s : s = [r EXCEPT !.invite = Personne, !.prete = FALSE, !.proposee = 0]
    OBVIOUS
  <1>3. /\ r \in LignesMatch /\ b \in FondsDe(K) /\ Sain(g, r, e, b.cles)
        /\ r.mise \in Nat /\ r.invite \in Utilisateurs
    BY <1>1, Depart DEF Tient, Regles
  <1>4. /\ g \in Courses /\ r.statut = "en_attente" /\ r.invite # Personne
        /\ c = Rendre(b, r.invite, r.mise, "refus", g)
    BY <1>1 DEF Refuser, EstLapin
  <1>5. r.invite \in Joueurs /\ r.hote \in Joueurs /\ r.invite # r.hote
    BY <1>3, <1>4 DEF Sain, RangSain, Utilisateurs
  <1>6. /\ s.statut = "en_attente" /\ s.hote = r.hote /\ s.invite = Personne
        /\ s.mise = r.mise /\ s.proposee = 0
    BY <1>2, <1>3, <1>4 DEF LignesMatch
  <1>7. Augmente(K, b, c, {CleDe("refus", g, r.invite)})
    BY <1>1, RefuserPas
  <1>8. Ailleurs(g) /\ matchs'[g] = s /\ enVol'[g] = e
    <2>1. Ecrit(g, s, e)
      BY <1>1, <1>2 DEF Refuser, Rangs, Ecrit
    <2>2. PICK N : N = {CleDe("refus", g, r.invite)}
      OBVIOUS
    <2>3. Augmente(K, b, c, N)
      BY <1>7, <2>2
    <2>4. ClesDuMatch(g, N)
      BY <1>3, <2>2 DEF Operations, ClesDuMatch
    <2> QED BY <1>1, <2>1, <2>3, <2>4, EtapeAilleurs
  <1>9. /\ b.cles \subseteq c.cles
        /\ \A op \in Operations, v \in Utilisateurs :
             CleDe(op, g, v) \in c.cles =>
               CleDe(op, g, v) \in b.cles \/ (op = "refus" /\ v = r.invite)
    BY <1>7, CleEgale DEF Augmente
  <1>10. Sain(g, s, e, c.cles)
    <2>1. RangSain(g, s, e)
      BY <1>3, <1>4, <1>5, <1>6, PersonneHypothese DEF Sain, RangSain
    <2>2. ReserveSaine(g, s, c.cles)
      BY <1>3, <1>4, <1>6, <1>9 DEF Sain, ReserveSaine
    <2>3. ClesSaines(g, s, c.cles)
      <3> SUFFICES ASSUME NEW op \in Operations, NEW v \in Utilisateurs,
                          CleDe(op, g, v) \in c.cles
                   PROVE  CleSaine(op, g, v, s)
        BY DEF ClesSaines
      <3>1. CASE CleDe(op, g, v) \in b.cles
        BY <1>3, <1>4, <1>6, <3>1 DEF Sain, ClesSaines, CleSaine
      <3>2. CASE op = "refus" /\ v = r.invite
        BY <1>4, <1>5, <1>6, <3>2 DEF CleSaine
      <3> QED BY <1>9, <3>1, <3>2
    <2> QED BY <2>1, <2>2, <2>3 DEF Sain
  <1>11. ASSUME NEW v \in Joueurs PROVE Suit(g, r, b, s, c, v)
    <2>1. b.bloque[v] \in Nat /\ Retenue(g, r, b.cles, v) \in Nat
      BY <1>3, ChampsFonds, RetenueType
    <2>2. MiseEffectiveMatch(s) = r.mise /\ MiseEffectiveMatch(r) = r.mise
      BY <1>3, <1>4, <1>6, EffectiveSaine DEF Sain, MiseEffectiveMatch
    <2>3. /\ r.mise = 0 => c = b
          /\ v # r.invite => c.bloque[v] = b.bloque[v]
          /\ r.mise # 0 => CleDe("refus", g, r.invite) \in c.cles
      BY <1>3, <1>4, <1>5, RendreDebloque DEF Debloque
    <2>4. CASE v = r.invite /\ r.mise # 0
      BY <1>4, <1>5, <1>6, <2>3, <2>4 DEF Suit, RenduIci
    <2>5. CASE ~ (v = r.invite /\ r.mise # 0)
      <3>1. c.bloque[v] = b.bloque[v]
        BY <2>3, <2>5
      <3>2. \A op \in {"reserve", "annulation", "refus"} :
               CleDe(op, g, v) \in c.cles <=> CleDe(op, g, v) \in b.cles
        BY <1>9, <2>3, <2>5 DEF Operations, Utilisateurs
      <3>3. Retenue(g, s, c.cles, v) = Retenue(g, r, b.cles, v)
        BY <1>4, <2>2, <3>2 DEF Retenue
      <3> QED BY <2>1, <3>1, <3>3 DEF Suit
    <2> QED BY <2>4, <2>5
  <1> QED BY <1>1, <1>6, <1>8, <1>10, <1>11 DEF Etape

\* An annulment while the match waits: it keeps nothing more of its host, and
\* the guest of a race gets his stake back.
LEMMA AnnulerEtape ==
    ASSUME NEW K, Tient(K), Rangs, Regles,
           NEW g \in Parties, NEW u \in Joueurs, Annuler(u, g)
    PROVE  Etape(g)
  <1>1. PICK r, e, b, c : r = matchs[g] /\ e = enVol[g] /\ b = caisse /\ c = caisse'
    OBVIOUS
  <1>2. PICK s : s = [r EXCEPT !.statut = "annule"]
    OBVIOUS
  <1>3. /\ r \in LignesMatch /\ b \in FondsDe(K) /\ Sain(g, r, e, b.cles)
        /\ r.mise \in Nat /\ r.invite \in Utilisateurs /\ Cles \subseteq K
    BY <1>1, Depart DEF Tient, Regles
  <1>4. /\ r.statut = "en_attente" /\ r.hote \in Joueurs
        /\ c = Rendre(Rendre(b, r.hote, r.mise, "annulation", g),
                      r.invite, r.mise, "annulation", g)
    BY <1>1 DEF Annuler
  <1>5. r.invite # r.hote /\ (g \notin Courses => r.invite = Personne)
    BY <1>3, <1>4 DEF Sain, RangSain
  <1>6. /\ s.statut = "annule" /\ s.hote = r.hote /\ s.invite = r.invite
        /\ s.mise = r.mise /\ s.proposee = r.proposee
    BY <1>2, <1>3 DEF LignesMatch
  <1>7. PICK a : a = Rendre(b, r.hote, r.mise, "annulation", g)
    OBVIOUS
  <1>8. /\ c = Rendre(a, r.invite, r.mise, "annulation", g)
        /\ Augmente(K, b, a, {CleDe("annulation", g, r.hote)})
        /\ a \in FondsDe(K)
        /\ Augmente(K, a, c, {CleDe("annulation", g, r.invite)})
    <2>1. r.hote \in Utilisateurs /\ "annulation" \in Operations
      BY <1>4 DEF Utilisateurs, Operations
    <2>2. Augmente(K, b, a, {CleDe("annulation", g, r.hote)})
      BY <1>3, <1>7, <2>1, RendreFonds
    <2>3. a \in FondsDe(K)
      BY <2>2 DEF Augmente
    <2>4. c = Rendre(a, r.invite, r.mise, "annulation", g)
      BY <1>4, <1>7
    <2> QED BY <1>3, <2>1, <2>2, <2>3, <2>4, RendreFonds
  <1>9. Augmente(K, b, c, {CleDe("annulation", g, r.hote), CleDe("annulation", g, r.invite)})
    BY <1>8 DEF Augmente
  <1>10. Ailleurs(g) /\ matchs'[g] = s /\ enVol'[g] = e
    <2>1. Ecrit(g, s, e)
      BY <1>1, <1>2 DEF Annuler, Rangs, Ecrit
    <2>2. PICK N : N = {CleDe("annulation", g, r.hote), CleDe("annulation", g, r.invite)}
      OBVIOUS
    <2>3. Augmente(K, b, c, N)
      BY <1>9, <2>2
    <2>4. ClesDuMatch(g, N)
      BY <1>3, <1>4, <2>2 DEF Operations, ClesDuMatch, Utilisateurs
    <2> QED BY <1>1, <2>1, <2>3, <2>4, EtapeAilleurs
  <1>11. /\ b.cles \subseteq c.cles
         /\ \A op \in Operations, v \in Utilisateurs :
              CleDe(op, g, v) \in c.cles =>
                CleDe(op, g, v) \in b.cles \/ (op = "annulation" /\ v \in {r.hote, r.invite})
    BY <1>9, CleEgale DEF Augmente
  <1>12. \A op \in Operations, v \in Utilisateurs :
            CleDe(op, g, v) \in b.cles => op \in {"reserve", "refus"} /\ (op = "refus" => v # r.hote)
    BY <1>3, <1>4 DEF Sain, ClesSaines, CleSaine
  <1>13. Sain(g, s, e, c.cles)
    <2>1. RangSain(g, s, e)
      BY <1>3, <1>4, <1>6 DEF Sain, RangSain
    <2>2. ReserveSaine(g, s, c.cles)
      BY <1>3, <1>4, <1>6, <1>11 DEF Sain, ReserveSaine, Operations, Utilisateurs
    <2>3. ClesSaines(g, s, c.cles)
      <3> SUFFICES ASSUME NEW op \in Operations, NEW v \in Utilisateurs,
                          CleDe(op, g, v) \in c.cles
                   PROVE  CleSaine(op, g, v, s)
        BY DEF ClesSaines
      <3>1. CASE CleDe(op, g, v) \in b.cles
        <4>1. op \in {"reserve", "refus"} /\ CleSaine(op, g, v, r)
          BY <1>3, <1>12, <3>1 DEF Sain, ClesSaines
        <4> QED BY <1>6, <4>1 DEF CleSaine
      <3>2. CASE op = "annulation"
        BY <1>6, <3>2 DEF CleSaine
      <3> QED BY <1>11, <3>1, <3>2
    <2> QED BY <2>1, <2>2, <2>3 DEF Sain
  <1>14. ASSUME NEW v \in Joueurs PROVE Suit(g, r, b, s, c, v)
    <2>1. b.bloque[v] \in Nat /\ Retenue(g, r, b.cles, v) \in Nat
      BY <1>3, ChampsFonds, RetenueType
    <2>2. /\ MiseEffectiveMatch(s) = MiseEffectiveMatch(r) /\ MiseEffectiveMatch(r) = r.mise
      BY <1>3, <1>4, <1>6, EffectiveSaine DEF Sain, MiseEffectiveMatch
    <2>3. /\ r.mise = 0 => a = b
          /\ \A x \in Joueurs \ {r.hote} : a.bloque[x] = b.bloque[x]
          /\ r.mise # 0 => CleDe("annulation", g, r.hote) \in a.cles
          /\ r.mise <= b.bloque[r.hote] => a.bloque[r.hote] = b.bloque[r.hote] - r.mise
      <3>1. r.hote \in Utilisateurs /\ CleDe("annulation", g, r.hote) \notin b.cles
        BY <1>4, <1>12 DEF Utilisateurs, Operations
      <3> QED BY <1>3, <1>4, <1>7, <3>1, RendreDebloque DEF Debloque
    <2>4. /\ r.mise = 0 => c = a
          /\ \A x \in Joueurs \ {r.invite} : c.bloque[x] = a.bloque[x]
          /\ r.mise # 0 /\ r.invite \in Joueurs => CleDe("annulation", g, r.invite) \in c.cles
      <3>1. /\ a \in FondsDe(K) /\ r.invite \in Utilisateurs /\ r.mise \in Nat
            /\ c = Rendre(a, r.invite, r.mise, "annulation", g)
        BY <1>3, <1>8
      <3>2. /\ r.mise = 0 => c = a
            /\ r.invite \in Joueurs /\ r.mise # 0 =>
                 Debloque(a, c, r.invite, r.mise, CleDe("annulation", g, r.invite))
            /\ \A x \in Joueurs \ {r.invite} : c.bloque[x] = a.bloque[x]
        BY <3>1, RendreDebloque
      <3> QED BY <3>2 DEF Debloque
    <2>5. a.cles \subseteq c.cles
      BY <1>8 DEF Augmente
    <2>6. CASE r.mise = 0
      <3>1. Retenue(g, r, b.cles, v) = 0 /\ Retenue(g, s, c.cles, v) = 0
        BY <2>2, <2>6 DEF Retenue
      <3> QED BY <2>1, <2>3, <2>4, <2>6, <3>1 DEF Suit
    <2>7. CASE r.mise # 0 /\ v = r.hote
      <3>1. Retenue(g, s, c.cles, v) = 0
        BY <2>3, <2>5, <2>7 DEF Retenue
      <3>2. Retenue(g, r, b.cles, v) = r.mise
        <4>1. CleDe("reserve", g, v) \in b.cles
          BY <1>3, <1>4, <2>7 DEF Sain, ReserveSaine
        <4>2. \A op \in {"annulation", "refus"} : CleDe(op, g, v) \notin b.cles
          BY <1>12, <2>7 DEF Operations, Utilisateurs
        <4> QED BY <1>4, <2>2, <4>1, <4>2 DEF Retenue
      <3>3. c.bloque[v] = a.bloque[v]
        BY <1>5, <2>4, <2>7
      <3> QED BY <1>3, <2>1, <2>3, <2>7, <3>1, <3>2, <3>3 DEF Suit
    <2>8. CASE r.mise # 0 /\ v = r.invite
      <3>1. g \in Courses /\ v # r.hote
        BY <1>5, <2>8, PersonneHypothese
      <3> QED BY <1>6, <2>4, <2>8, <3>1 DEF Suit, RenduIci
    <2>9. CASE v \notin {r.hote, r.invite}
      <3>1. c.bloque[v] = b.bloque[v]
        BY <2>3, <2>4, <2>9
      <3>2. \A op \in {"reserve", "annulation", "refus"} :
               CleDe(op, g, v) \in c.cles <=> CleDe(op, g, v) \in b.cles
        BY <1>11, <2>9 DEF Operations, Utilisateurs
      <3>3. g \notin Courses => CleDe("reserve", g, v) \notin b.cles
        BY <1>3, <2>9 DEF Sain, ReserveSaine
      <3>4. Retenue(g, s, c.cles, v) = Retenue(g, r, b.cles, v)
        BY <2>2, <3>2, <3>3 DEF Retenue
      <3> QED BY <2>1, <3>1, <3>4 DEF Suit
    <2> QED BY <2>6, <2>7, <2>8, <2>9
  <1> QED BY <1>1, <1>6, <1>10, <1>13, <1>14 DEF Etape

\* A match in progress that is not a race keeps the effective stake of both.
LEMMA EnCoursRetenue ==
    ASSUME NEW K, NEW b \in FondsDe(K), NEW g \in Parties \ Courses, NEW r \in LignesMatch,
           NEW e, Sain(g, r, e, b.cles), r.statut = "en_cours",
           NEW v \in {r.hote, r.invite} \cap Joueurs
    PROVE  Retenue(g, r, b.cles, v) = MiseEffectiveMatch(r)
  <1>1. r.mise = 0 => MiseEffectiveMatch(r) = 0
    BY EffectiveSaine DEF Sain
  <1>2. r.mise # 0 => CleDe("reserve", g, v) \in b.cles
    BY DEF Sain, ReserveSaine
  <1>3. \A op \in {"annulation", "refus"} : CleDe(op, g, v) \notin b.cles
    BY DEF Sain, ClesSaines, CleSaine, Operations, Utilisateurs
  <1> QED BY <1>1, <1>2, <1>3 DEF Retenue

\* A match that is closed keeps nothing more of its two players, who have both
\* reserved at least the effective stake.
LEMMA FinSuit ==
    ASSUME NEW K, NEW b \in FondsDe(K), NEW g \in Parties \ Courses, NEW r \in LignesMatch,
           NEW e, Sain(g, r, e, b.cles), r.statut = "en_cours", NEW s,
           s.statut \notin {"en_attente", "en_cours"}, NEW c,
           \A v \in Joueurs \ {r.hote, r.invite} : c.bloque[v] = b.bloque[v],
           \A v \in {r.hote, r.invite} :
              MiseEffectiveMatch(r) <= b.bloque[v] => c.bloque[v] = b.bloque[v] - MiseEffectiveMatch(r),
           NEW v \in Joueurs
    PROVE  Suit(g, r, b, s, c, v)
  <1>1. b.bloque[v] \in Nat /\ MiseEffectiveMatch(r) \in Nat
    BY ChampsFonds, EffectiveType
  <1>2. Retenue(g, s, c.cles, v) = 0
    BY DEF Retenue
  <1>3. CASE v \in {r.hote, r.invite}
    <2>1. Retenue(g, r, b.cles, v) = MiseEffectiveMatch(r)
      BY <1>3, EnCoursRetenue
    <2> QED BY <1>1, <1>2, <1>3, <2>1 DEF Suit
  <1>4. CASE v \notin {r.hote, r.invite}
    <2>1. Retenue(g, r, b.cles, v) = 0
      BY <1>4 DEF Retenue, Sain, ReserveSaine
    <2> QED BY <1>1, <1>2, <1>4, <2>1 DEF Suit
  <1> QED BY <1>3, <1>4

\* What the row and the ledger say of a match that is closed.
LEMMA FinSain ==
    ASSUME NEW g \in Parties \ Courses, NEW r, NEW e, NEW ks, NEW ls, NEW s, NEW N,
           Sain(g, r, e, ks), r.statut = "en_cours",
           s.statut \in {"annule", "termine"}, s.hote = r.hote, s.invite = r.invite,
           s.mise = r.mise, s.proposee = r.proposee,
           ks \subseteq ls, ls \subseteq ks \cup N,
           \A op \in Operations, u \in Utilisateurs :
              CleDe(op, g, u) \in N =>
                op \notin {"reserve", "refus"} /\ CleSaine(op, g, u, s)
    PROVE  Sain(g, s, e, ls)
  <1>1. RangSain(g, s, e)
    BY DEF Sain, RangSain
  <1>2. ReserveSaine(g, s, ls)
    <2>1. \A u \in Joueurs : CleDe("reserve", g, u) \in ls => CleDe("reserve", g, u) \in ks
      BY DEF Operations, Utilisateurs
    <2> QED BY <2>1 DEF Sain, ReserveSaine
  <1>3. ClesSaines(g, s, ls)
    <2> SUFFICES ASSUME NEW op \in Operations, NEW u \in Utilisateurs,
                        CleDe(op, g, u) \in ls
                 PROVE  CleSaine(op, g, u, s)
      BY DEF ClesSaines
    <2>1. CASE CleDe(op, g, u) \in ks
      <3>1. CleSaine(op, g, u, r)
        BY <2>1 DEF Sain, ClesSaines
      <3> QED BY <3>1 DEF CleSaine
    <2>2. CASE CleDe(op, g, u) \in N
      BY <2>2
    <2> QED BY <2>1, <2>2
  <1> QED BY <1>1, <1>2, <1>3 DEF Sain

\* A draw gives both their effective stake back.
LEMMA CloturerNulEtape ==
    ASSUME NEW K, Tient(K), Rangs, Regles, NEW g \in Parties, CloturerNul(g)
    PROVE  Etape(g)
  <1>1. PICK r, e, b, c : r = matchs[g] /\ e = enVol[g] /\ b = caisse /\ c = caisse'
    OBVIOUS
  <1>2. PICK s, m : s = [r EXCEPT !.statut = "annule"] /\ m = MiseEffectiveMatch(r)
    OBVIOUS
  <1>3. /\ r \in LignesMatch /\ b \in FondsDe(K) /\ Sain(g, r, e, b.cles)
        /\ m \in Nat /\ Cles \subseteq K
    BY <1>1, <1>2, Depart, EffectiveType DEF Tient, Regles
  <1>4. /\ g \notin Courses /\ r.statut = "en_cours"
        /\ c = Rendre(Rendre(b, r.hote, m, "egalite", g), r.invite, m, "egalite", g)
    BY <1>1, <1>2 DEF CloturerNul, Cloturable, EstLapin
  <1>5. /\ r.hote \in Joueurs /\ r.invite \in Joueurs /\ r.invite # r.hote
        /\ r.hote \in Utilisateurs /\ r.invite \in Utilisateurs /\ "egalite" \in Operations
    BY <1>1, <1>4 DEF Rangs, Place, Utilisateurs, Operations
  <1>6. /\ s.statut = "annule" /\ s.hote = r.hote /\ s.invite = r.invite
        /\ s.mise = r.mise /\ s.proposee = r.proposee
    BY <1>2, <1>3 DEF LignesMatch
  <1>7. PICK a : a = Rendre(b, r.hote, m, "egalite", g)
    OBVIOUS
  <1>8. /\ c = Rendre(a, r.invite, m, "egalite", g)
        /\ Augmente(K, b, a, {CleDe("egalite", g, r.hote)})
        /\ a \in FondsDe(K)
        /\ Augmente(K, a, c, {CleDe("egalite", g, r.invite)})
    <2>1. Augmente(K, b, a, {CleDe("egalite", g, r.hote)})
      BY <1>3, <1>5, <1>7, RendreFonds
    <2>2. a \in FondsDe(K)
      BY <2>1 DEF Augmente
    <2>3. c = Rendre(a, r.invite, m, "egalite", g)
      BY <1>4, <1>7
    <2> QED BY <1>3, <1>5, <2>1, <2>2, <2>3, RendreFonds
  <1>9. PICK N : N = {CleDe("egalite", g, r.hote), CleDe("egalite", g, r.invite)}
    OBVIOUS
  <1>10. Augmente(K, b, c, N)
    BY <1>8, <1>9 DEF Augmente
  <1>11. Ailleurs(g) /\ matchs'[g] = s /\ enVol'[g] = e
    <2>1. Ecrit(g, s, e)
      BY <1>1, <1>2 DEF CloturerNul, Rangs, Ecrit
    <2>2. ClesDuMatch(g, N)
      BY <1>5, <1>9 DEF ClesDuMatch
    <2> QED BY <1>1, <1>10, <2>1, <2>2, EtapeAilleurs
  <1>12. CleDe("egalite", g, r.hote) \notin b.cles /\ CleDe("egalite", g, r.invite) \notin b.cles
    BY <1>3, <1>4, <1>5 DEF Sain, ClesSaines, CleSaine
  <1>13. Sain(g, s, e, c.cles)
    <2>1. \A op \in Operations, u \in Utilisateurs :
             CleDe(op, g, u) \in N => op \notin {"reserve", "refus"} /\ CleSaine(op, g, u, s)
      BY <1>6, <1>9, CleEgale DEF CleSaine
    <2>2. b.cles \subseteq c.cles /\ c.cles \subseteq b.cles \cup N
      BY <1>10 DEF Augmente
    <2> QED BY <1>3, <1>4, <1>6, <2>1, <2>2, FinSain
  <1>14. /\ \A v \in Joueurs \ {r.hote, r.invite} : c.bloque[v] = b.bloque[v]
         /\ \A v \in {r.hote, r.invite} : m <= b.bloque[v] => c.bloque[v] = b.bloque[v] - m
    <2>1. /\ \A v \in Joueurs \ {r.hote} : a.bloque[v] = b.bloque[v]
          /\ m <= b.bloque[r.hote] => a.bloque[r.hote] = b.bloque[r.hote] - m
      BY <1>3, <1>5, <1>7, <1>12, RendreDebloque
    <2>2. CleDe("egalite", g, r.invite) \notin a.cles
      BY <1>5, <1>8, <1>12, CleEgale DEF Augmente
    <2>3. /\ \A v \in Joueurs \ {r.invite} : c.bloque[v] = a.bloque[v]
          /\ m <= a.bloque[r.invite] => c.bloque[r.invite] = a.bloque[r.invite] - m
      BY <1>3, <1>5, <1>8, <2>2, RendreDebloque
    <2> QED BY <1>5, <2>1, <2>3
  <1>15. \A v \in Joueurs : Suit(g, r, b, s, c, v)
    BY <1>2, <1>3, <1>4, <1>6, <1>14, FinSuit
  <1> QED BY <1>1, <1>6, <1>11, <1>13, <1>15 DEF Etape

\* A victory takes the effective stake from what both have blocked.
LEMMA CloturerEtape ==
    ASSUME NEW K, Tient(K), Rangs, Regles,
           NEW g \in Parties, NEW w \in Joueurs, Cloturer(g, w)
    PROVE  Etape(g)
  <1>1. PICK r, e, b, c : r = matchs[g] /\ e = enVol[g] /\ b = caisse /\ c = caisse'
    OBVIOUS
  <1>2. PICK s, m, l : /\ s = [r EXCEPT !.statut = "termine", !.vainqueur = w]
                       /\ m = MiseEffectiveMatch(r)
                       /\ l = IF w = r.hote THEN r.invite ELSE r.hote
    OBVIOUS
  <1>3. /\ r \in LignesMatch /\ b \in FondsDe(K) /\ Sain(g, r, e, b.cles)
        /\ m \in Nat /\ Cles \subseteq K
    BY <1>1, <1>2, Depart, EffectiveType DEF Tient, Regles
  <1>4. /\ g \notin Courses /\ r.statut = "en_cours" /\ w \in {r.hote, r.invite}
        /\ c = IF r.mise = 0 THEN b ELSE ReglerDuel(b, w, l, m, g)
    BY <1>1, <1>2 DEF Cloturer, Cloturable, EstLapin, Regler
  <1>5. r.hote \in Joueurs /\ r.invite \in Joueurs /\ r.invite # r.hote
    BY <1>1, <1>4 DEF Rangs, Place
  <1>6. /\ s.statut = "termine" /\ s.hote = r.hote /\ s.invite = r.invite
        /\ s.mise = r.mise /\ s.proposee = r.proposee
    BY <1>2, <1>3 DEF LignesMatch
  <1>7. PICK N : N = {CleDe("perdant", g, Personne), CleDe("gagnant", g, Personne),
                      CleDe("gagnant:commission", g, Personne)}
    OBVIOUS
  <1>8. Augmente(K, b, c, N)
    BY <1>1, <1>7, CloturerPas
  <1>9. Ailleurs(g) /\ matchs'[g] = s /\ enVol'[g] = e
    <2>1. Ecrit(g, s, e)
      BY <1>1, <1>2 DEF Cloturer, Rangs, Ecrit
    <2>2. ClesDuMatch(g, N)
      BY <1>7 DEF ClesDuMatch, Operations, Utilisateurs
    <2> QED BY <1>1, <1>8, <2>1, <2>2, EtapeAilleurs
  <1>10. CleDe("perdant", g, Personne) \notin b.cles /\ CleDe("gagnant", g, Personne) \notin b.cles
    BY <1>3, <1>4 DEF Sain, ClesSaines, CleSaine, Operations, Utilisateurs
  <1>11. Sain(g, s, e, c.cles)
    <2>1. \A op \in Operations, u \in Utilisateurs :
             CleDe(op, g, u) \in N => op \notin {"reserve", "refus"} /\ CleSaine(op, g, u, s)
      BY <1>4, <1>6, <1>7, CleEgale DEF CleSaine
    <2>2. b.cles \subseteq c.cles /\ c.cles \subseteq b.cles \cup N
      BY <1>8 DEF Augmente
    <2> QED BY <1>3, <1>4, <1>6, <2>1, <2>2, FinSain
  <1>12. /\ \A v \in Joueurs \ {r.hote, r.invite} : c.bloque[v] = b.bloque[v]
         /\ \A v \in {r.hote, r.invite} : m <= b.bloque[v] => c.bloque[v] = b.bloque[v] - m
    <2>1. CASE r.mise = 0
      <3>1. m = 0 /\ c = b
        BY <1>2, <1>3, <1>4, <2>1, EffectiveSaine DEF Sain
      <3>2. \A v \in {r.hote, r.invite} : b.bloque[v] \in Nat
        BY <1>3, <1>5, ChampsFonds
      <3> QED BY <3>1, <3>2
    <2>2. CASE r.mise # 0
      <3>1. l \in Joueurs /\ w # l /\ {w, l} = {r.hote, r.invite}
        BY <1>2, <1>4, <1>5
      <3>2. /\ \A v \in Joueurs \ {w, l} : c.bloque[v] = b.bloque[v]
            /\ \A v \in {w, l} : m <= b.bloque[v] => c.bloque[v] = b.bloque[v] - m
        <4>1. c = ReglerDuel(b, w, l, m, g)
          BY <1>4, <2>2
        <4> QED BY <1>3, <1>10, <3>1, <4>1, ReglerDebloque
      <3> QED BY <3>1, <3>2
    <2> QED BY <2>1, <2>2
  <1>13. \A v \in Joueurs : Suit(g, r, b, s, c, v)
    BY <1>2, <1>3, <1>4, <1>6, <1>12, FinSuit
  <1> QED BY <1>1, <1>6, <1>9, <1>11, <1>13 DEF Etape

\* Who joins has reserved at least the effective stake, and the host keeps that
\* much of his: the surplus of both goes back.
LEMMA EngagerBloque ==
    ASSUME NEW K, Cles \subseteq K, NEW b \in FondsDe(K), NEW g \in Parties,
           NEW h \in Joueurs, NEW u \in Joueurs, h # u,
           NEW m \in Nat, NEW p \in Nat, NEW eff, eff = Moindre(m, p), NEW a, NEW d, NEW c,
           a = BloquerMise(b, u, p, CleDe("reserve", g, u)), p <= b.dispo[u],
           d = Rendre(a, h, m - eff, "surplus", g),
           c = Rendre(d, u, p - eff, "surplus", g),
           CleDe("surplus", g, h) \notin b.cles, CleDe("surplus", g, u) \notin b.cles
    PROVE  /\ \A v \in Joueurs \ {h, u} : c.bloque[v] = b.bloque[v]
           /\ m <= b.bloque[h] => c.bloque[h] + m = b.bloque[h] + eff
           /\ CleDe("reserve", g, u) \notin b.cles => c.bloque[u] = b.bloque[u] + eff
           /\ CleDe("reserve", g, u) \in b.cles =>
                c.bloque[u] = b.bloque[u] \/ CleDe("surplus", g, u) \in c.cles
           /\ CleDe("reserve", g, u) \in c.cles
  <1>1. /\ eff \in Nat /\ eff <= m /\ eff <= p /\ m - eff \in Nat /\ p - eff \in Nat
    BY DEF Moindre
  <1>2. /\ h \in Utilisateurs /\ u \in Utilisateurs /\ "surplus" \in Operations
        /\ CleDe("reserve", g, u) \in K
        /\ CleDe("reserve", g, u) # CleDe("surplus", g, h)
        /\ CleDe("reserve", g, u) # CleDe("surplus", g, u)
        /\ CleDe("surplus", g, h) # CleDe("surplus", g, u)
    BY CleType, CleEgale DEF Utilisateurs, Operations
  <1>3. Augmente(K, b, a, {CleDe("reserve", g, u)})
    BY <1>2, BloquerFonds
  <1>4. /\ a \in FondsDe(K)
        /\ CleDe("surplus", g, h) \notin a.cles /\ CleDe("surplus", g, u) \notin a.cles
    BY <1>2, <1>3 DEF Augmente
  <1>5. Augmente(K, a, d, {CleDe("surplus", g, h)})
    BY <1>1, <1>2, <1>4, RendreFonds
  <1>6. d \in FondsDe(K) /\ CleDe("surplus", g, u) \notin d.cles /\ a.cles \subseteq d.cles
    BY <1>2, <1>4, <1>5 DEF Augmente
  <1>7. Augmente(K, d, c, {CleDe("surplus", g, u)})
    BY <1>1, <1>2, <1>6, RendreFonds
  <1>8. /\ \A v \in Joueurs \ {u} : a.bloque[v] = b.bloque[v]
        /\ a.bloque[u] = IF CleDe("reserve", g, u) \in b.cles THEN b.bloque[u]
                         ELSE b.bloque[u] + p
        /\ CleDe("reserve", g, u) \in a.cles
    BY BloquerBloque
  <1>9. /\ \A v \in Joueurs \ {h} : d.bloque[v] = a.bloque[v]
        /\ m - eff <= a.bloque[h] => d.bloque[h] = a.bloque[h] - (m - eff)
    BY <1>1, <1>2, <1>4, RendreDebloque
  <1>10. /\ \A v \in Joueurs \ {u} : c.bloque[v] = d.bloque[v]
         /\ p - eff = 0 => c = d
         /\ p - eff # 0 => Debloque(d, c, u, p - eff, CleDe("surplus", g, u))
         /\ p - eff <= d.bloque[u] => c.bloque[u] = d.bloque[u] - (p - eff)
    BY <1>1, <1>2, <1>6, RendreDebloque
  <1>11. b.bloque[h] \in Nat /\ b.bloque[u] \in Nat
    BY ChampsFonds
  <1>12. \A v \in Joueurs \ {h, u} : c.bloque[v] = b.bloque[v]
    BY <1>8, <1>9, <1>10
  <1>13. m <= b.bloque[h] => c.bloque[h] + m = b.bloque[h] + eff
    <2>1. a.bloque[h] = b.bloque[h] /\ c.bloque[h] = d.bloque[h]
      BY <1>8, <1>10
    <2> QED BY <1>1, <1>9, <1>11, <2>1
  <1>14. d.bloque[u] = a.bloque[u]
    BY <1>9
  <1>15. CleDe("reserve", g, u) \notin b.cles => c.bloque[u] = b.bloque[u] + eff
    BY <1>1, <1>8, <1>10, <1>11, <1>14
  <1>16. CleDe("reserve", g, u) \in b.cles =>
           c.bloque[u] = b.bloque[u] \/ CleDe("surplus", g, u) \in c.cles
    BY <1>8, <1>10, <1>14 DEF Debloque
  <1>17. CleDe("reserve", g, u) \in c.cles
    BY <1>6, <1>7, <1>8 DEF Augmente
  <1> QED BY <1>12, <1>13, <1>15, <1>16, <1>17

LEMMA RejoindreEtape ==
    ASSUME NEW K, Tient(K), Rangs, Regles,
           NEW g \in Parties, NEW u \in Joueurs, NEW p \in MisesMatch, Rejoindre(u, g, p)
    PROVE  Etape(g)
  <1>1. PICK r, e, b, c : r = matchs[g] /\ e = enVol[g] /\ b = caisse /\ c = caisse'
    OBVIOUS
  <1>2. PICK s, eff : /\ s = [r EXCEPT !.invite = u, !.statut = "en_cours", !.prete = TRUE,
                                       !.proposee = p]
                      /\ eff = Moindre(r.mise, p)
    OBVIOUS
  <1>3. /\ r \in LignesMatch /\ b \in FondsDe(K) /\ Sain(g, r, e, b.cles)
        /\ r.mise \in Nat /\ p \in Nat /\ Cles \subseteq K
    BY <1>1, Depart, MisesMatchHypothese DEF Tient, Regles
  <1>4. /\ r.statut = "en_attente" /\ r.invite = Personne /\ r.hote # u
        /\ r.mise = 0 => p = 0 /\ c = b
        /\ r.mise # 0 => p <= b.dispo[u] /\ p > 0
    BY <1>1 DEF Rejoindre, PeutBloquer, Engager
  <1>5. r.hote \in Joueurs /\ r.proposee = 0 /\ e.inviter # r.hote
    BY <1>3, <1>4 DEF Sain, RangSain
  <1>6. /\ s.statut = "en_cours" /\ s.hote = r.hote /\ s.invite = u
        /\ s.mise = r.mise /\ s.proposee = p
    BY <1>2, <1>3 DEF LignesMatch
  <1>7. PICK N : N = {CleDe("reserve", g, u), CleDe("surplus", g, r.hote),
                      CleDe("surplus", g, u)}
    OBVIOUS
  <1>8. Augmente(K, b, c, N)
    BY <1>1, <1>7, RejoindrePas
  <1>9. Ailleurs(g) /\ matchs'[g] = s /\ enVol'[g] = e
    <2>1. Ecrit(g, s, e)
      BY <1>1, <1>2 DEF Rejoindre, Rangs, Ecrit
    <2>2. ClesDuMatch(g, N)
      BY <1>5, <1>7 DEF ClesDuMatch, Operations, Utilisateurs
    <2> QED BY <1>1, <1>8, <2>1, <2>2, EtapeAilleurs
  <1>10. /\ b.cles \subseteq c.cles
         /\ \A op \in Operations, v \in Utilisateurs :
              CleDe(op, g, v) \in c.cles =>
                \/ CleDe(op, g, v) \in b.cles
                \/ op = "surplus"
                \/ op = "reserve" /\ v = u
    BY <1>7, <1>8, CleEgale DEF Augmente
  <1>11. \A op \in Operations, v \in Utilisateurs :
            CleDe(op, g, v) \in b.cles =>
              /\ op \in {"reserve", "refus"}
              /\ op = "refus" => g \in Courses /\ v # r.hote
    BY <1>3, <1>4 DEF Sain, ClesSaines, CleSaine
  <1>12. /\ \A v \in Joueurs \ {r.hote, u} : c.bloque[v] = b.bloque[v]
         /\ r.mise <= b.bloque[r.hote] => c.bloque[r.hote] + r.mise = b.bloque[r.hote] + eff
         /\ CleDe("reserve", g, u) \notin b.cles => c.bloque[u] = b.bloque[u] + eff
         /\ CleDe("reserve", g, u) \in b.cles =>
              c.bloque[u] = b.bloque[u] \/ CleDe("surplus", g, u) \in c.cles
         /\ r.mise # 0 => CleDe("reserve", g, u) \in c.cles
    <2>1. CASE r.mise = 0
      <3>1. eff = 0 /\ c = b
        BY <1>2, <1>4, <2>1 DEF Moindre
      <3>2. b.bloque[r.hote] \in Nat /\ b.bloque[u] \in Nat
        BY <1>3, <1>5, ChampsFonds
      <3>3. b.bloque[u] + 0 = b.bloque[u]
        BY <3>2
      <3> QED BY <2>1, <3>1, <3>3
    <2>2. CASE r.mise # 0
      <3>1. PICK a, d : /\ a = BloquerMise(b, u, p, CleDe("reserve", g, u))
                        /\ d = Rendre(a, r.hote, r.mise - eff, "surplus", g)
        OBVIOUS
      <3>2. c = Rendre(d, u, p - eff, "surplus", g)
        BY <1>1, <1>2, <2>2, <3>1 DEF Rejoindre, Engager
      <3>3. CleDe("surplus", g, r.hote) \notin b.cles /\ CleDe("surplus", g, u) \notin b.cles
        BY <1>5, <1>11 DEF Operations, Utilisateurs
      <3>4. p <= b.dispo[u]
        BY <1>4, <2>2
      <3> HIDE <2>2
      <3> QED BY <1>2, <1>3, <1>4, <1>5, <3>1, <3>2, <3>3, <3>4, EngagerBloque
    <2> QED BY <2>1, <2>2
  <1>13. Sain(g, s, e, c.cles)
    <2>1. RangSain(g, s, e)
      BY <1>4, <1>5, <1>6, PersonneHypothese DEF RangSain
    <2>2. ReserveSaine(g, s, c.cles)
      <3>1. r.mise # 0 => CleDe("reserve", g, r.hote) \in c.cles
        BY <1>3, <1>4, <1>10 DEF Sain, ReserveSaine
      <3>2. ASSUME g \notin Courses, NEW v \in Joueurs, CleDe("reserve", g, v) \in c.cles
            PROVE  v \in {r.hote, u}
        <4>1. CleDe("reserve", g, v) \in b.cles => v = r.hote
          BY <1>3, <1>4, <3>2, PersonneHypothese DEF Sain, ReserveSaine
        <4> QED BY <1>10, <3>2, <4>1 DEF Operations, Utilisateurs
      <3> QED BY <1>6, <1>12, <3>1, <3>2 DEF ReserveSaine
    <2>3. ClesSaines(g, s, c.cles)
      <3> SUFFICES ASSUME NEW op \in Operations, NEW v \in Utilisateurs,
                          CleDe(op, g, v) \in c.cles
                   PROVE  CleSaine(op, g, v, s)
        BY DEF ClesSaines
      <3>1. CASE CleDe(op, g, v) \in b.cles
        BY <1>6, <1>11, <3>1 DEF CleSaine
      <3>2. CASE op \in {"reserve", "surplus"}
        BY <1>6, <3>2 DEF CleSaine
      <3> QED BY <1>10, <3>1, <3>2
    <2> QED BY <2>1, <2>2, <2>3 DEF Sain
  <1>14. /\ r.mise \in Nat /\ eff \in Nat /\ eff <= r.mise
         /\ MiseEffectiveMatch(r) = r.mise /\ MiseEffectiveMatch(s) = eff
    <2>1. eff \in Nat /\ eff <= r.mise
      BY <1>2, <1>3 DEF Moindre
    <2>2. MiseEffectiveMatch(r) = r.mise
      BY <1>5 DEF MiseEffectiveMatch
    <2>3. MiseEffectiveMatch(s) = eff
      <3>1. r.mise = 0 => eff = 0 /\ p = 0
        BY <1>3, <1>4, <2>1
      <3>2. MiseEffectiveMatch(s) = IF p = 0 THEN r.mise ELSE eff
        BY <1>2, <1>6 DEF MiseEffectiveMatch
      <3> QED BY <1>4, <3>1, <3>2
    <2> QED BY <1>3, <2>1, <2>2, <2>3
  <1>15. ASSUME NEW v \in Joueurs PROVE Suit(g, r, b, s, c, v)
    <2>1. /\ b.bloque[v] \in Nat /\ Retenue(g, r, b.cles, v) \in {0, r.mise}
          /\ Retenue(g, s, c.cles, v) \in {0, eff}
          /\ Retenue(g, r, b.cles, v) \in Nat /\ Retenue(g, s, c.cles, v) \in Nat
      <3>1. b.bloque[v] \in Nat
        BY <1>3, ChampsFonds
      <3>2. /\ Retenue(g, r, b.cles, v) \in {0, r.mise}
            /\ Retenue(g, s, c.cles, v) \in {0, eff}
        BY <1>14 DEF Retenue
      <3> QED BY <1>14, <3>1, <3>2
    <2>2. \A op \in {"annulation", "refus"} :
             CleDe(op, g, v) \in c.cles <=> CleDe(op, g, v) \in b.cles
      BY <1>10 DEF Operations, Utilisateurs
    <2>3. CASE v = r.hote
      <3>1. r.mise # 0 => CleDe("reserve", g, v) \in b.cles /\ CleDe("reserve", g, v) \in c.cles
        BY <1>3, <1>4, <1>10, <2>3 DEF Sain, ReserveSaine
      <3>2. \A op \in {"annulation", "refus"} : CleDe(op, g, v) \notin b.cles
        BY <1>11, <2>3 DEF Operations, Utilisateurs
      <3>3. Retenue(g, r, b.cles, v) = r.mise
        BY <1>4, <1>14, <2>1, <3>1, <3>2 DEF Retenue
      <3>4. Retenue(g, s, c.cles, v) = eff
        <4>1. r.mise = 0 => eff = 0
          BY <1>14
        <4> QED BY <1>6, <1>14, <2>1, <2>2, <3>1, <3>2, <4>1 DEF Retenue
      <3> QED BY <1>12, <1>14, <2>1, <2>3, <3>3, <3>4 DEF Suit
    <2>4. CASE v = u /\ CleDe("reserve", g, u) \notin b.cles
      <3>1. Retenue(g, r, b.cles, v) = 0
        BY <2>4 DEF Retenue
      <3>2. c.bloque[v] = b.bloque[v] + eff
        BY <1>12, <2>4
      <3>3. ~ RenduIci(g, s, c.cles, v) => Retenue(g, s, c.cles, v) = eff
        <4>1. ~ RenduIci(g, s, c.cles, v) =>
                 \A op \in {"annulation", "refus"} : CleDe(op, g, v) \notin c.cles
          <5>1. CleDe("annulation", g, v) \notin b.cles
            BY <1>11 DEF Operations, Utilisateurs
          <5>2. CleDe("refus", g, v) \in b.cles => g \in Courses
            BY <1>11 DEF Operations, Utilisateurs
          <5> QED BY <1>4, <1>6, <2>2, <2>4, <5>1, <5>2 DEF RenduIci
        <4>2. r.mise = 0 => eff = 0
          BY <1>14
        <4> QED BY <1>6, <1>12, <1>14, <2>1, <2>4, <4>1, <4>2 DEF Retenue
      <3> QED BY <1>14, <2>1, <3>1, <3>2, <3>3 DEF Suit
    <2>5. CASE v = u /\ CleDe("reserve", g, u) \in b.cles
      <3>1. g \in Courses
        BY <1>3, <1>4, <2>5, PersonneHypothese DEF Sain, ReserveSaine
      <3>2. ~ RenduIci(g, s, c.cles, v) => c.bloque[v] = b.bloque[v]
        BY <1>4, <1>6, <1>12, <2>5, <3>1 DEF RenduIci
      <3>3. Retenue(g, s, c.cles, v) <= Retenue(g, r, b.cles, v)
        BY <1>14, <2>2, <2>5, <3>1 DEF Retenue
      <3>4. ~ HorsCourse(g, c.cles, v)
        BY <1>10, <2>5, <3>1 DEF HorsCourse
      <3> QED BY <1>14, <2>1, <3>2, <3>3, <3>4 DEF Suit
    <2>6. CASE v \notin {r.hote, u}
      <3>1. c.bloque[v] = b.bloque[v]
        BY <1>12, <2>6
      <3>2. CleDe("reserve", g, v) \in c.cles <=> CleDe("reserve", g, v) \in b.cles
        BY <1>10, <2>6 DEF Operations, Utilisateurs
      <3>3. CASE CleDe("reserve", g, v) \notin b.cles
        <4>1. Retenue(g, r, b.cles, v) = 0 /\ Retenue(g, s, c.cles, v) = 0
          BY <3>2, <3>3 DEF Retenue
        <4> QED BY <2>1, <3>1, <4>1 DEF Suit
      <3>4. CASE CleDe("reserve", g, v) \in b.cles
        <4>1. g \in Courses
          BY <1>3, <1>4, <2>6, <3>4, PersonneHypothese DEF Sain, ReserveSaine
        <4>2. Retenue(g, s, c.cles, v) <= Retenue(g, r, b.cles, v)
          BY <1>14, <2>2, <3>2, <3>4, <4>1 DEF Retenue
        <4>3. ~ HorsCourse(g, c.cles, v)
          BY <3>2, <3>4, <4>1 DEF HorsCourse
        <4> QED BY <1>14, <2>1, <3>1, <4>2, <4>3 DEF Suit
      <3> QED BY <3>3, <3>4
    <2> QED BY <2>3, <2>4, <2>5, <2>6
  <1> QED BY <1>1, <1>6, <1>9, <1>13, <1>15 DEF Etape

\* Every step is one of a single match.
LEMMA PasEtape ==
    ASSUME NEW K, Tient(K), Rangs, Regles, MatchesNext
    PROVE  \E g \in Parties : Etape(g)
  <1>1. \A g \in Parties : Duellistes[g] \subseteq Joueurs
    BY DuellistesHypothese
  <1>2. CASE \E g \in Parties, w \in Joueurs : Cloturer(g, w)
    BY <1>2, CloturerEtape
  <1>3. ASSUME NEW g \in Parties, InviterEcrit(g) \/ LancerEcrit(g) \/ CloturerNul(g)
        PROVE  Etape(g)
    BY <1>3, CourseEtape, CloturerNulEtape
  <1>4. ASSUME NEW g \in Parties, NEW u \in Duellistes[g],
               \/ \E m \in MisesMatch : Creer(u, g, m)
               \/ \E p \in MisesMatch : Rejoindre(u, g, p)
               \/ Annuler(u, g)
               \/ \E v \in Duellistes[g] : InviterLit(u, g, v)
               \/ Accepter(u, g)
               \/ Refuser(u, g)
               \/ LancerLit(u, g)
        PROVE  Etape(g)
    <2>1. u \in Joueurs
      BY <1>1
    <2>2. CASE \E m \in MisesMatch : Creer(u, g, m)
      BY <2>1, <2>2, CreerEtape
    <2>3. CASE \E p \in MisesMatch : Rejoindre(u, g, p)
      BY <2>1, <2>3, RejoindreEtape
    <2>4. CASE Annuler(u, g)
      BY <2>1, <2>4, AnnulerEtape
    <2>5. CASE (\E v \in Duellistes[g] : InviterLit(u, g, v)) \/ LancerLit(u, g)
      BY <1>1, <2>1, <2>5, CourseEtape
    <2>6. CASE Accepter(u, g)
      BY <2>1, <2>6, AccepterEtape
    <2>7. CASE Refuser(u, g)
      BY <2>1, <2>7, RefuserEtape
    <2> QED BY <1>4, <2>2, <2>3, <2>4, <2>5, <2>6, <2>7
  <1> QED BY <1>2, <1>3, <1>4 DEF MatchesNext, HorsVictoire

\* What is said of a match depends only on its keys.
LEMMA SainAilleurs ==
    ASSUME NEW h, NEW r \in LignesMatch, NEW e, NEW ks, NEW ls, Sain(h, r, e, ks),
           \A op \in Operations, u \in Utilisateurs :
              CleDe(op, h, u) \in ls <=> CleDe(op, h, u) \in ks
    PROVE  Sain(h, r, e, ls)
  <1>1. r.hote \in Utilisateurs /\ r.invite \in Utilisateurs
    BY DEF LignesMatch
  <1>2. ReserveSaine(h, r, ls)
    BY <1>1 DEF Sain, ReserveSaine, Operations, Utilisateurs
  <1>3. ClesSaines(h, r, ls)
    BY DEF Sain, ClesSaines
  <1> QED BY <1>2, <1>3 DEF Sain

LEMMA ReglesTiennent ==
    ASSUME Rangs, Regles, NEW g \in Parties, Etape(g)
    PROVE  Regles'
  <1>1. ASSUME NEW h \in Parties \ {g}
        PROVE  Sain(h, matchs'[h], enVol'[h], caisse'.cles)
    <2>1. PICK r, e, ks, ls : /\ r = matchs[h] /\ e = enVol[h]
                              /\ ks = caisse.cles /\ ls = caisse'.cles
      OBVIOUS
    <2>2. /\ matchs'[h] = r /\ enVol'[h] = e /\ r \in LignesMatch /\ Sain(h, r, e, ks)
          /\ \A op \in Operations, u \in Utilisateurs :
                CleDe(op, h, u) \in ls <=> CleDe(op, h, u) \in ks
      BY <2>1, Depart DEF Etape, Ailleurs, Regles
    <2>3. Sain(h, r, e, ls)
      BY <2>2, SainAilleurs
    <2> QED BY <2>1, <2>2, <2>3
  <1>2. Sain(g, matchs'[g], enVol'[g], caisse'.cles)
    BY DEF Etape
  <1>3. \A h \in Parties : Sain(h, matchs'[h], enVol'[h], caisse'.cles)
    BY <1>1, <1>2
  <1> QED BY <1>3 DEF Regles

-----------------------------------------------------------------------------
(* What the matches keep of u together, and x besides, is what he has        *)
(* blocked, as long as no race gave him something back; more may be blocked  *)
(* if he took part in one.                                                   *)

Retenues(u) == [g \in Parties |-> Retenue(g, matchs[g], caisse.cles, u)]
SansRendu(u) == \A g \in Parties : ~ RenduIci(g, matchs[g], caisse.cles, u)
SansCourse(u) == \A g \in Parties : HorsCourse(g, caisse.cles, u)
Couvert(u, x) ==
    SansRendu(u) => /\ caisse.bloque[u] >= Somme(Retenues(u), Parties) + x
                    /\ SansCourse(u) => caisse.bloque[u] = Somme(Retenues(u), Parties) + x

LEMMA RetenuesType ==
    ASSUME Rangs, NEW u
    PROVE  Retenues(u) \in [Parties -> Nat] /\ Retenues(u) \in [Parties -> Int]
  <1>1. \A g \in Parties : Retenue(g, matchs[g], caisse.cles, u) \in Nat
    BY Depart, RetenueType
  <1> QED BY <1>1 DEF Retenues

\* What a race gave back stays given back.
LEMMA SansRenduReste ==
    ASSUME Regles, NEW g \in Parties, Etape(g), NEW u \in Joueurs, SansRendu(u)'
    PROVE  SansRendu(u)
  <1> SUFFICES ASSUME NEW h \in Parties, RenduIci(h, matchs[h], caisse.cles, u)
               PROVE  FALSE
    BY DEF SansRendu
  <1>1. PICK op \in {"annulation", "refus", "surplus"} : CleDe(op, h, u) \in caisse.cles
    BY DEF RenduIci
  <1>2. matchs[h].statut # "absent"
    BY <1>1 DEF Regles, Sain, ClesSaines, CleSaine, Operations, Utilisateurs
  <1>3. matchs'[h].hote = matchs[h].hote
    BY <1>2 DEF Etape, Ailleurs
  <1>4. RenduIci(h, matchs'[h], caisse'.cles, u)
    BY <1>1, <1>3 DEF RenduIci, Etape, Ailleurs
  <1> QED BY <1>4 DEF SansRendu

\* A step of one match leaves the balances covered.
LEMMA CouvertTient ==
    ASSUME IsFiniteSet(Parties), NEW K, Tient(K), Tient(K)', Rangs, Rangs', Regles,
           NEW g \in Parties, Etape(g), NEW u \in Joueurs, NEW x \in Nat, Couvert(u, x)
    PROVE  Couvert(u, x)'
  <1>1. PICK F, G : F = Retenues(u) /\ G = Retenues(u)'
    OBVIOUS
  <1>2. PICK r, s, b, c : /\ r = matchs[g] /\ s = matchs'[g]
                          /\ b = caisse /\ c = caisse'
    OBVIOUS
  <1>3. F \in [Parties -> Nat] /\ F \in [Parties -> Int] /\ G \in [Parties -> Int]
    <2>1. Retenues(u)' \in [Parties -> Int]
      <3>1. \A h \in Parties : Retenue(h, matchs'[h], caisse'.cles, u) \in Int
        <4> SUFFICES ASSUME NEW h \in Parties
                     PROVE  Retenue(h, matchs'[h], caisse'.cles, u) \in Int
          OBVIOUS
        <4>1. PICK y, ks : y = matchs'[h] /\ ks = caisse'.cles
          OBVIOUS
        <4>2. Retenue(h, y, ks, u) \in Nat
          BY <4>1, RetenueType DEF Rangs
        <4> QED BY <4>1, <4>2
      <3> QED BY <3>1 DEF Retenues
    <2> QED BY <1>1, <2>1, RetenuesType
  <1>4. F[g] = Retenue(g, r, b.cles, u) /\ G[g] = Retenue(g, s, c.cles, u)
    BY <1>1, <1>2 DEF Retenues
  <1>5. \A h \in Parties \ {g} : G[h] = F[h]
    <2> SUFFICES ASSUME NEW h \in Parties \ {g} PROVE G[h] = F[h]
      OBVIOUS
    <2>1. /\ matchs'[h] = matchs[h]
          /\ \A op \in Operations : CleDe(op, h, u) \in caisse'.cles
                                    <=> CleDe(op, h, u) \in caisse.cles
      BY DEF Etape, Ailleurs, Utilisateurs
    <2>2. PICK y : y = matchs[h]
      OBVIOUS
    <2>3. Retenue(h, y, caisse'.cles, u) = Retenue(h, y, caisse.cles, u)
      BY <2>1 DEF Retenue, Operations
    <2> QED BY <1>1, <2>1, <2>2, <2>3 DEF Retenues
  <1>6. /\ Somme(F, Parties) \in Int /\ F[g] <= Somme(F, Parties)
        /\ Somme(G, Parties) = Somme(F, Parties) + (G[g] - F[g])
    BY <1>3, <1>5, SommeChange, SommeMajore
  <1>7. /\ b.bloque[u] \in Nat /\ c.bloque[u] \in Nat /\ F[g] \in Int /\ G[g] \in Int
        /\ b.cles \subseteq c.cles
    <2>1. b \in FondsDe(K) /\ c \in FondsDe(K)
      BY <1>2 DEF Tient
    <2>2. b.cles \subseteq c.cles
      BY <1>2 DEF Etape, Ailleurs
    <2> QED BY <1>3, <2>1, <2>2, ChampsFonds
  <1>8. ASSUME SansRendu(u)' PROVE SansRendu(u)
    BY <1>8, SansRenduReste
  <1>9. ASSUME SansCourse(u)' PROVE SansCourse(u)
    BY <1>2, <1>7, <1>9 DEF SansCourse, HorsCourse
  <1>10. ASSUME SansRendu(u)'
         PROVE  /\ c.bloque[u] >= Somme(G, Parties) + x
                /\ SansCourse(u)' => c.bloque[u] = Somme(G, Parties) + x
    <2>1. /\ b.bloque[u] >= Somme(F, Parties) + x
          /\ SansCourse(u) => b.bloque[u] = Somme(F, Parties) + x
      BY <1>1, <1>2, <1>8, <1>10 DEF Couvert
    <2>2. F[g] <= b.bloque[u]
      BY <1>6, <1>7, <2>1
    <2>3. ~ RenduIci(g, s, c.cles, u)
      BY <1>2, <1>10 DEF SansRendu
    <2>4. Suit(g, r, b, s, c, u)
      BY <1>2 DEF Etape
    <2>5. /\ c.bloque[u] + F[g] >= b.bloque[u] + G[g]
          /\ HorsCourse(g, c.cles, u) => c.bloque[u] + F[g] = b.bloque[u] + G[g]
      BY <1>4, <2>2, <2>3, <2>4 DEF Suit
    <2>6. SansCourse(u)' => HorsCourse(g, c.cles, u) /\ SansCourse(u)
      BY <1>2, <1>9 DEF SansCourse
    <2>7. c.bloque[u] >= Somme(G, Parties) + x
      BY <1>6, <1>7, <2>1, <2>5
    <2>8. ASSUME SansCourse(u)' PROVE c.bloque[u] = Somme(G, Parties) + x
      BY <1>6, <1>7, <2>1, <2>5, <2>6, <2>8
    <2> QED BY <2>7, <2>8
  <1>11. SansRendu(u)' => /\ caisse'.bloque[u] >= Somme(Retenues(u)', Parties) + x
                          /\ SansCourse(u)' => caisse'.bloque[u] = Somme(Retenues(u)', Parties) + x
    BY <1>1, <1>2, <1>10
  <1> QED BY <1>11 DEF Couvert

-----------------------------------------------------------------------------
(* The two sums that the runs check *)

Engages(u) == [g \in Parties |-> Engagement(g, u)]
EstEngage(h, u) ==
    h = [s \in SUBSET Parties |->
           IF s = {} THEN 0 ELSE Engagement(Elu(s), u) + h[s \ {Elu(s)}]]

\* What a user has staked is a sum over the matches.
LEMMA EngageSomme ==
    ASSUME IsFiniteSet(Parties), NEW u
    PROVE  Engage(u) = Somme(Engages(u), Parties)
  <1>1. ASSUME NEW h PROVE EstEngage(h, u) <=> EstSomme(h, Engages(u), Parties)
    <2>1. \A s \in SUBSET Parties : s # {} => Engages(u)[Elu(s)] = Engagement(Elu(s), u)
      BY EluDedans DEF Engages
    <2> QED BY <2>1 DEF EstEngage, EstSomme
  <1>2. PICK h, k : /\ h = CHOOSE z : EstEngage(z, u)
                    /\ k = CHOOSE z : EstSomme(z, Engages(u), Parties)
    OBVIOUS
  <1>3. EstSomme(h, Engages(u), Parties) /\ EstSomme(k, Engages(u), Parties)
    <2>1. \E z : EstSomme(z, Engages(u), Parties)
      BY SommeExiste
    <2>2. EstEngage(h, u)
      BY <1>1, <1>2, <2>1
    <2> QED BY <1>1, <1>2, <2>1, <2>2
  <1>4. h[Parties] = k[Parties]
    BY <1>3, SommeUnique
  <1>5. Engage(u) = h[Parties]
    BY <1>2 DEF Engage, MapThenSumSet, MapThenFoldSet, EstEngage, Elu
  <1>6. Somme(Engages(u), Parties) = k[Parties]
    BY <1>2 DEF Somme
  <1> QED BY <1>4, <1>5, <1>6

\* What a user has staked is part of what the matches keep of him, and all of it
\* if he took part in no race.
LEMMA EngagementRetenu ==
    ASSUME Rangs, Regles, NEW g \in Parties, NEW u \in Joueurs
    PROVE  /\ Engagement(g, u) \in Nat
           /\ Engagement(g, u) <= Retenue(g, matchs[g], caisse.cles, u)
           /\ HorsCourse(g, caisse.cles, u) =>
                Engagement(g, u) = Retenue(g, matchs[g], caisse.cles, u)
  <1>1. PICK r, ks : r = matchs[g] /\ ks = caisse.cles
    OBVIOUS
  <1>2. /\ MiseEffectiveMatch(r) \in Nat /\ Retenue(g, r, ks, u) \in Nat
        /\ ReserveSaine(g, r, ks)
    BY <1>1, Depart, EffectiveType, RetenueType DEF Regles, Sain
  <1>3. Engagement(g, u) = 0 \/ Engagement(g, u) = Retenue(g, r, ks, u)
    BY <1>1 DEF Engagement, Retenue
  <1>4. ASSUME HorsCourse(g, ks, u), Engagement(g, u) = 0
        PROVE  Retenue(g, r, ks, u) = 0
    BY <1>1, <1>2, <1>4 DEF Engagement, Retenue, HorsCourse, ReserveSaine
  <1> QED BY <1>1, <1>2, <1>3, <1>4

(* The inductive invariant of the stakes *)
MInv == IInv /\ Regles /\ \A u \in Joueurs : Couvert(u, 0)

LEMMA MInvDebut ==
    ASSUME IsFiniteSet(Parties), MatchesInit
    PROVE  MInv
  <1>1. IInv
    BY RangsInitiaux, BanqueInitiale DEF IInv
  <1>2. \A g \in Parties : /\ matchs[g] = Absent /\ enVol[g].inviter = Personne
                           /\ ~ enVol[g].lancer
    BY DEF MatchesInit
  <1>3. caisse.cles = {} /\ \A u \in Joueurs : caisse.bloque[u] = 0
    BY DEF MatchesInit
  <1>4. Regles
    <2> SUFFICES ASSUME NEW g \in Parties
                 PROVE  Sain(g, matchs[g], enVol[g], caisse.cles)
      BY DEF Regles
    <2>1. PICK r, e, ks : r = matchs[g] /\ e = enVol[g] /\ ks = caisse.cles
      OBVIOUS
    <2>2. /\ r = Absent /\ e.inviter = Personne /\ ~ e.lancer /\ ks = {}
          /\ r.statut = "absent" /\ r.mise = 0 /\ r.proposee = 0
      <3>1. r = Absent /\ e.inviter = Personne /\ ks = {}
        BY <1>2, <1>3, <2>1
      <3>2. ~ e.lancer
        BY <1>2, <2>1, Zenon
      <3>3. r.statut = "absent" /\ r.mise = 0 /\ r.proposee = 0
        BY <3>1 DEF Absent
      <3> QED BY <3>1, <3>2, <3>3, Zenon
    <2>3. RangSain(g, r, e) /\ ReserveSaine(g, r, ks) /\ ClesSaines(g, r, ks)
      BY <2>2 DEF RangSain, ReserveSaine, ClesSaines
    <2> QED BY <2>1, <2>3 DEF Sain
  <1>5. ASSUME NEW u \in Joueurs PROVE Couvert(u, 0)
    <2>1. \A g \in Parties : Retenues(u)[g] = 0
      BY <1>3 DEF Retenues, Retenue
    <2>2. Somme(Retenues(u), Parties) = Cardinality(Parties) * 0
      BY <1>1, <2>1, RetenuesType, SommeConstante DEF IInv
    <2>3. Cardinality(Parties) \in Nat
      BY FS_CardinalityType
    <2>4. Somme(Retenues(u), Parties) = 0
      BY <2>2, <2>3
    <2> QED BY <1>3, <2>4 DEF Couvert
  <1> QED BY <1>1, <1>4, <1>5 DEF MInv

LEMMA MInvPas ==
    ASSUME IsFiniteSet(Parties), MInv, [MatchesNext]_matchVars
    PROVE  MInv'
  <1>1. IInv'
    BY MatchesInvariant DEF MInv
  <1>2. CASE MatchesNext
    <2>1. Tient(Cles) /\ Rangs /\ Regles
      BY BanqueTient DEF MInv, IInv
    <2>2. Tient(Cles)' /\ Rangs'
      BY <1>1, BanquesFonds DEF IInv, Tient
    <2>3. PICK g \in Parties : Etape(g)
      BY <1>2, <2>1, PasEtape
    <2>4. Regles'
      BY <2>1, <2>3, ReglesTiennent
    <2>5. \A u \in Joueurs : Couvert(u, 0)'
      BY <2>1, <2>2, <2>3, CouvertTient DEF MInv
    <2> QED BY <1>1, <2>4, <2>5 DEF MInv
  <1>3. CASE UNCHANGED matchVars
    <2>1. Regles'
      BY <1>3 DEF matchVars, MInv, Regles
    <2>2. \A u \in Joueurs : Couvert(u, 0)'
      BY <1>3 DEF matchVars, MInv, Couvert, SansRendu, SansCourse, Retenues
    <2> QED BY <1>1, <2>1, <2>2 DEF MInv
  <1> QED BY <1>2, <1>3

LEMMA MInvCouvre ==
    ASSUME IsFiniteSet(Parties), MInv
    PROVE  MisesCouvertes
  <1> SUFFICES ASSUME NEW u \in Joueurs, ~ RenduParCourse(u)
               PROVE  /\ caisse.bloque[u] >= Engage(u)
                      /\ (\A g \in Courses : CleDe("reserve", g, u) \notin caisse.cles)
                            => caisse.bloque[u] = Engage(u)
    BY DEF MisesCouvertes
  <1>1. PICK F, G : F = Engages(u) /\ G = Retenues(u)
    OBVIOUS
  <1>2. Engage(u) = Somme(F, Parties)
    BY <1>1, EngageSomme
  <1>3. SansRendu(u)
    BY DEF RenduParCourse, SansRendu, RenduIci, EstLapin
  <1>4. /\ caisse.bloque[u] >= Somme(G, Parties)
        /\ SansCourse(u) => caisse.bloque[u] = Somme(G, Parties)
    <2>1. Somme(G, Parties) \in Nat
      BY <1>1, RetenuesType, SommeNaturelle DEF MInv, IInv
    <2>2. Somme(G, Parties) + 0 = Somme(G, Parties)
      BY <2>1
    <2> QED BY <1>1, <1>3, <2>2 DEF MInv, Couvert
  <1>5. /\ \A g \in Parties : F[g] \in Int /\ F[g] <= G[g]
        /\ \A g \in Parties : HorsCourse(g, caisse.cles, u) => F[g] = G[g]
    BY <1>1, EngagementRetenu DEF MInv, IInv, Engages, Retenues
  <1>6. F \in [Parties -> Int] /\ G \in [Parties -> Int]
    BY <1>1, <1>5, RetenuesType DEF MInv, IInv, Engages
  <1>7. Somme(F, Parties) \in Int /\ Somme(G, Parties) \in Int
        /\ Somme(F, Parties) <= Somme(G, Parties)
    BY <1>5, <1>6, SommeOrdre
  <1>8. caisse.bloque[u] \in Nat
    BY DEF MInv, IInv, Banques
  <1>9. ASSUME \A g \in Courses : CleDe("reserve", g, u) \notin caisse.cles
        PROVE  caisse.bloque[u] = Engage(u)
    <2>1. \A g \in Parties : HorsCourse(g, caisse.cles, u)
      BY <1>9 DEF HorsCourse
    <2>2. F = G
      BY <1>1, <1>5, <2>1 DEF Engages, Retenues
    <2> QED BY <1>2, <1>4, <2>1, <2>2 DEF SansCourse
  <1> QED BY <1>2, <1>4, <1>7, <1>8, <1>9

\* The inductive invariant that relates the rows, the ledger and the blocked
\* balances.
THEOREM MisesTenues ==
    ASSUME IsFiniteSet(Parties)
    PROVE  MatchesSpec => []MInv
  <1>1. MatchesInit => MInv
    BY MInvDebut
  <1>2. MInv /\ [MatchesNext]_matchVars => MInv'
    BY MInvPas
  <1> QED BY <1>1, <1>2, PTL DEF MatchesSpec

\* The stakes of a player stay blocked until his matches are over, and nothing
\* else is blocked, unless a race had a part in it: joins with their surplus,
\* annulments, draws, victories and refusals of all matches beside each other.
THEOREM MisesToujoursCouvertes ==
    ASSUME IsFiniteSet(Parties)
    PROVE  MatchesSpec => []MisesCouvertes
  <1>1. MInv => MisesCouvertes
    BY MInvCouvre
  <1> QED BY <1>1, MisesTenues, PTL

-----------------------------------------------------------------------------
(* The money of all together *)

\* Who wins takes the effective stake from a loser who still has it.
LEMMA VictoireConserve ==
    ASSUME IsFiniteSet(Parties), IsFiniteSet(Joueurs), MInv,
           \A u \in Joueurs : SansRendu(u),
           NEW g \in Parties, NEW w \in Joueurs, Cloturer(g, w)
    PROVE  Fortune(caisse') = Fortune(caisse)
  <1>1. PICK r, e, b, c, l, m :
           /\ r = matchs[g] /\ e = enVol[g] /\ b = caisse /\ c = caisse'
           /\ l = IF w = r.hote THEN r.invite ELSE r.hote
           /\ m = MiseEffectiveMatch(r)
    OBVIOUS
  <1>2. /\ r \in LignesMatch /\ b \in Banques /\ b \in FondsDe(Cles)
        /\ Sain(g, r, e, b.cles) /\ m \in Nat
    BY <1>1, Depart, EffectiveType, BanquesFonds DEF MInv, IInv, Regles
  <1>3. /\ g \in Parties \ Courses /\ r.statut = "en_cours" /\ w \in {r.hote, r.invite}
        /\ c = IF r.mise = 0 THEN b ELSE ReglerDuel(b, w, l, m, g)
    BY <1>1 DEF Cloturer, Cloturable, EstLapin, Regler
  <1>4. /\ l \in Joueurs /\ w # l
        /\ w \in {r.hote, r.invite} \cap Joueurs /\ l \in {r.hote, r.invite} \cap Joueurs
    BY <1>1, <1>3 DEF MInv, IInv, Rangs, Place
  <1>5. ASSUME NEW v \in {r.hote, r.invite} \cap Joueurs
        PROVE  m <= b.bloque[v]
    <2>1. PICK F : F = Retenues(v)
      OBVIOUS
    <2>2. F \in [Parties -> Nat]
      BY <2>1, RetenuesType DEF MInv, IInv
    <2>3. F[g] = m
      BY <1>1, <1>2, <1>3, <2>1, EnCoursRetenue DEF Retenues
    <2>4. Somme(F, Parties) \in Int /\ F[g] <= Somme(F, Parties)
      BY <2>2, SommeMajore
    <2>5. b.bloque[v] >= Somme(F, Parties) + 0
      BY <1>1, <2>1 DEF MInv, Couvert
    <2>6. b.bloque[v] \in Nat
      BY <1>2, ChampsFonds
    <2> QED BY <1>2, <2>3, <2>4, <2>5, <2>6
  <1>6. CASE r.mise = 0
    BY <1>1, <1>3, <1>6
  <1>7. CASE r.mise # 0
    <2>1. c = ReglerDuel(b, w, l, m, g) /\ m <= b.bloque[w] /\ m <= b.bloque[l]
      BY <1>3, <1>4, <1>5, <1>7
    <2>2. CleDe("perdant", g, Personne) \notin b.cles /\ CleDe("gagnant", g, Personne) \notin b.cles
      BY <1>2, <1>3 DEF Sain, ClesSaines, CleSaine, Operations, Utilisateurs
    <2>3. PICK k : k = 2 * CommissionPour(m)
      OBVIOUS
    <2>4. k \in Nat
      BY <1>2, <2>3, CommissionType
    <2>5. /\ c \in Banques /\ c.capital = b.capital + k
          /\ Avoir(c, l) = Avoir(b, l) - m
          /\ Avoir(c, w) = (Avoir(b, w) + m) - k
          /\ \A v \in Joueurs \ {w, l} : Avoir(c, v) = Avoir(b, v)
      BY <1>2, <1>4, <2>1, <2>2, <2>3, ReglerAvoir
    <2>6. Fortune(c) = Fortune(b)
      BY <1>2, <1>4, <2>4, <2>5, FortuneReglee
    <2> QED BY <1>1, <2>6
  <1> QED BY <1>6, <1>7

\* No money appears or disappears, whatever matches are created, joined, annulled
\* and closed beside each other, until a race gives a guest something back.
THEOREM ConservationInvariante ==
    ASSUME IsFiniteSet(Parties), IsFiniteSet(Joueurs)
    PROVE  MatchesSpec => []ConservationMatchs
  <1> DEFINE Total == Cardinality(Joueurs) * SoldeMatch
             Garde == (\A u \in Joueurs : SansRendu(u)) => Fortune(caisse) = Total
  <1>1. Garde => ConservationMatchs
    <2>1. \A u \in Joueurs : ~ RenduParCourse(u) => SansRendu(u)
      BY DEF RenduParCourse, SansRendu, RenduIci, EstLapin
    <2> QED BY <2>1 DEF ConservationMatchs, Fortune
  <1>2. MatchesInit => Garde
    <2> SUFFICES ASSUME MatchesInit PROVE Fortune(caisse) = Total
      OBVIOUS
    <2>1. caisse \in Banques /\ caisse.capital = 0
      BY BanqueInitiale DEF MatchesInit
    <2>2. \A u \in Joueurs : Avoir(caisse, u) = SoldeMatch
      <3> SUFFICES ASSUME NEW u \in Joueurs PROVE Avoir(caisse, u) = SoldeMatch
        OBVIOUS
      <3>1. /\ caisse.dispo[u] = SoldeMatch
            /\ caisse.bloque[u] = 0 /\ caisse.gains[u] = 0
        BY DEF MatchesInit
      <3>2. SoldeMatch + 0 + 0 = SoldeMatch
        BY SoldeMatchHypothese
      <3> QED BY <3>1, <3>2 DEF Avoir
    <2> QED BY <2>1, <2>2, SoldeMatchHypothese, FortuneInitiale
  <1>3. ASSUME MInv, Garde, [MatchesNext]_matchVars
        PROVE  Garde'
    <2>1. CASE UNCHANGED matchVars
      BY <1>3, <2>1 DEF matchVars, SansRendu
    <2>2. CASE MatchesNext
      <3> SUFFICES ASSUME \A u \in Joueurs : SansRendu(u)'
                   PROVE  Fortune(caisse') = Total
        OBVIOUS
      <3>1. Tient(Cles) /\ Rangs /\ Regles /\ caisse \in Banques
        BY <1>3, BanqueTient DEF MInv, IInv
      <3>2. PICK g \in Parties : Etape(g)
        BY <2>2, <3>1, PasEtape
      <3>3. \A u \in Joueurs : SansRendu(u)
        BY <3>1, <3>2, SansRenduReste
      <3>4. Fortune(caisse) = Total
        BY <1>3, <3>3
      <3>5. CASE HorsVictoire
        <4>1. Conserve(caisse, caisse')
          BY <1>3, <3>5, HorsVictoireConserve DEF MInv
        <4> QED BY <3>1, <3>4, <4>1, FortuneConservee
      <3>6. CASE \E h \in Parties, w \in Joueurs : Cloturer(h, w)
        BY <1>3, <3>3, <3>4, <3>6, VictoireConserve
      <3> QED BY <2>2, <3>5, <3>6 DEF MatchesNext
    <2> QED BY <1>3, <2>1, <2>2
  <1> HIDE DEF Garde
  <1> QED BY <1>1, <1>2, <1>3, MisesTenues, PTL DEF MatchesSpec
-----------------------------------------------------------------------------
(* The bets.  The task of a match is sent before the match is committed as   *)
(* won, so what it has read of the winner says something only if it is a     *)
(* winner: then the match is over, and a match that is over keeps its row    *)
(* (FinTient).  A bet on the list of the task is a bet on its match.         *)

(* The keys that the bets add to those of the matches *)
ClesDesParis ==
    {CleDuPari(u, d) : u \in Joueurs, d \in Demandes}
      \cup {ClePari(op, p) : op \in {"gagne", "gagne:commission", "perdu"}, p \in Paris}
ToutesLesCles == Cles \cup ClesDesParis

(* A bet that was placed names players, a match and an amount *)
PariTenu(p) ==
    paris[p].statut # "absent" =>
        /\ paris[p].qui \in Joueurs /\ paris[p].sur \in Joueurs
        /\ paris[p].partie \in Parties /\ paris[p].montant \in Montants

Merite(p) ==
    /\ paris[p].statut # "absent"
    /\ paris[p].partie \notin Courses
    /\ matchs[paris[p].partie].statut = "termine"
    /\ matchs[paris[p].partie].vainqueur = paris[p].sur

GainTenu(p) ==
    paris[p].statut = "gagne" \/ ClePari("gagne", p) \in caisse.cles => Merite(p)

(* What the task of g knows: a winner, if it has read one, and its bets *)
TacheTenue(g) ==
    /\ tache[g].vu # Personne =>
         /\ g \notin Courses
         /\ matchs[g].statut = "termine" /\ matchs[g].vainqueur = tache[g].vu
    /\ \A p \in tache[g].reste : paris[p].statut # "absent" /\ paris[p].partie = g

LignesTypees ==
    /\ tiers \in [Parties -> BOOLEAN]
    /\ paris \in [Paris -> LignesPari]
    /\ lectures \in [Joueurs -> Demandes \cup {Rien}]
    /\ tache \in [Parties -> Taches]

PIInv ==
    /\ Rangs
    /\ caisse \in FondsDe(ToutesLesCles)
    /\ LignesTypees
    /\ \A p \in Paris : PariTenu(p) /\ GainTenu(p)
    /\ \A g \in Parties : TacheTenue(g)

-----------------------------------------------------------------------------
(* What a step may leave alone *)

(* The rows of the matches: a match that is over keeps its row *)
MatchsTiennent == Rangs' /\ FinTient

(* The ledger gains no payment of a bet *)
SansPaiement ==
    /\ caisse' \in FondsDe(ToutesLesCles)
    /\ \A p \in Paris :
          ClePari("gagne", p) \in caisse'.cles => ClePari("gagne", p) \in caisse.cles

LEMMA MatchsFixes ==
    ASSUME Rangs, UNCHANGED <<matchs, enVol>>
    PROVE  MatchsTiennent
  BY DEF Rangs, Place, FinTient, MatchsTiennent

\* The row of a match that is over is the same after the step.
LEMMA MeriteReste ==
    ASSUME FinTient, NEW p \in Paris, Merite(p), paris[p].partie \in Parties,
           paris'[p].statut # "absent",
           paris'[p].partie = paris[p].partie, paris'[p].sur = paris[p].sur
    PROVE  Merite(p)'
  BY DEF Merite, FinTient, Termine

LEMMA TacheReste ==
    ASSUME FinTient, NEW g \in Parties, TacheTenue(g),
           tache'[g].vu = tache[g].vu,
           \A p \in tache'[g].reste : paris'[p].statut # "absent" /\ paris'[p].partie = g
    PROVE  TacheTenue(g)'
  BY DEF TacheTenue, FinTient, Termine

\* The bets stay as they are, and none is paid.
LEMMA ParisRestent ==
    ASSUME PIInv, FinTient, SansPaiement, UNCHANGED paris
    PROVE  \A p \in Paris : PariTenu(p)' /\ GainTenu(p)'
  <1> SUFFICES ASSUME NEW p \in Paris PROVE PariTenu(p)' /\ GainTenu(p)'
    OBVIOUS
  <1>1. PariTenu(p) /\ GainTenu(p)
    BY DEF PIInv
  <1>2. PariTenu(p)'
    BY <1>1 DEF PariTenu
  <1>3. Merite(p) => Merite(p)'
    <2> SUFFICES ASSUME Merite(p) PROVE Merite(p)'
      OBVIOUS
    <2>1. paris[p].statut # "absent"
      BY DEF Merite
    <2>2. paris[p].partie \in Parties
      BY <1>1, <2>1 DEF PariTenu
    <2> QED BY <2>1, <2>2, MeriteReste
  <1>4. GainTenu(p)'
    BY <1>1, <1>3 DEF GainTenu, SansPaiement
  <1> QED BY <1>2, <1>4

\* So do the tasks.
LEMMA TachesRestent ==
    ASSUME PIInv, FinTient, UNCHANGED <<paris, tache>>
    PROVE  \A g \in Parties : TacheTenue(g)'
  <1> SUFFICES ASSUME NEW g \in Parties PROVE TacheTenue(g)'
    OBVIOUS
  <1>1. TacheTenue(g)
    BY DEF PIInv
  <1>2. \A p \in tache'[g].reste : paris'[p].statut # "absent" /\ paris'[p].partie = g
    BY <1>1 DEF TacheTenue
  <1> QED BY <1>1, <1>2, TacheReste

\* A step of a match writes no key of a bet.
LEMMA ClesDesMatchs ==
    ASSUME PIInv, Augmente(ToutesLesCles, caisse, caisse', Cles)
    PROVE  SansPaiement
  <1>1. ASSUME NEW p \in Paris PROVE ClePari("gagne", p) \notin Cles
    <2>1. ClePari("gagne", p).op = "gagne"
      BY DEF ClePari
    <2>2. \A k \in Cles : k.op # "gagne"
      BY DEF Cles, Operations
    <2> QED BY <2>1, <2>2
  <1> QED BY <1>1 DEF Augmente, SansPaiement

LEMMA BanqueFixe ==
    ASSUME PIInv, UNCHANGED caisse
    PROVE  SansPaiement
  BY DEF PIInv, SansPaiement

-----------------------------------------------------------------------------
LEMMA ParisInitiaux == PInit => PIInv
  <1> SUFFICES ASSUME PInit PROVE PIInv
    OBVIOUS
  <1>1. MatchesInit /\ Rangs /\ caisse \in FondsDe(Cles) /\ caisse.cles = {}
    BY RangsInitiaux, BanqueInitiale, BanquesFonds DEF PInit
  <1>2. caisse \in FondsDe(ToutesLesCles)
    BY <1>1 DEF FondsDe, ToutesLesCles
  <1>3. LignesTypees
    BY DEF PInit, LignesTypees, LignesPari, StatutsPari, PariAbsent, Taches, SansTache
  <1>4. ASSUME NEW p \in Paris PROVE PariTenu(p) /\ GainTenu(p)
    <2>1. paris[p].statut = "absent"
      BY DEF PInit, PariAbsent
    <2> QED BY <1>1, <2>1 DEF PariTenu, GainTenu
  <1>5. ASSUME NEW g \in Parties PROVE TacheTenue(g)
    BY DEF PInit, SansTache, TacheTenue
  <1> QED BY <1>1, <1>2, <1>3, <1>4, <1>5 DEF PIInv

\* A match step that is no victory leaves bets and tasks alone.
LEMMA HorsVictoireParis ==
    ASSUME PIInv, HorsVictoire, UNCHANGED varsParis
    PROVE  PIInv'
  <1>1. Rangs /\ Tient(ToutesLesCles)
    BY DEF PIInv, Tient, ToutesLesCles
  <1>2. Rangs' /\ FinTient /\ Augmente(ToutesLesCles, caisse, caisse', Cles)
    BY <1>1, MatchesPas DEF MatchesNext
  <1>3. SansPaiement
    BY <1>2, ClesDesMatchs
  <1>4. UNCHANGED <<tiers, paris, lectures, tache>>
    BY DEF varsParis
  <1>5. LignesTypees'
    BY <1>4 DEF PIInv, LignesTypees
  <1>6. /\ \A p \in Paris : PariTenu(p)' /\ GainTenu(p)'
        /\ \A g \in Parties : TacheTenue(g)'
    BY <1>2, <1>3, <1>4, ParisRestent, TachesRestent
  <1> QED BY <1>2, <1>3, <1>5, <1>6 DEF PIInv, SansPaiement

\* A victory sends the task, which has read the winner or nobody.
LEMMA CloturerParis ==
    ASSUME PIInv, NEW g \in Parties, NEW w \in Joueurs, NEW avant \in BOOLEAN,
           CloturerEtEnvoyer(g, w, avant)
    PROVE  PIInv'
  <1>1. Rangs /\ Tient(ToutesLesCles) /\ Cloturer(g, w)
    BY DEF PIInv, Tient, ToutesLesCles, CloturerEtEnvoyer
  <1>2. Rangs' /\ FinTient /\ Augmente(ToutesLesCles, caisse, caisse', Cles)
    BY <1>1, MatchesPas DEF MatchesNext
  <1>3. g \notin Courses /\ matchs'[g].statut = "termine" /\ matchs'[g].vainqueur = w
    BY <1>1, CloturerPas
  <1>4. SansPaiement
    BY <1>2, ClesDesMatchs
  <1>5. PICK v \in Utilisateurs :
          /\ v = IF avant THEN Personne ELSE w
          /\ tache' = [tache EXCEPT ![g].etat = "en_file", ![g].vu = v]
    BY DEF CloturerEtEnvoyer
  <1>6. UNCHANGED <<tiers, paris, lectures>>
    BY DEF CloturerEtEnvoyer
  <1>7. tache \in [Parties -> Taches]
    BY DEF PIInv, LignesTypees
  <1>8. /\ tache' \in [Parties -> Taches]
        /\ tache'[g].vu = v /\ tache'[g].reste = tache[g].reste
        /\ \A h \in Parties \ {g} : tache'[h] = tache[h]
    BY <1>5, <1>7 DEF Taches
  <1>9. ASSUME NEW h \in Parties PROVE TacheTenue(h)'
    <2>1. TacheTenue(h)
      BY DEF PIInv
    <2>2. \A p \in tache'[h].reste : paris'[p].statut # "absent" /\ paris'[p].partie = h
      BY <1>6, <1>8, <2>1 DEF TacheTenue
    <2>3. CASE h # g
      BY <1>2, <1>8, <2>1, <2>2, <2>3, TacheReste
    <2>4. CASE h = g
      BY <1>3, <1>5, <1>8, <2>2, <2>4 DEF TacheTenue
    <2> QED BY <2>3, <2>4
  <1>10. \A p \in Paris : PariTenu(p)' /\ GainTenu(p)'
    BY <1>2, <1>4, <1>6, ParisRestent
  <1>11. LignesTypees'
    BY <1>6, <1>8 DEF PIInv, LignesTypees
  <1> QED BY <1>2, <1>4, <1>9, <1>10, <1>11 DEF PIInv, SansPaiement

\* Reading for a bet, giving it up, and the score.
LEMMA LectureParis ==
    ASSUME PIInv,
           \/ \E g \in Parties : FranchirTiers(g)
           \/ \E u \in Joueurs, g \in Parties, v \in Joueurs, m \in Montants : LirePari(u, g, v, m)
           \/ \E u \in Joueurs : EcrirePariEchoue(u)
    PROVE  PIInv'
  <1>1. UNCHANGED <<matchs, enVol, caisse, paris, tache>>
    BY DEF FranchirTiers, LirePari, EcrirePariEchoue, matchVars
  <1>2. LignesTypees'
    <2>1. LignesTypees
      BY DEF PIInv
    <2>2. CASE \E g \in Parties : FranchirTiers(g)
      BY <1>1, <2>1, <2>2 DEF FranchirTiers, LignesTypees
    <2>3. CASE \E u \in Joueurs, g \in Parties, v \in Joueurs, m \in Montants :
                 LirePari(u, g, v, m)
      <3>1. PICK u \in Joueurs, d \in Demandes : lectures' = [lectures EXCEPT ![u] = d]
        BY <2>3 DEF LirePari, Demandes
      <3>2. UNCHANGED tiers
        BY <2>3 DEF LirePari
      <3> QED BY <1>1, <2>1, <3>1, <3>2 DEF LignesTypees
    <2>4. CASE \E u \in Joueurs : EcrirePariEchoue(u)
      BY <1>1, <2>1, <2>4 DEF EcrirePariEchoue, LignesTypees
    <2> QED BY <2>2, <2>3, <2>4
  <1>3. Rangs' /\ FinTient /\ SansPaiement
    BY <1>1, MatchsFixes, BanqueFixe DEF PIInv, MatchsTiennent
  <1>4. /\ \A p \in Paris : PariTenu(p)' /\ GainTenu(p)'
        /\ \A g \in Parties : TacheTenue(g)'
    BY <1>1, <1>3, ParisRestent, TachesRestent
  <1> QED BY <1>2, <1>3, <1>4 DEF PIInv, SansPaiement

\* The task lists the open bets of its match, and ends.
LEMMA TacheParis ==
    ASSUME PIInv, NEW g \in Parties, TacheListe(g) \/ TacheFinit(g)
    PROVE  PIInv'
  <1>1. UNCHANGED <<matchs, enVol, caisse, paris, tiers, lectures>>
    BY DEF TacheListe, TacheFinit, matchVars
  <1>2. tache \in [Parties -> Taches]
    BY DEF PIInv, LignesTypees
  <1>3. PICK t \in Taches :
          /\ tache' = [tache EXCEPT ![g] = t]
          /\ t.vu # Personne => t.vu = tache[g].vu
          /\ \A p \in t.reste : paris[p].statut # "absent" /\ paris[p].partie = g
    <2>1. CASE TacheListe(g)
      <3> DEFINE t == [tache[g] EXCEPT !.etat = "en_cours", !.reste = Ouverts(g)]
      <3>1. Ouverts(g) \in SUBSET Paris
            /\ \A p \in Ouverts(g) : paris[p].statut # "absent" /\ paris[p].partie = g
        BY DEF Ouverts
      <3>2. t \in Taches /\ t.vu = tache[g].vu /\ t.reste = Ouverts(g)
        BY <1>2, <3>1 DEF Taches
      <3>3. tache' = [tache EXCEPT ![g] = t]
        BY <2>1 DEF TacheListe
      <3> QED BY <3>1, <3>2, <3>3
    <2>2. CASE TacheFinit(g)
      <3>1. SansTache \in Taches /\ SansTache.vu = Personne /\ SansTache.reste = {}
        BY DEF SansTache, Taches
      <3> QED BY <2>2, <3>1 DEF TacheFinit
    <2> QED BY <2>1, <2>2
  <1>4. Rangs' /\ FinTient /\ SansPaiement
    BY <1>1, MatchsFixes, BanqueFixe DEF PIInv, MatchsTiennent
  <1>5. ASSUME NEW h \in Parties PROVE TacheTenue(h)'
    <2>1. TacheTenue(h)
      BY DEF PIInv
    <2>2. CASE h # g
      BY <1>1, <1>2, <1>3, <2>1, <2>2 DEF TacheTenue
    <2>3. CASE h = g
      BY <1>1, <1>2, <1>3, <2>1, <2>3 DEF TacheTenue
    <2> QED BY <2>2, <2>3
  <1>6. LignesTypees'
    BY <1>1, <1>2, <1>3 DEF PIInv, LignesTypees
  <1>7. \A p \in Paris : PariTenu(p)' /\ GainTenu(p)'
    BY <1>1, <1>4, ParisRestent
  <1> QED BY <1>4, <1>5, <1>6, <1>7 DEF PIInv, SansPaiement

\* A bet is written, whatever has become of its match since it was checked.
LEMMA EcrireParis ==
    ASSUME PIInv, NEW u \in Joueurs, NEW p \in Paris, EcrirePari(u, p)
    PROVE  PIInv'
  <1>1. PICK d : d = lectures[u]
    OBVIOUS
  <1>2. /\ d \in Demandes
        /\ d.partie \in Parties /\ d.sur \in Joueurs /\ d.montant \in Montants
    BY <1>1 DEF EcrirePari, PIInv, LignesTypees, Demandes
  <1>3. d.montant \in Nat
    BY <1>2, MontantsHypothese
  <1>4. PICK k : k = CleDuPari(u, d)
    OBVIOUS
  <1>5. k \in ToutesLesCles
    BY <1>2, <1>4 DEF ToutesLesCles, ClesDesParis
  <1>6. k.op = "pari"
    BY <1>4 DEF CleDuPari
  <1>7. caisse \in FondsDe(ToutesLesCles) /\ Rangs
    BY DEF PIInv
  <1>8. matchs[d.partie].mise \in Nat
    BY <1>2, <1>7, Depart
  <1>9. Augmente(ToutesLesCles, caisse, caisse', {k})
    <2>1. CASE matchs[d.partie].mise = 0
      BY <1>1, <1>7, <2>1, AugmenteRien DEF EcrirePari
    <2>2. CASE matchs[d.partie].mise # 0
      <3>1. caisse' = BloquerMise(caisse, u, d.montant, k)
        BY <1>1, <1>4, <2>2 DEF EcrirePari
      <3>2. k \in caisse.cles \/ d.montant <= caisse.dispo[u]
        BY <1>1, <1>4, <1>8, <2>2 DEF EcrirePari, PeutEcrire, PeutBloquer
      <3> QED BY <1>3, <1>5, <1>7, <3>1, <3>2, BloquerFonds
    <2> QED BY <2>1, <2>2
  <1>10. \A q : ClePari("gagne", q) # k
    BY <1>6 DEF ClePari
  <1>11. SansPaiement
    BY <1>9, <1>10 DEF Augmente, SansPaiement
  <1> DEFINE r == [statut |-> "en_cours", qui |-> u, partie |-> d.partie,
                   sur |-> d.sur, montant |-> d.montant]
  <1>12. r \in LignesPari /\ r.statut = "en_cours"
    BY <1>2 DEF LignesPari, StatutsPari
  <1>13. /\ paris' = [paris EXCEPT ![p] = r]
         /\ lectures' = [lectures EXCEPT ![u] = Rien]
         /\ UNCHANGED <<matchs, enVol, tiers, tache>>
         /\ paris[p].statut = "absent"
    BY <1>1 DEF EcrirePari
  <1>14. r.qui = u /\ r.partie = d.partie /\ r.sur = d.sur /\ r.montant = d.montant
    OBVIOUS
  <1> HIDE DEF r
  <1>15. LignesTypees
    BY DEF PIInv
  <1>16. /\ paris' \in [Paris -> LignesPari] /\ paris'[p] = r
         /\ \A q \in Paris \ {p} : paris'[q] = paris[q]
    BY <1>12, <1>13, <1>15 DEF LignesTypees
  <1>17. LignesTypees'
    BY <1>13, <1>15, <1>16 DEF LignesTypees
  <1>18. Rangs' /\ FinTient
    BY <1>7, <1>13, MatchsFixes DEF MatchsTiennent
  <1>19. ASSUME NEW q \in Paris PROVE PariTenu(q)' /\ GainTenu(q)'
    <2>1. PariTenu(q) /\ GainTenu(q)
      BY DEF PIInv
    <2>2. CASE q = p
      <3>1. PariTenu(q)'
        BY <1>2, <1>14, <1>16, <2>2 DEF PariTenu
      <3>2. ClePari("gagne", q) \notin caisse'.cles
        BY <1>11, <1>13, <2>1, <2>2 DEF GainTenu, Merite, SansPaiement
      <3>3. GainTenu(q)'
        BY <1>12, <1>16, <2>2, <3>2 DEF GainTenu
      <3> QED BY <3>1, <3>3
    <2>3. CASE q # p
      <3>1. paris'[q] = paris[q] /\ UNCHANGED matchs
        BY <1>13, <1>16, <2>3
      <3>2. ClePari("gagne", q) \in caisse'.cles => ClePari("gagne", q) \in caisse.cles
        BY <1>11 DEF SansPaiement
      <3> QED BY <2>1, <3>1, <3>2 DEF PariTenu, GainTenu, Merite
    <2> QED BY <2>2, <2>3
  <1>20. ASSUME NEW h \in Parties PROVE TacheTenue(h)'
    <2>1. TacheTenue(h) /\ tache[h].reste \in SUBSET Paris
      BY <1>15 DEF PIInv, LignesTypees, Taches
    <2>2. \A q \in tache'[h].reste : paris'[q].statut # "absent" /\ paris'[q].partie = h
      BY <1>13, <1>16, <2>1 DEF TacheTenue
    <2> QED BY <1>13, <1>18, <2>1, <2>2, TacheReste
  <1> QED BY <1>11, <1>17, <1>18, <1>19, <1>20 DEF PIInv, SansPaiement

-----------------------------------------------------------------------------
\* What is paid to the winner of a bet writes the two keys of the bet.
LEMMA GagnerFonds ==
    ASSUME PIInv, NEW p \in Paris, paris[p].statut # "absent"
    PROVE  /\ CommissionPour(paris[p].montant) \in Nat
           /\ Augmente(ToutesLesCles, caisse, Gagner(p),
                       {ClePari("gagne", p), ClePari("gagne:commission", p)})
           /\ Augmente(ToutesLesCles, caisse,
                       CrediterPlateforme(Gagner(p), CommissionPour(paris[p].montant)),
                       {ClePari("gagne", p), ClePari("gagne:commission", p)})
           /\ Augmente(ToutesLesCles, caisse,
                       ConsommerMise(caisse, paris[p].qui, paris[p].montant, ClePari("perdu", p)),
                       {ClePari("perdu", p)})
  <1>1. PICK m, c, u, k, kc, kp, brut :
          /\ m = paris[p].montant /\ c = CommissionPour(m) /\ u = paris[p].qui
          /\ k = ClePari("gagne", p) /\ kc = ClePari("gagne:commission", p)
          /\ kp = ClePari("perdu", p) /\ brut = 2 * m
    OBVIOUS
  <1>2. /\ k \in ToutesLesCles /\ kc \in ToutesLesCles /\ kp \in ToutesLesCles
    BY <1>1 DEF ToutesLesCles, ClesDesParis
  <1>3. u \in Joueurs /\ m \in Nat
    BY <1>1, MontantsHypothese DEF PIInv, PariTenu
  <1>4. c \in Nat /\ brut \in Nat
    BY <1>1, <1>3, CommissionType
  <1>5. caisse \in FondsDe(ToutesLesCles)
    BY DEF PIInv
  <1>6. PICK b : b = PayerGain(caisse, u, m, brut, c, k, kc)
    OBVIOUS
  <1>7. Gagner(p) = b
    BY <1>1, <1>6 DEF Gagner
  <1>8. Augmente(ToutesLesCles, caisse, b, {k, kc})
    BY <1>2, <1>3, <1>4, <1>5, <1>6, PayerFonds
  <1>9. Augmente(ToutesLesCles, b, CrediterPlateforme(b, c), {})
    BY <1>4, <1>8, CrediterFonds DEF Augmente
  <1>10. Augmente(ToutesLesCles, caisse, CrediterPlateforme(b, c), {k, kc})
    BY <1>8, <1>9 DEF Augmente
  <1>11. Augmente(ToutesLesCles, caisse, ConsommerMise(caisse, u, m, kp), {kp})
    BY <1>2, <1>3, <1>5, ConsommerFonds
  <1> QED BY <1>1, <1>4, <1>7, <1>8, <1>10, <1>11

\* A bet on the list of the task is resolved.
LEMMA ResoudreParis ==
    ASSUME PIInv, NEW g \in Parties, NEW p \in Paris,
           PariGagne(g, p) \/ PariGagneEchoue(g, p) \/ PariPerdu(g, p)
    PROVE  PIInv'
  <1>1. p \in tache[g].reste /\ UNCHANGED <<matchs, enVol, tiers, lectures>>
    BY DEF PariGagne, PariGagneEchoue, PariPerdu, Resolu
  <1>2. TacheTenue(g) /\ PariTenu(p) /\ LignesTypees /\ Rangs
    BY DEF PIInv
  <1>3. paris[p].statut # "absent" /\ paris[p].partie = g
    BY <1>1, <1>2 DEF TacheTenue
  <1>4. Rangs' /\ FinTient
    BY <1>1, <1>2, MatchsFixes DEF MatchsTiennent
  <1>5. PariGagne(g, p) \/ PariGagneEchoue(g, p) => Merite(p)
    <2>1. PariGagne(g, p) \/ PariGagneEchoue(g, p) => paris[p].sur = tache[g].vu
      BY DEF PariGagne, PariGagneEchoue, Gagnant
    <2>2. paris[p].sur # Personne
      BY <1>2, <1>3, PersonneHypothese DEF PariTenu
    <2> QED BY <1>2, <1>3, <2>1, <2>2 DEF TacheTenue, Merite
  <1>6. /\ caisse' \in FondsDe(ToutesLesCles)
        /\ \A q \in Paris : ClePari("gagne", q) \in caisse'.cles =>
                              \/ ClePari("gagne", q) \in caisse.cles
                              \/ q = p /\ Merite(p)
    <2>1. \A q \in Paris : /\ ClePari("gagne", q) # ClePari("gagne:commission", p)
                           /\ ClePari("gagne", q) # ClePari("perdu", p)
                           /\ ClePari("gagne", q) = ClePari("gagne", p) => q = p
      BY DEF ClePari
    <2>2. CASE PariGagne(g, p) \/ PariGagneEchoue(g, p)
      <3>1. Augmente(ToutesLesCles, caisse, caisse',
                     {ClePari("gagne", p), ClePari("gagne:commission", p)})
        BY <1>3, <2>2, GagnerFonds DEF PariGagne, PariGagneEchoue
      <3> QED BY <1>5, <2>1, <2>2, <3>1 DEF Augmente
    <2>3. CASE PariPerdu(g, p)
      <3>1. Augmente(ToutesLesCles, caisse, caisse', {ClePari("perdu", p)})
        BY <1>3, <2>3, GagnerFonds DEF PariPerdu
      <3> QED BY <2>1, <3>1 DEF Augmente
    <2> QED BY <2>2, <2>3
  <1>7. PICK s \in StatutsPari :
          /\ s # "absent" /\ paris' = [paris EXCEPT ![p].statut = s]
          /\ s = "gagne" => Merite(p) \/ paris[p].statut = "gagne"
    <2>1. CASE PariGagne(g, p)
      BY <1>5, <2>1 DEF PariGagne, Resolu, StatutsPari
    <2>2. CASE PariPerdu(g, p)
      BY <2>2 DEF PariPerdu, Resolu, StatutsPari
    <2>3. CASE PariGagneEchoue(g, p)
      <3>1. paris' = paris /\ paris \in [Paris -> LignesPari]
        BY <1>2, <2>3 DEF PariGagneEchoue, LignesTypees
      <3>2. paris' = [paris EXCEPT ![p].statut = paris[p].statut]
        BY <3>1 DEF LignesPari
      <3>3. paris[p].statut \in StatutsPari
        BY <3>1 DEF LignesPari
      <3> QED BY <1>3, <3>2, <3>3
    <2> QED BY <2>1, <2>2, <2>3
  <1>8. /\ paris' \in [Paris -> LignesPari]
        /\ \A q \in Paris : /\ paris'[q].partie = paris[q].partie
                            /\ paris'[q].sur = paris[q].sur
                            /\ paris'[q].qui = paris[q].qui
                            /\ paris'[q].montant = paris[q].montant
                            /\ paris'[q].statut = IF q = p THEN s ELSE paris[q].statut
    BY <1>2, <1>7 DEF LignesTypees, LignesPari
  <1>9. PICK t \in Taches :
          /\ tache' = [tache EXCEPT ![g] = t]
          /\ t.vu # Personne => t.vu = tache[g].vu
          /\ t.reste \subseteq tache[g].reste
    <2>1. tache[g] \in Taches
      BY <1>2 DEF LignesTypees
    <2>2. CASE PariGagne(g, p) \/ PariPerdu(g, p)
      <3> DEFINE t == [tache[g] EXCEPT !.reste = @ \ {p}]
      <3>1. t \in Taches /\ t.vu = tache[g].vu /\ t.reste \subseteq tache[g].reste
        BY <2>1 DEF Taches
      <3>2. tache' = [tache EXCEPT ![g] = t]
        BY <2>2 DEF PariGagne, PariPerdu, Resolu
      <3> QED BY <3>1, <3>2
    <2>3. CASE PariGagneEchoue(g, p)
      <3>1. SansTache \in Taches /\ SansTache.vu = Personne /\ SansTache.reste = {}
        BY DEF SansTache, Taches
      <3> QED BY <2>3, <3>1 DEF PariGagneEchoue
    <2> QED BY <2>2, <2>3
  <1>10. LignesTypees'
    BY <1>1, <1>2, <1>8, <1>9 DEF LignesTypees
  <1>11. ASSUME NEW q \in Paris PROVE PariTenu(q)' /\ GainTenu(q)'
    <2>1. PariTenu(q) /\ GainTenu(q)
      BY DEF PIInv
    <2>2. paris'[q].statut # "absent" <=> paris[q].statut # "absent"
      BY <1>3, <1>7, <1>8
    <2>3. PariTenu(q)'
      BY <1>8, <2>1, <2>2 DEF PariTenu
    <2>4. Merite(q) => Merite(q)'
      BY <1>1, <1>8, <2>2 DEF Merite
    <2>5. paris'[q].statut = "gagne" => Merite(q)
      BY <1>7, <1>8, <2>1 DEF GainTenu
    <2>6. ClePari("gagne", q) \in caisse'.cles => Merite(q)
      BY <1>6, <2>1 DEF GainTenu
    <2>7. GainTenu(q)'
      BY <2>4, <2>5, <2>6 DEF GainTenu
    <2> QED BY <2>3, <2>7
  <1>12. ASSUME NEW h \in Parties PROVE TacheTenue(h)'
    <2>1. TacheTenue(h) /\ tache \in [Parties -> Taches] /\ tache[h].reste \in SUBSET Paris
      BY <1>2 DEF PIInv, LignesTypees, Taches
    <2>2. tache'[h].reste \subseteq tache[h].reste
          /\ (tache'[h].vu # Personne => tache'[h].vu = tache[h].vu)
      BY <1>9, <2>1
    <2>3. \A q \in tache'[h].reste : paris'[q].statut # "absent" /\ paris'[q].partie = h
      BY <1>7, <1>8, <2>1, <2>2 DEF TacheTenue
    <2> QED BY <1>1, <2>1, <2>2, <2>3 DEF TacheTenue
  <1> QED BY <1>4, <1>6, <1>10, <1>11, <1>12 DEF PIInv

-----------------------------------------------------------------------------
LEMMA ParisInvariant == PIInv /\ [PNext]_varsTout => PIInv'
  <1> SUFFICES ASSUME PIInv, [PNext]_varsTout PROVE PIInv'
    OBVIOUS
  <1>1. CASE HorsVictoire /\ UNCHANGED varsParis
    BY <1>1, HorsVictoireParis
  <1>2. ASSUME NEW g \in Parties, FranchirTiers(g) PROVE PIInv'
    BY <1>2, LectureParis
  <1>3. ASSUME NEW g \in Parties, NEW w \in Joueurs, NEW avant \in BOOLEAN,
               CloturerEtEnvoyer(g, w, avant)
        PROVE  PIInv'
    BY <1>3, CloturerParis
  <1>4. ASSUME NEW g \in Parties, Tache(g) PROVE PIInv'
    BY <1>4, TacheParis, ResoudreParis DEF Tache
  <1>5. ASSUME NEW u \in Parieurs, NEW g \in Parties, NEW v \in Joueurs, NEW m \in Montants,
               LirePari(u, g, v, m)
        PROVE  PIInv'
    BY <1>5, ParieursHypothese, LectureParis
  <1>6. ASSUME NEW u \in Parieurs, NEW p \in Paris, EcrirePari(u, p) PROVE PIInv'
    BY <1>6, ParieursHypothese, EcrireParis
  <1>7. ASSUME NEW u \in Parieurs, EcrirePariEchoue(u) PROVE PIInv'
    BY <1>7, ParieursHypothese, LectureParis
  <1>8. CASE UNCHANGED varsTout
    <2>1. UNCHANGED <<matchs, enVol, caisse, tiers, paris, lectures, tache>>
      BY <1>8 DEF varsTout, matchVars, varsParis
    <2>2. Rangs' /\ FinTient /\ SansPaiement
      BY <2>1, MatchsFixes, BanqueFixe DEF PIInv, MatchsTiennent
    <2>3. /\ \A p \in Paris : PariTenu(p)' /\ GainTenu(p)'
          /\ \A g \in Parties : TacheTenue(g)'
      BY <2>1, <2>2, ParisRestent, TachesRestent
    <2>4. LignesTypees'
      BY <2>1 DEF PIInv, LignesTypees
    <2> QED BY <2>2, <2>3, <2>4 DEF PIInv, SansPaiement
  <1> QED BY <1>1, <1>2, <1>3, <1>4, <1>5, <1>6, <1>7, <1>8 DEF PNext

\* The inductive invariant of matches and bets together.
THEOREM ParisTenus == PSpec => []PIInv
  <1> QED BY ParisInitiaux, ParisInvariant, PTL DEF PSpec

\* placer_pari checks what it has read and writes later, the task resolves what it
\* has listed: whatever happens in between, rows stay legal and no balance is
\* negative.
THEOREM ParisTypes == PSpec => []PTypeOK
  <1>1. PIInv => PTypeOK
    BY ChampsFonds DEF PIInv, Rangs, LignesTypees, PTypeOK
  <1> QED BY <1>1, ParisTenus, PTL

\* resoudre_paris_match: nobody is paid for a bet on a player who has not won,
\* also when the task has read the match before it was committed as over.
THEOREM GainToujoursMerite == PSpec => []GainMerite
  <1>1. PIInv => GainMerite
    BY DEF PIInv, GainTenu, Merite, GainMerite
  <1> QED BY <1>1, ParisTenus, PTL

-----------------------------------------------------------------------------
(* Bets and stakes together.  The task lists a bet when it is open and not   *)
(* paid, and is sent once for a match: it never pays or takes a stake twice. *)

PariReserve(p) ==
    /\ paris[p].statut # "absent" => matchs[paris[p].partie].statut # "absent"
    /\ paris[p].statut = "absent" => paris[p].qui = Personne
    /\ ClePari("perdu", p) \in caisse.cles => paris[p].statut = "perdu"

TacheSaine(g) ==
    /\ tache[g].etat # "aucune" => g \notin Courses /\ matchs[g].statut = "termine"
    /\ tache[g].etat # "en_cours" => tache[g].reste = {}
    /\ tache[g].etat = "en_file" =>
         \A p \in Paris : paris[p].partie = g => ClePari("gagne", p) \notin caisse.cles
    /\ \A p \in tache[g].reste :
          paris[p].statut = "en_cours" /\ ClePari("gagne", p) \notin caisse.cles

(* The reading of a bet is of a match that exists, and its key is one of a bet *)
LectureVue(u) ==
    /\ lectures[u] # Rien => matchs[lectures[u].partie].statut # "absent"
    /\ \A d \in Demandes :
          CleDuPari(u, d) \in caisse.cles =>
            \E p \in Paris : /\ paris[p].qui = u /\ paris[p].partie = d.partie
                             /\ paris[p].montant = d.montant

PRInv ==
    /\ Regles
    /\ \A p \in Paris : PariReserve(p)
    /\ \A g \in Parties : TacheSaine(g)
    /\ \A u \in Joueurs : LectureVue(u)

EnjeuxParis(u) == [p \in Paris |-> EnjeuPari(p, u)]
CouvertParis(u) == TousReserves(u) => Couvert(u, Somme(EnjeuxParis(u), Paris))

(* The inductive invariant of the stakes and the bets *)
PMInv == PIInv /\ PRInv /\ \A u \in Joueurs : CouvertParis(u)

-----------------------------------------------------------------------------
(* What a step may leave alone of the ledger *)

ClesMatchsFixes ==
    \A op \in Operations, h \in Parties, v \in Utilisateurs :
        CleDe(op, h, v) \in caisse'.cles <=> CleDe(op, h, v) \in caisse.cles
ClesParisFixes ==
    /\ \A op \in {"gagne", "perdu"}, p \in Paris :
          ClePari(op, p) \in caisse'.cles <=> ClePari(op, p) \in caisse.cles
    /\ \A u \in Joueurs, d \in Demandes :
          CleDuPari(u, d) \in caisse'.cles <=> CleDuPari(u, d) \in caisse.cles
MatchsRestent == \A h \in Parties : matchs[h].statut # "absent" =>
                    matchs'[h].statut # "absent" /\ matchs'[h].mise = matchs[h].mise

\* The keys of a match are not those of a bet.
LEMMA ClesDistinctes ==
    /\ \A op \in {"gagne", "gagne:commission", "perdu"} : \A p : ClePari(op, p) \notin Cles
    /\ \A u, d : CleDuPari(u, d) \notin Cles
    /\ \A op \in Operations, po \in {"gagne", "gagne:commission", "perdu"} : \A h, v, p :
          CleDe(op, h, v) # ClePari(po, p)
    /\ \A op \in Operations : \A h, v, u, d : CleDe(op, h, v) # CleDuPari(u, d)
    /\ \A op \in {"gagne", "gagne:commission", "perdu"} : \A p, u, d : ClePari(op, p) # CleDuPari(u, d)
    /\ \A op, po, p, q : ClePari(op, p) = ClePari(po, q) => op = po /\ p = q
  <1>1. \A op, p : ClePari(op, p).op = op
    BY DEF ClePari
  <1>2. \A u, d : CleDuPari(u, d).op = "pari"
    BY DEF CleDuPari
  <1>3. \A op, h, v : CleDe(op, h, v).op = op
    BY DEF CleDe
  <1>4. \A k \in Cles : k.op \in Operations
    BY DEF Cles
  <1>5. \A op, po, p, q : ClePari(op, p) = ClePari(po, q) => op = po /\ p = q
    BY DEF ClePari
  <1>6. {"gagne", "gagne:commission", "perdu", "pari"} \cap Operations = {}
    BY DEF Operations
  <1>7. \A op \in {"gagne", "gagne:commission", "perdu"} : \A p : ClePari(op, p) \notin Cles
    BY <1>1, <1>4, <1>6
  <1>8. \A u, d : CleDuPari(u, d) \notin Cles
    BY <1>2, <1>4, <1>6
  <1>9. \A op \in Operations, po \in {"gagne", "gagne:commission", "perdu"} : \A h, v, p :
           CleDe(op, h, v) # ClePari(po, p)
    BY <1>1, <1>3, <1>6
  <1>10. \A op \in Operations : \A h, v, u, d : CleDe(op, h, v) # CleDuPari(u, d)
    BY <1>2, <1>3, <1>6
  <1>11. \A op \in {"gagne", "gagne:commission", "perdu"} : \A p, u, d : ClePari(op, p) # CleDuPari(u, d)
    BY <1>1, <1>2
  <1> QED BY <1>5, <1>7, <1>8, <1>9, <1>10, <1>11

LEMMA EnjeuxType ==
    ASSUME PIInv, NEW u
    PROVE  /\ EnjeuxParis(u) \in [Paris -> Nat] /\ EnjeuxParis(u) \in [Paris -> Int]
           /\ \A p \in Paris : EnjeuPari(p, u) \in Nat
  <1>1. ASSUME NEW p \in Paris PROVE EnjeuPari(p, u) \in Nat
    <2>1. paris[p].montant \in Montants \cup {0}
      BY DEF PIInv, LignesTypees, LignesPari
    <2>2. paris[p].montant \in Nat
      <3>1. PICK m : m = paris[p].montant
        OBVIOUS
      <3>2. m \in Montants \/ m = 0
        BY <2>1, <3>1
      <3>3. m \in Montants => m \in Nat
        BY MontantsHypothese
      <3>4. m = 0 => m \in Nat
        OBVIOUS
      <3> QED BY <3>1, <3>2, <3>3, <3>4
    <2> DEFINE ouvert == /\ paris[p].statut = "en_cours" /\ paris[p].qui = u
                         /\ ClePari("gagne", p) \notin caisse.cles
    <2>3. EnjeuPari(p, u) = IF ouvert THEN paris[p].montant ELSE 0
      BY DEF EnjeuPari
    <2> HIDE DEF ouvert
    <2> QED BY <2>2, <2>3
  <1> QED BY <1>1 DEF EnjeuxParis

-----------------------------------------------------------------------------
\* A step of a match leaves what is said of bets.
LEMMA ParisReservent ==
    ASSUME PIInv, PRInv, MatchsRestent, ClesParisFixes, UNCHANGED paris
    PROVE  \A p \in Paris : PariReserve(p)'
  <1> SUFFICES ASSUME NEW p \in Paris PROVE PariReserve(p)'
    OBVIOUS
  <1>1. PariReserve(p) /\ PariTenu(p)
    BY DEF PRInv, PIInv
  <1>2. ClePari("perdu", p) \in caisse'.cles <=> ClePari("perdu", p) \in caisse.cles
    BY DEF ClesParisFixes
  <1>3. paris[p].statut # "absent" =>
          paris[p].partie \in Parties /\ matchs'[paris[p].partie].statut # "absent"
    BY <1>1 DEF PariReserve, PariTenu, MatchsRestent
  <1> QED BY <1>1, <1>2, <1>3 DEF PariReserve

LEMMA LecturesRestent ==
    ASSUME PIInv, PRInv, MatchsRestent, ClesParisFixes, UNCHANGED <<paris, lectures>>
    PROVE  \A u \in Joueurs : LectureVue(u)'
  <1> SUFFICES ASSUME NEW u \in Joueurs PROVE LectureVue(u)'
    OBVIOUS
  <1>1. LectureVue(u)
    BY DEF PRInv
  <1>2. lectures[u] # Rien => lectures[u].partie \in Parties
    BY DEF PIInv, LignesTypees, Demandes
  <1>3. \A d \in Demandes : CleDuPari(u, d) \in caisse'.cles <=> CleDuPari(u, d) \in caisse.cles
    BY DEF ClesParisFixes
  <1>4. lectures'[u] # Rien => matchs'[lectures'[u].partie].statut # "absent"
    BY <1>1, <1>2 DEF LectureVue, MatchsRestent
  <1>5. \A d \in Demandes :
           CleDuPari(u, d) \in caisse'.cles =>
             \E p \in Paris : /\ paris'[p].qui = u /\ paris'[p].partie = d.partie
                              /\ paris'[p].montant = d.montant
    BY <1>1, <1>3 DEF LectureVue
  <1> QED BY <1>4, <1>5 DEF LectureVue

LEMMA TacheSaineReste ==
    ASSUME FinTient, ClesParisFixes, UNCHANGED paris, NEW g \in Parties, TacheSaine(g),
           tache'[g] = tache[g], PIInv
    PROVE  TacheSaine(g)'
  <1>1. tache[g].reste \in SUBSET Paris
    BY DEF PIInv, LignesTypees, Taches
  <1>2. \A p \in Paris : ClePari("gagne", p) \in caisse'.cles <=> ClePari("gagne", p) \in caisse.cles
    BY DEF ClesParisFixes
  <1>3. tache[g].etat # "aucune" => g \notin Courses /\ matchs'[g].statut = "termine"
    BY DEF TacheSaine, FinTient, Termine
  <1> QED BY <1>1, <1>2, <1>3 DEF TacheSaine

\* Neither do the bets change what a step of a match leaves covered.
LEMMA MatchCouvreParis ==
    ASSUME IsFiniteSet(Parties), IsFiniteSet(Paris), PIInv, PIInv', PRInv,
           NEW g \in Parties, Etape(g), MatchsRestent, ClesParisFixes, UNCHANGED paris,
           NEW u \in Joueurs, CouvertParis(u)
    PROVE  CouvertParis(u)'
  <1>1. ASSUME NEW p \in Paris PROVE EnjeuPari(p, u)' = EnjeuPari(p, u)
    BY DEF EnjeuPari, ClesParisFixes
  <1>2. EnjeuxParis(u)' = EnjeuxParis(u)
    BY <1>1 DEF EnjeuxParis
  <1>3. PICK x : x = Somme(EnjeuxParis(u), Paris)
    OBVIOUS
  <1>4. x \in Nat
    BY <1>3, EnjeuxType, SommeNaturelle
  <1>5. TousReserves(u)' => TousReserves(u)
    <2>1. \A p \in Paris : paris[p].qui = u =>
             matchs'[paris[p].partie].mise = matchs[paris[p].partie].mise
      <3> SUFFICES ASSUME NEW p \in Paris, paris[p].qui = u
                   PROVE  matchs'[paris[p].partie].mise = matchs[paris[p].partie].mise
        OBVIOUS
      <3>1. PariReserve(p) /\ PariTenu(p)
        BY DEF PRInv, PIInv
      <3>2. paris[p].statut # "absent"
        BY <3>1, PersonneHypothese DEF PariReserve
      <3> QED BY <3>1, <3>2 DEF PariReserve, PariTenu, MatchsRestent
    <2> QED BY <2>1 DEF TousReserves
  <1>6. Rangs /\ Rangs' /\ Regles /\ Tient(ToutesLesCles) /\ Tient(ToutesLesCles)'
    BY DEF PIInv, PRInv, Tient, ToutesLesCles
  <1>7. Couvert(u, x) => Couvert(u, x)'
    BY <1>4, <1>6, CouvertTient
  <1>8. TousReserves(u)' => Couvert(u, x)'
    BY <1>3, <1>5, <1>7 DEF CouvertParis
  <1>9. Somme(EnjeuxParis(u)', Paris) = x
    BY <1>2, <1>3
  <1> QED BY <1>8, <1>9 DEF CouvertParis, Couvert

-----------------------------------------------------------------------------
(* The steps of the bets *)

\* A step that leaves the matches and their keys leaves what is said of them.
LEMMA ReglesFixes ==
    ASSUME PIInv, PRInv, UNCHANGED <<matchs, enVol>>, ClesMatchsFixes
    PROVE  Regles'
  <1> SUFFICES ASSUME NEW h \in Parties
               PROVE  Sain(h, matchs'[h], enVol'[h], caisse'.cles)
    BY DEF Regles
  <1>1. PICK r, e, ks, ls : /\ r = matchs[h] /\ e = enVol[h]
                            /\ ks = caisse.cles /\ ls = caisse'.cles
    OBVIOUS
  <1>2. r \in LignesMatch /\ Sain(h, r, e, ks)
    BY <1>1, Depart DEF PIInv, PRInv, Regles
  <1>3. \A op \in Operations, u \in Utilisateurs :
           CleDe(op, h, u) \in ls <=> CleDe(op, h, u) \in ks
    BY <1>1 DEF ClesMatchsFixes
  <1>4. Sain(h, r, e, ls)
    BY <1>2, <1>3, SainAilleurs
  <1> QED BY <1>1, <1>4

LEMMA RetenuesFixes ==
    ASSUME UNCHANGED matchs, ClesMatchsFixes, NEW u \in Joueurs
    PROVE  /\ Retenues(u)' = Retenues(u)
           /\ SansRendu(u)' <=> SansRendu(u)
           /\ SansCourse(u)' <=> SansCourse(u)
  <1>1. \A h \in Parties, op \in {"reserve", "annulation", "refus", "surplus"} :
           CleDe(op, h, u) \in caisse'.cles <=> CleDe(op, h, u) \in caisse.cles
    BY DEF ClesMatchsFixes, Operations, Utilisateurs
  <1>2. \A h \in Parties :
           /\ Retenue(h, matchs[h], caisse'.cles, u) = Retenue(h, matchs[h], caisse.cles, u)
           /\ RenduIci(h, matchs[h], caisse'.cles, u) <=> RenduIci(h, matchs[h], caisse.cles, u)
           /\ HorsCourse(h, caisse'.cles, u) <=> HorsCourse(h, caisse.cles, u)
    BY <1>1 DEF Retenue, RenduIci, HorsCourse
  <1>3. Retenues(u)' = Retenues(u)
    BY <1>2 DEF Retenues
  <1>4. SansRendu(u)' <=> SansRendu(u)
    BY <1>2 DEF SansRendu
  <1>5. SansCourse(u)' <=> SansCourse(u)
    BY <1>2 DEF SansCourse
  <1> QED BY <1>3, <1>4, <1>5

\* A step of one bet p that moves on the blocked balance of u what it changes of
\* the bet.
LEMMA PariCouvre ==
    ASSUME IsFiniteSet(Parties), IsFiniteSet(Paris), PIInv, PIInv',
           UNCHANGED matchs, ClesMatchsFixes, NEW u \in Joueurs, NEW p \in Paris,
           TousReserves(u)' => TousReserves(u),
           \A q \in Paris \ {p} : EnjeuPari(q, u)' = EnjeuPari(q, u),
           NEW x, NEW y, x = EnjeuPari(p, u), y = EnjeuPari(p, u)', y \in Nat,
           TousReserves(u)' /\ x <= caisse.bloque[u] =>
             caisse'.bloque[u] + x = caisse.bloque[u] + y,
           CouvertParis(u)
    PROVE  CouvertParis(u)'
  <1>1. PICK F, G, R, b, c : /\ F = EnjeuxParis(u) /\ G = EnjeuxParis(u)'
                             /\ R = Somme(Retenues(u), Parties)
                             /\ b = caisse.bloque[u] /\ c = caisse'.bloque[u]
    OBVIOUS
  <1>2. F \in [Paris -> Nat] /\ F \in [Paris -> Int]
    BY <1>1, EnjeuxType
  <1>3. /\ F[p] = x /\ G[p] = y
        /\ \A q \in Paris \ {p} : G[q] = F[q]
    BY <1>1 DEF EnjeuxParis
  <1>4. G \in [Paris -> Int]
    <2>1. G = [q \in Paris |-> G[q]]
      BY <1>1 DEF EnjeuxParis
    <2>2. \A q \in Paris : G[q] \in Int
      BY <1>2, <1>3
    <2> QED BY <2>1, <2>2
  <1>5. /\ Somme(F, Paris) \in Int /\ x <= Somme(F, Paris) /\ x \in Nat
        /\ Somme(G, Paris) = Somme(F, Paris) + (y - x)
    <2>1. Somme(F, Paris) \in Int /\ Somme(G, Paris) = Somme(F, Paris) + (G[p] - F[p])
      BY <1>2, <1>3, <1>4, SommeChange
    <2>2. F[p] <= Somme(F, Paris) /\ F[p] \in Nat
      BY <1>2, SommeMajore
    <2> QED BY <1>3, <2>1, <2>2
  <1>6. R \in Nat
    BY <1>1, RetenuesType, SommeNaturelle DEF PIInv
  <1>7. b \in Nat /\ c \in Nat
    BY <1>1, ChampsFonds DEF PIInv
  <1>8. ASSUME TousReserves(u)', SansRendu(u)'
        PROVE  /\ c >= R + Somme(G, Paris)
               /\ SansCourse(u)' => c = R + Somme(G, Paris)
    <2>1. /\ b >= R + Somme(F, Paris)
          /\ SansCourse(u) => b = R + Somme(F, Paris)
      BY <1>1, <1>8, RetenuesFixes DEF CouvertParis, Couvert
    <2>2. x <= b
      BY <1>5, <1>6, <1>7, <2>1
    <2>3. c + x = b + y
      BY <1>1, <1>8, <2>2
    <2>4. c >= R + Somme(G, Paris)
      BY <1>5, <1>6, <1>7, <2>1, <2>3
    <2>5. ASSUME SansCourse(u)' PROVE c = R + Somme(G, Paris)
      <3>1. b = R + Somme(F, Paris)
        BY <2>1, <2>5, RetenuesFixes
      <3>2. PICK sf, sg : sf = Somme(F, Paris) /\ sg = Somme(G, Paris)
        OBVIOUS
      <3>3. sf \in Int /\ x \in Nat /\ sg = sf + (y - x) /\ b = R + sf /\ c + x = b + y
        BY <1>5, <2>3, <3>1, <3>2
      <3>4. c = R + sg
        BY <1>6, <1>7, <3>3
      <3> QED BY <3>2, <3>4
    <2> QED BY <2>4, <2>5
  <1>9. Somme(Retenues(u)', Parties) = R
    BY <1>1, RetenuesFixes
  <1> QED BY <1>1, <1>8, <1>9 DEF CouvertParis, Couvert

\* Nothing of the matches, of the ledger or of the bets changes.
LEMMA PariFixe ==
    ASSUME PIInv, PRInv, UNCHANGED <<matchs, enVol, caisse, paris>>
    PROVE  /\ Regles' /\ \A p \in Paris : PariReserve(p)'
           /\ \A u \in Joueurs : CouvertParis(u) => CouvertParis(u)'
           /\ MatchsRestent /\ ClesParisFixes /\ FinTient
  <1>1. MatchsRestent /\ ClesParisFixes /\ ClesMatchsFixes
    BY DEF MatchsRestent, ClesParisFixes, ClesMatchsFixes
  <1>2. ASSUME NEW u \in Joueurs, CouvertParis(u) PROVE CouvertParis(u)'
    <2>1. EnjeuxParis(u)' = EnjeuxParis(u)
      BY DEF EnjeuxParis, EnjeuPari
    <2>2. TousReserves(u)' <=> TousReserves(u)
      BY DEF TousReserves
    <2> QED BY <1>1, <1>2, <2>1, <2>2, RetenuesFixes DEF CouvertParis, Couvert
  <1> QED BY <1>1, <1>2, ReglesFixes, ParisReservent DEF FinTient

\* Reading for a bet, giving it up, and the score.
LEMMA LectureSaine ==
    ASSUME PMInv,
           \/ \E g \in Parties : FranchirTiers(g)
           \/ \E u \in Joueurs, g \in Parties, v \in Joueurs, m \in Montants : LirePari(u, g, v, m)
           \/ \E u \in Joueurs : EcrirePariEchoue(u)
    PROVE  PRInv' /\ \A u \in Joueurs : CouvertParis(u)'
  <1>1. UNCHANGED <<matchs, enVol, caisse, paris, tache>>
    BY DEF FranchirTiers, LirePari, EcrirePariEchoue, matchVars
  <1>2. /\ Regles' /\ \A p \in Paris : PariReserve(p)'
        /\ \A u \in Joueurs : CouvertParis(u)'
        /\ ClesParisFixes /\ FinTient
    BY <1>1, PariFixe DEF PMInv
  <1>3. \A g \in Parties : TacheSaine(g)'
    BY <1>1, <1>2, TacheSaineReste DEF PMInv, PRInv
  <1>4. ASSUME NEW u \in Joueurs PROVE LectureVue(u)'
    <2>1. LectureVue(u)
      BY DEF PMInv, PRInv
    <2>2. lectures'[u] = lectures[u] \/ lectures'[u] = Rien
          \/ matchs[lectures'[u].partie].statut # "absent"
      <3>1. lectures \in [Joueurs -> Demandes \cup {Rien}]
        BY DEF PMInv, PIInv, LignesTypees
      <3>2. CASE \E v \in Joueurs, g \in Parties, w \in Joueurs, m \in Montants : LirePari(v, g, w, m)
        <4>1. PICK v \in Joueurs, g \in Parties, w \in Joueurs, m \in Montants : LirePari(v, g, w, m)
          BY <3>2
        <4>2. PICK d : d = [partie |-> g, sur |-> w, montant |-> m]
          OBVIOUS
        <4>3. lectures' = [lectures EXCEPT ![v] = d] /\ d.partie = g
              /\ matchs[g].statut = "en_cours"
          BY <4>1, <4>2 DEF LirePari, PeutParier
        <4> QED BY <3>1, <4>3
      <3>3. CASE (\E g \in Parties : FranchirTiers(g)) \/ \E v \in Joueurs : EcrirePariEchoue(v)
        BY <3>1, <3>3 DEF FranchirTiers, EcrirePariEchoue
      <3> QED BY <3>2, <3>3
    <2>3. lectures'[u] # Rien => matchs'[lectures'[u].partie].statut # "absent"
      BY <1>1, <2>1, <2>2 DEF LectureVue
    <2> QED BY <1>1, <2>1, <2>3 DEF LectureVue
  <1> QED BY <1>2, <1>3, <1>4 DEF PRInv

\* The task lists the open bets of its match, and ends.
LEMMA TacheListeSaine ==
    ASSUME PMInv, NEW g \in Parties, TacheListe(g) \/ TacheFinit(g)
    PROVE  PRInv' /\ \A u \in Joueurs : CouvertParis(u)'
  <1>1. UNCHANGED <<matchs, enVol, caisse, paris, lectures>>
    BY DEF TacheListe, TacheFinit, matchVars
  <1>2. /\ Regles' /\ \A p \in Paris : PariReserve(p)'
        /\ \A u \in Joueurs : CouvertParis(u)'
        /\ MatchsRestent /\ ClesParisFixes /\ FinTient
    BY <1>1, PariFixe DEF PMInv
  <1>3. \A u \in Joueurs : LectureVue(u)'
    BY <1>1, <1>2, LecturesRestent DEF PMInv
  <1>4. tache \in [Parties -> Taches] /\ TacheSaine(g)
    BY DEF PMInv, PIInv, PRInv, LignesTypees
  <1>5. TacheSaine(g)'
    <2>1. CASE TacheListe(g)
      <3>1. PICK t : t = [tache[g] EXCEPT !.etat = "en_cours", !.reste = Ouverts(g)]
        OBVIOUS
      <3>2. tache'[g] = t
        BY <1>4, <2>1, <3>1 DEF TacheListe
      <3>3. t.etat = "en_cours" /\ t.reste = Ouverts(g) /\ tache[g].etat = "en_file"
        BY <1>4, <2>1, <3>1 DEF Taches, TacheListe
      <3>4. \A p \in Ouverts(g) :
               paris[p].statut = "en_cours" /\ ClePari("gagne", p) \notin caisse.cles
        BY <1>4, <3>3 DEF Ouverts, TacheSaine
      <3> QED BY <1>1, <1>4, <3>2, <3>3, <3>4 DEF TacheSaine
    <2>2. CASE TacheFinit(g)
      <3>1. tache'[g] = SansTache
        BY <1>4, <2>2 DEF TacheFinit
      <3> QED BY <3>1 DEF TacheSaine, SansTache
    <2> QED BY <2>1, <2>2
  <1>6. ASSUME NEW h \in Parties \ {g} PROVE TacheSaine(h)'
    <2>1. tache'[h] = tache[h]
      BY <1>4 DEF TacheListe, TacheFinit
    <2> QED BY <1>1, <1>2, <2>1, TacheSaineReste DEF PMInv, PRInv
  <1> QED BY <1>2, <1>3, <1>5, <1>6 DEF PRInv

\* A bet that is written: what it says, and the one key that it may add.
LEMMA EcrireFaits ==
    ASSUME PMInv, NEW u \in Joueurs, NEW p \in Paris, EcrirePari(u, p),
           NEW d, d = lectures[u], NEW k, k = CleDuPari(u, d)
    PROVE  /\ d \in Demandes /\ d.partie \in Parties /\ d.montant \in Nat
           /\ matchs[d.partie].statut # "absent"
           /\ paris[p].statut = "absent" /\ paris[p].qui = Personne
           /\ ClePari("gagne", p) \notin caisse.cles
           /\ paris'[p].statut = "en_cours" /\ paris'[p].qui = u
           /\ paris'[p].partie = d.partie /\ paris'[p].montant = d.montant
           /\ \A q \in Paris \ {p} : paris'[q] = paris[q]
           /\ lectures'[u] = Rien
           /\ \A v \in Joueurs \ {u} : lectures'[v] = lectures[v]
           /\ caisse' = IF matchs[d.partie].mise = 0 THEN caisse
                        ELSE BloquerMise(caisse, u, d.montant, k)
           /\ \A l : l # k => (l \in caisse'.cles <=> l \in caisse.cles)
           /\ UNCHANGED <<matchs, enVol, tache>>
  <1>1. LignesTypees /\ LectureVue(u) /\ PariReserve(p) /\ PariTenu(p) /\ GainTenu(p)
    BY DEF PMInv, PIInv, PRInv
  <1>2. d \in Demandes /\ d # Rien
    BY <1>1 DEF EcrirePari, LignesTypees
  <1>3. d.partie \in Parties /\ d.montant \in Montants
    BY <1>2 DEF Demandes
  <1>4. d.montant \in Nat
    BY <1>3, MontantsHypothese
  <1>5. matchs[d.partie].statut # "absent"
    BY <1>1, <1>2 DEF LectureVue
  <1>6. paris[p].statut = "absent"
    BY DEF EcrirePari
  <1>7. paris[p].qui = Personne /\ ClePari("gagne", p) \notin caisse.cles
    BY <1>1, <1>6 DEF PariReserve, GainTenu, Merite
  <1> DEFINE r == [statut |-> "en_cours", qui |-> u, partie |-> d.partie,
                   sur |-> d.sur, montant |-> d.montant]
  <1>8. paris' = [paris EXCEPT ![p] = r] /\ lectures' = [lectures EXCEPT ![u] = Rien]
        /\ UNCHANGED <<matchs, enVol, tache>>
    BY DEF EcrirePari
  <1>9. r.statut = "en_cours" /\ r.qui = u /\ r.partie = d.partie /\ r.montant = d.montant
    OBVIOUS
  <1> HIDE DEF r
  <1>10. /\ paris'[p] = r /\ lectures'[u] = Rien
         /\ \A q \in Paris \ {p} : paris'[q] = paris[q]
         /\ \A v \in Joueurs \ {u} : lectures'[v] = lectures[v]
    BY <1>1, <1>8 DEF LignesTypees
  <1>11. caisse' = IF matchs[d.partie].mise = 0 THEN caisse
                   ELSE BloquerMise(caisse, u, d.montant, k)
    BY DEF EcrirePari
  <1>12. \A l : l # k => (l \in caisse'.cles <=> l \in caisse.cles)
    <2>1. PICK b, c, m : b = caisse /\ c = caisse' /\ m = d.montant
      OBVIOUS
    <2>2. b \in FondsDe(ToutesLesCles)
      BY <2>1 DEF PMInv, PIInv
    <2>3. c = b \/ c = BloquerMise(b, u, m, k)
      BY <1>11, <2>1
    <2>4. c.cles = b.cles \/ c.cles = b.cles \cup {k}
      BY <2>2, <2>3 DEF BloquerMise, FondsDe
    <2> QED BY <2>1, <2>4
  <1> QED BY <1>2, <1>3, <1>4, <1>5, <1>6, <1>7, <1>8, <1>9, <1>10, <1>11, <1>12

\* The row of a new bet shows the task nothing that it would pay.
LEMMA EcrireSain ==
    ASSUME PMInv, NEW u \in Joueurs, NEW p \in Paris, EcrirePari(u, p)
    PROVE  PRInv'
  <1>1. PICK d, k : d = lectures[u] /\ k = CleDuPari(u, d)
    OBVIOUS
  <1>2. /\ d \in Demandes /\ d.partie \in Parties /\ matchs[d.partie].statut # "absent"
        /\ paris[p].statut = "absent" /\ paris[p].qui = Personne
        /\ ClePari("gagne", p) \notin caisse.cles
        /\ paris'[p].statut = "en_cours" /\ paris'[p].qui = u
        /\ paris'[p].partie = d.partie /\ paris'[p].montant = d.montant
        /\ UNCHANGED <<matchs, enVol, tache>>
    BY <1>1, EcrireFaits
  <1>3. /\ \A q \in Paris \ {p} : paris'[q] = paris[q]
        /\ \A l : l # k => (l \in caisse'.cles <=> l \in caisse.cles)
    BY <1>1, EcrireFaits
  <1>4. ClesMatchsFixes
    BY <1>1, <1>3, ClesDistinctes DEF ClesMatchsFixes
  <1>5. \A op \in {"gagne", "perdu"}, q \in Paris :
           ClePari(op, q) \in caisse'.cles <=> ClePari(op, q) \in caisse.cles
    BY <1>1, <1>3, ClesDistinctes
  <1>6. Regles'
    BY <1>2, <1>4, ReglesFixes DEF PMInv
  <1>7. ASSUME NEW q \in Paris PROVE PariReserve(q)'
    <2>1. PariReserve(q)
      BY DEF PMInv, PRInv
    <2>2. ClePari("perdu", q) \in caisse'.cles <=> ClePari("perdu", q) \in caisse.cles
      BY <1>5
    <2>3. CASE q = p
      <3>1. ClePari("perdu", p) \notin caisse'.cles
        BY <1>2, <2>1, <2>2, <2>3 DEF PariReserve
      <3> QED BY <1>2, <2>3, <3>1 DEF PariReserve
    <2>4. CASE q # p
      <3>1. paris'[q] = paris[q] /\ UNCHANGED matchs
        BY <1>2, <1>3, <2>4
      <3> QED BY <2>1, <2>2, <3>1 DEF PariReserve
    <2> QED BY <2>3, <2>4
  <1>8. ASSUME NEW h \in Parties PROVE TacheSaine(h)'
    <2>1. TacheSaine(h) /\ TacheTenue(h) /\ tache[h].reste \in SUBSET Paris
      BY DEF PMInv, PRInv, PIInv, LignesTypees, Taches
    <2>2. UNCHANGED <<matchs, tache>>
      BY <1>2
    <2>3. ASSUME NEW q \in Paris, tache[h].etat = "en_file", paris'[q].partie = h
          PROVE  ClePari("gagne", q) \notin caisse'.cles
      <3>1. CASE q = p
        BY <1>2, <1>5, <3>1
      <3>2. CASE q # p
        BY <1>3, <1>5, <2>1, <2>3, <3>2 DEF TacheSaine
      <3> QED BY <3>1, <3>2
    <2>4. ASSUME NEW q \in tache[h].reste
          PROVE  paris'[q].statut = "en_cours" /\ ClePari("gagne", q) \notin caisse'.cles
      <3>1. q \in Paris /\ paris[q].statut # "absent"
        BY <2>1 DEF TacheTenue
      <3>2. q # p /\ paris'[q] = paris[q]
        BY <1>2, <1>3, <3>1
      <3> QED BY <1>5, <2>1, <3>1, <3>2 DEF TacheSaine
    <2> QED BY <2>1, <2>2, <2>3, <2>4 DEF TacheSaine
  <1>9. ASSUME NEW v \in Joueurs PROVE LectureVue(v)'
    <2>1. LectureVue(v)
      BY DEF PMInv, PRInv
    <2>2. lectures'[v] = lectures[v] \/ lectures'[v] = Rien
      BY <1>1, EcrireFaits
    <2>3. lectures'[v] # Rien => matchs'[lectures'[v].partie].statut # "absent"
      BY <1>2, <2>1, <2>2 DEF LectureVue
    <2>4. ASSUME NEW e \in Demandes, CleDuPari(v, e) \in caisse'.cles
          PROVE  \E q \in Paris : /\ paris'[q].qui = v /\ paris'[q].partie = e.partie
                                  /\ paris'[q].montant = e.montant
      <3>1. CASE CleDuPari(v, e) = k
        <4>1. v = u /\ e.partie = d.partie /\ e.montant = d.montant
          BY <1>1, <3>1 DEF CleDuPari
        <4> QED BY <1>2, <4>1
      <3>2. CASE CleDuPari(v, e) # k
        <4>1. PICK q \in Paris : /\ paris[q].qui = v /\ paris[q].partie = e.partie
                                 /\ paris[q].montant = e.montant
          BY <1>3, <2>1, <2>4, <3>2 DEF LectureVue
        <4>2. q # p
          BY <1>2, <4>1, PersonneHypothese
        <4> QED BY <1>3, <4>1, <4>2
      <3> QED BY <3>1, <3>2
    <2> QED BY <2>3, <2>4 DEF LectureVue
  <1> QED BY <1>6, <1>7, <1>8, <1>9 DEF PRInv

\* The stake of a new bet is blocked once more if every bet is really reserved.
LEMMA EcrireCouvre ==
    ASSUME IsFiniteSet(Parties), IsFiniteSet(Paris), PMInv, PIInv',
           NEW u \in Joueurs, NEW p \in Paris, EcrirePari(u, p), NEW v \in Joueurs
    PROVE  CouvertParis(v)'
  <1>1. PICK d, k, m : d = lectures[u] /\ k = CleDuPari(u, d) /\ m = d.montant
    OBVIOUS
  <1>2. /\ d \in Demandes /\ m \in Nat
        /\ paris[p].statut = "absent" /\ paris[p].qui = Personne
        /\ ClePari("gagne", p) \notin caisse.cles
        /\ paris'[p].statut = "en_cours" /\ paris'[p].qui = u
        /\ paris'[p].partie = d.partie /\ paris'[p].montant = m
        /\ UNCHANGED <<matchs, enVol, tache>>
    BY <1>1, EcrireFaits
  <1>3. /\ \A q \in Paris \ {p} : paris'[q] = paris[q]
        /\ \A l : l # k => (l \in caisse'.cles <=> l \in caisse.cles)
        /\ caisse' = IF matchs[d.partie].mise = 0 THEN caisse
                     ELSE BloquerMise(caisse, u, m, k)
    BY <1>1, EcrireFaits
  <1>4. ClesMatchsFixes
    BY <1>1, <1>3, ClesDistinctes DEF ClesMatchsFixes
  <1>5. \A q \in Paris : ClePari("gagne", q) \in caisse'.cles <=> ClePari("gagne", q) \in caisse.cles
    BY <1>1, <1>3, ClesDistinctes
  <1>6. \A q \in Paris \ {p} : EnjeuPari(q, v)' = EnjeuPari(q, v)
    BY <1>3, <1>5 DEF EnjeuPari
  <1>7. \A q \in Paris : paris[q].qui = v => q # p /\ paris'[q] = paris[q]
    BY <1>2, <1>3, PersonneHypothese
  <1>8. TousReserves(v)' => TousReserves(v)
    <2> SUFFICES ASSUME TousReserves(v)', NEW q \in Paris, paris[q].qui = v
                 PROVE  /\ matchs[paris[q].partie].mise > 0
                        /\ \A s \in Paris \ {q} : paris[s].qui = v =>
                              <<paris[s].partie, paris[s].montant>>
                                 # <<paris[q].partie, paris[q].montant>>
      BY DEF TousReserves
    <2>1. paris'[q] = paris[q] /\ \A s \in Paris : paris[s].qui = v => paris'[s] = paris[s]
      BY <1>7
    <2> QED BY <1>2, <2>1 DEF TousReserves
  <1>9. caisse \in FondsDe(ToutesLesCles) /\ CouvertParis(v) /\ LectureVue(v)
    BY DEF PMInv, PIInv, PRInv
  <1>10. caisse.bloque[v] \in Nat
    BY <1>9, ChampsFonds
  <1>11. EnjeuPari(p, v) = 0
    BY <1>2 DEF EnjeuPari
  <1>12. CASE v # u
    <2>1. EnjeuPari(p, v)' = 0
      BY <1>2, <1>12 DEF EnjeuPari
    <2>2. caisse'.bloque[v] = caisse.bloque[v]
      BY <1>2, <1>3, <1>9, <1>12, BloquerBloque
    <2> QED BY <1>2, <1>4, <1>6, <1>8, <1>9, <1>11, <2>1, <2>2, PariCouvre DEF PMInv
  <1>13. CASE v = u
    <2>1. EnjeuPari(p, v)' = m
      BY <1>2, <1>5, <1>13 DEF EnjeuPari
    <2>2. ASSUME TousReserves(v)' PROVE caisse'.bloque[v] + 0 = caisse.bloque[v] + m
      <3>1. matchs[d.partie].mise > 0
        BY <1>2, <1>13, <2>2 DEF TousReserves
      <3>2. ASSUME k \in caisse.cles PROVE FALSE
        <4>1. PICK q \in Paris : /\ paris[q].qui = u /\ paris[q].partie = d.partie
                                 /\ paris[q].montant = m
          BY <1>1, <1>2, <1>9, <1>13, <3>2 DEF LectureVue
        <4>2. q # p /\ paris'[q] = paris[q]
          BY <1>7, <1>13, <4>1
        <4> QED BY <1>2, <1>13, <2>2, <4>1, <4>2 DEF TousReserves
      <3>3. matchs[d.partie].mise # 0
        BY <3>1
      <3>4. caisse'.bloque[u] = caisse.bloque[u] + m
        BY <1>2, <1>3, <1>9, <3>2, <3>3, BloquerBloque
      <3> QED BY <1>2, <1>10, <1>13, <3>4
    <2> QED BY <1>2, <1>4, <1>6, <1>8, <1>9, <1>11, <2>1, <2>2, PariCouvre DEF PMInv
  <1> QED BY <1>12, <1>13

-----------------------------------------------------------------------------
(* The task resolves a bet p of its list: it takes the stake of the bettor,  *)
(* and writes keys of p only                                                 *)
Resout(g, p) == PariGagne(g, p) \/ PariGagneEchoue(g, p) \/ PariPerdu(g, p)

\* What is on the list of a task is an open bet of its match that was not paid.
LEMMA ResoudreOuvert ==
    ASSUME PMInv, NEW g \in Parties, NEW p \in Paris, Resout(g, p)
    PROVE  /\ p \in tache[g].reste /\ tache[g].etat = "en_cours"
           /\ paris[p].statut = "en_cours" /\ paris[p].partie = g
           /\ paris[p].qui \in Joueurs /\ paris[p].montant \in Nat
           /\ ClePari("gagne", p) \notin caisse.cles
           /\ ClePari("perdu", p) \notin caisse.cles
           /\ UNCHANGED <<matchs, enVol, lectures>>
  <1>1. p \in tache[g].reste /\ UNCHANGED <<matchs, enVol, lectures>>
    BY DEF Resout, PariGagne, PariGagneEchoue, PariPerdu, Resolu
  <1>2. TacheTenue(g) /\ TacheSaine(g) /\ PariTenu(p) /\ PariReserve(p)
    BY DEF PMInv, PIInv, PRInv
  <1>3. /\ tache[g].etat = "en_cours" /\ paris[p].statut = "en_cours" /\ paris[p].partie = g
        /\ ClePari("gagne", p) \notin caisse.cles
    BY <1>1, <1>2 DEF TacheSaine, TacheTenue
  <1>4. paris[p].qui \in Joueurs /\ paris[p].montant \in Montants
    BY <1>2, <1>3 DEF PariTenu
  <1>5. paris[p].montant \in Nat
    BY <1>4, MontantsHypothese
  <1>6. ClePari("perdu", p) \notin caisse.cles
    BY <1>2, <1>3 DEF PariReserve
  <1> QED BY <1>1, <1>3, <1>4, <1>5, <1>6

LEMMA ResoudreBanque ==
    ASSUME PMInv, NEW g \in Parties, NEW p \in Paris, Resout(g, p),
           NEW w, w = paris[p].qui, NEW m, m = paris[p].montant
    PROVE  /\ \A l : l \notin {ClePari("gagne", p), ClePari("gagne:commission", p),
                               ClePari("perdu", p)} =>
                        (l \in caisse'.cles <=> l \in caisse.cles)
           /\ PariPerdu(g, p) \/ ClePari("perdu", p) \notin caisse'.cles
           /\ PariGagneEchoue(g, p) => ClePari("gagne", p) \in caisse'.cles
           /\ \A v \in Joueurs \ {w} : caisse'.bloque[v] = caisse.bloque[v]
           /\ m <= caisse.bloque[w] => caisse'.bloque[w] = caisse.bloque[w] - m
  <1>1. PICK b, c, k, kc, kp, co, brut :
          /\ b = caisse /\ c = caisse' /\ k = ClePari("gagne", p)
          /\ kc = ClePari("gagne:commission", p) /\ kp = ClePari("perdu", p)
          /\ co = CommissionPour(m) /\ brut = 2 * m
    OBVIOUS
  <1>2. /\ w \in Joueurs /\ m \in Nat /\ paris[p].statut = "en_cours"
        /\ k \notin b.cles /\ kp \notin b.cles
    BY <1>1, ResoudreOuvert
  <1>3. b \in FondsDe(ToutesLesCles) /\ co \in Nat /\ brut \in Nat
    BY <1>1, <1>2, CommissionType DEF PMInv, PIInv
  <1>4. kp # k /\ kp # kc
    BY <1>1, ClesDistinctes
  <1>5. CASE PariPerdu(g, p)
    <2>1. c = ConsommerMise(b, w, m, kp)
      BY <1>1, <1>5 DEF PariPerdu
    <2>2. Augmente(ToutesLesCles, b, c, {kp})
      BY <1>1, <1>2, <1>5, <2>1, GagnerFonds DEF PMInv
    <2>3. Debloque(b, c, w, m, kp)
      BY <1>2, <1>3, <2>1, ConsommerDebloque
    <2>4. /\ \A v \in Joueurs \ {w} : c.bloque[v] = b.bloque[v]
          /\ m <= b.bloque[w] => c.bloque[w] = b.bloque[w] - m
      BY <1>2, <2>3 DEF Debloque
    <2>5. \A l : l \notin {k, kc, kp} => (l \in c.cles <=> l \in b.cles)
      BY <2>2 DEF Augmente
    <2>6. ~ PariGagneEchoue(g, p)
      BY <1>5 DEF PariPerdu, PariGagneEchoue
    <2> QED BY <1>1, <1>5, <2>4, <2>5, <2>6
  <1>6. CASE PariGagne(g, p) \/ PariGagneEchoue(g, p)
    <2>1. PICK a : a = Gagner(p)
      OBVIOUS
    <2>2. a = PayerGain(b, w, m, brut, co, k, kc)
      BY <1>1, <2>1 DEF Gagner
    <2>3. Debloque(b, a, w, m, k)
      BY <1>2, <1>3, <2>2, PayerDebloque
    <2>4. /\ Augmente(ToutesLesCles, b, a, {k, kc})
          /\ Augmente(ToutesLesCles, b, CrediterPlateforme(a, co), {k, kc})
      BY <1>1, <1>2, <2>1, GagnerFonds DEF PMInv
    <2>5. c = a \/ c = CrediterPlateforme(a, co)
      BY <1>1, <1>6, <2>1 DEF PariGagne, PariGagneEchoue
    <2>6. c.bloque = a.bloque /\ c.cles = a.cles
      <3>1. a \in FondsDe(ToutesLesCles)
        BY <2>4 DEF Augmente
      <3> QED BY <2>5, <3>1 DEF CrediterPlateforme, FondsDe
    <2>7. /\ \A v \in Joueurs \ {w} : c.bloque[v] = b.bloque[v]
          /\ m <= b.bloque[w] => c.bloque[w] = b.bloque[w] - m
          /\ k \in c.cles
      BY <1>2, <2>3, <2>6 DEF Debloque
    <2>8. \A l : l \notin {k, kc} => (l \in c.cles <=> l \in b.cles)
      BY <2>4, <2>5 DEF Augmente
    <2>9. kp \notin c.cles
      BY <1>2, <1>4, <2>8
    <2> QED BY <1>1, <2>7, <2>8, <2>9
  <1> QED BY <1>5, <1>6 DEF Resout

LEMMA ResoudreLignes ==
    ASSUME PMInv, NEW g \in Parties, NEW p \in Paris, Resout(g, p)
    PROVE  /\ \A q \in Paris \ {p} : paris'[q] = paris[q]
           /\ paris'[p].qui = paris[p].qui /\ paris'[p].partie = paris[p].partie
           /\ paris'[p].montant = paris[p].montant /\ paris'[p].statut # "absent"
           /\ PariPerdu(g, p) => paris'[p].statut = "perdu"
           /\ PariGagneEchoue(g, p) \/ paris'[p].statut # "en_cours"
           /\ \A h \in Parties \ {g} : tache'[h] = tache[h]
           /\ tache'[g].etat # "en_file"
           /\ tache'[g].etat = "en_cours" \/ tache'[g].reste = {}
           /\ tache'[g].reste \subseteq tache[g].reste \ {p}
  <1>1. /\ paris \in [Paris -> LignesPari] /\ tache \in [Parties -> Taches]
        /\ tache[g].etat = "en_cours" /\ paris[p].statut = "en_cours"
    BY ResoudreOuvert DEF PMInv, PIInv, LignesTypees
  <1>2. CASE PariGagneEchoue(g, p)
    <2>1. paris' = paris /\ tache' = [tache EXCEPT ![g] = SansTache]
      BY <1>2 DEF PariGagneEchoue
    <2>2. SansTache.reste = {} /\ SansTache.etat = "aucune"
      BY DEF SansTache
    <2>3. tache'[g] = SansTache /\ \A h \in Parties \ {g} : tache'[h] = tache[h]
      BY <1>1, <2>1
    <2>4. ~ PariPerdu(g, p)
      BY <1>2 DEF PariPerdu, PariGagneEchoue
    <2> QED BY <1>1, <1>2, <2>1, <2>2, <2>3, <2>4
  <1>3. CASE PariGagne(g, p) \/ PariPerdu(g, p)
    <2>1. PICK s : /\ s \in {"gagne", "perdu"} /\ Resolu(g, p, s)
                   /\ PariPerdu(g, p) => s = "perdu"
      <3>1. CASE PariPerdu(g, p)
        BY <3>1 DEF PariPerdu
      <3>2. CASE ~ PariPerdu(g, p)
        BY <1>3, <3>2 DEF PariGagne
      <3> QED BY <3>1, <3>2
    <2>2. /\ paris'[p].qui = paris[p].qui /\ paris'[p].partie = paris[p].partie
          /\ paris'[p].montant = paris[p].montant /\ paris'[p].statut = s
          /\ \A q \in Paris \ {p} : paris'[q] = paris[q]
      BY <1>1, <2>1 DEF Resolu, LignesPari
    <2>3. /\ tache'[g].reste = tache[g].reste \ {p} /\ tache'[g].etat = tache[g].etat
          /\ \A h \in Parties \ {g} : tache'[h] = tache[h]
      BY <1>1, <2>1 DEF Resolu, Taches
    <2> QED BY <1>1, <2>1, <2>2, <2>3
  <1> QED BY <1>2, <1>3 DEF Resout

LEMMA ResoudreSain ==
    ASSUME PMInv, NEW g \in Parties, NEW p \in Paris, Resout(g, p)
    PROVE  PRInv'
  <1>1. PICK w, m : w = paris[p].qui /\ m = paris[p].montant
    OBVIOUS
  <1>2. /\ p \in tache[g].reste /\ tache[g].etat = "en_cours"
        /\ paris[p].statut = "en_cours" /\ paris[p].partie = g
        /\ UNCHANGED <<matchs, enVol, lectures>>
    BY ResoudreOuvert
  <1>3. /\ \A l : l \notin {ClePari("gagne", p), ClePari("gagne:commission", p),
                            ClePari("perdu", p)} =>
                     (l \in caisse'.cles <=> l \in caisse.cles)
        /\ PariPerdu(g, p) \/ ClePari("perdu", p) \notin caisse'.cles
    BY <1>1, ResoudreBanque
  <1>4. /\ \A q \in Paris \ {p} : paris'[q] = paris[q]
        /\ paris'[p].qui = paris[p].qui /\ paris'[p].partie = paris[p].partie
        /\ paris'[p].montant = paris[p].montant /\ paris'[p].statut # "absent"
        /\ PariPerdu(g, p) => paris'[p].statut = "perdu"
    BY ResoudreLignes
  <1>5. /\ \A h \in Parties \ {g} : tache'[h] = tache[h]
        /\ tache'[g].etat # "en_file"
        /\ tache'[g].etat = "en_cours" \/ tache'[g].reste = {}
        /\ tache'[g].reste \subseteq tache[g].reste \ {p}
    BY ResoudreLignes
  <1>6. ClesMatchsFixes
    BY <1>3, ClesDistinctes DEF ClesMatchsFixes
  <1>7. /\ \A op \in {"gagne", "perdu"}, q \in Paris \ {p} :
              ClePari(op, q) \in caisse'.cles <=> ClePari(op, q) \in caisse.cles
        /\ \A v \in Joueurs, e \in Demandes :
              CleDuPari(v, e) \in caisse'.cles <=> CleDuPari(v, e) \in caisse.cles
    BY <1>3, ClesDistinctes
  <1>8. Regles'
    BY <1>2, <1>6, ReglesFixes DEF PMInv
  <1>9. ASSUME NEW q \in Paris PROVE PariReserve(q)'
    <2>1. PariReserve(q)
      BY DEF PMInv, PRInv
    <2>2. CASE q = p
      <3>1. ClePari("perdu", p) \in caisse'.cles => paris'[p].statut = "perdu"
        BY <1>3, <1>4
      <3> QED BY <1>2, <1>4, <2>1, <2>2, <3>1 DEF PariReserve
    <2>3. CASE q # p
      <3>1. paris'[q] = paris[q] /\ UNCHANGED matchs
        BY <1>2, <1>4, <2>3
      <3>2. ClePari("perdu", q) \in caisse'.cles <=> ClePari("perdu", q) \in caisse.cles
        BY <1>7, <2>3
      <3> QED BY <2>1, <3>1, <3>2 DEF PariReserve
    <2> QED BY <2>2, <2>3
  <1>10. ASSUME NEW h \in Parties PROVE TacheSaine(h)'
    <2>1. TacheSaine(h) /\ TacheTenue(h) /\ tache[h].reste \in SUBSET Paris
      BY DEF PMInv, PRInv, PIInv, LignesTypees, Taches
    <2>2. CASE h = g
      <3>1. ASSUME NEW q \in tache'[g].reste
            PROVE  paris'[q].statut = "en_cours" /\ ClePari("gagne", q) \notin caisse'.cles
        <4>1. q \in tache[g].reste /\ q # p /\ q \in Paris
          BY <1>5, <2>1, <2>2
        <4>2. paris'[q] = paris[q]
          BY <1>4, <4>1
        <4>3. ClePari("gagne", q) \in caisse'.cles <=> ClePari("gagne", q) \in caisse.cles
          BY <1>7, <4>1
        <4> QED BY <2>1, <2>2, <4>1, <4>2, <4>3 DEF TacheSaine
      <3>2. g \notin Courses /\ matchs'[g].statut = "termine"
        BY <1>2, <2>1, <2>2 DEF TacheSaine
      <3> QED BY <1>5, <2>2, <3>1, <3>2 DEF TacheSaine
    <2>3. CASE h # g
      <3>1. tache'[h] = tache[h] /\ UNCHANGED matchs
        BY <1>2, <1>5, <2>3
      <3>2. ASSUME NEW q \in Paris, tache[h].etat = "en_file", paris'[q].partie = h
            PROVE  ClePari("gagne", q) \notin caisse'.cles
        <4>1. q # p
          BY <1>2, <1>4, <2>3, <3>2
        <4> QED BY <1>4, <1>7, <2>1, <3>2, <4>1 DEF TacheSaine
      <3>3. ASSUME NEW q \in tache[h].reste
            PROVE  paris'[q].statut = "en_cours" /\ ClePari("gagne", q) \notin caisse'.cles
        <4>1. q \in Paris /\ q # p
          BY <1>2, <2>1, <2>3 DEF TacheTenue
        <4> QED BY <1>4, <1>7, <2>1, <4>1 DEF TacheSaine
      <3> QED BY <2>1, <3>1, <3>2, <3>3 DEF TacheSaine
    <2> QED BY <2>2, <2>3
  <1>11. ASSUME NEW v \in Joueurs PROVE LectureVue(v)'
    <2>1. LectureVue(v)
      BY DEF PMInv, PRInv
    <2>2. lectures'[v] # Rien => matchs'[lectures'[v].partie].statut # "absent"
      BY <1>2, <2>1 DEF LectureVue
    <2>3. ASSUME NEW e \in Demandes, CleDuPari(v, e) \in caisse'.cles
          PROVE  \E q \in Paris : /\ paris'[q].qui = v /\ paris'[q].partie = e.partie
                                  /\ paris'[q].montant = e.montant
      <3>1. PICK q \in Paris : /\ paris[q].qui = v /\ paris[q].partie = e.partie
                               /\ paris[q].montant = e.montant
        BY <1>7, <2>1, <2>3 DEF LectureVue
      <3>2. paris'[q].qui = v /\ paris'[q].partie = e.partie /\ paris'[q].montant = e.montant
        BY <1>4, <3>1
      <3> QED BY <3>2
    <2> QED BY <2>2, <2>3 DEF LectureVue
  <1> QED BY <1>8, <1>9, <1>10, <1>11 DEF PRInv

\* What the resolution takes is what was blocked for this bet.
LEMMA ResoudreCouvre ==
    ASSUME IsFiniteSet(Parties), IsFiniteSet(Paris), PMInv, PIInv',
           NEW g \in Parties, NEW p \in Paris, Resout(g, p), NEW v \in Joueurs
    PROVE  CouvertParis(v)'
  <1>1. PICK w, m : w = paris[p].qui /\ m = paris[p].montant
    OBVIOUS
  <1>2. /\ paris[p].statut = "en_cours" /\ w \in Joueurs /\ m \in Nat
        /\ ClePari("gagne", p) \notin caisse.cles
        /\ UNCHANGED <<matchs, enVol, lectures>>
    BY <1>1, ResoudreOuvert
  <1>3. /\ \A l : l \notin {ClePari("gagne", p), ClePari("gagne:commission", p),
                            ClePari("perdu", p)} =>
                     (l \in caisse'.cles <=> l \in caisse.cles)
        /\ PariGagneEchoue(g, p) => ClePari("gagne", p) \in caisse'.cles
        /\ \A s \in Joueurs \ {w} : caisse'.bloque[s] = caisse.bloque[s]
        /\ m <= caisse.bloque[w] => caisse'.bloque[w] = caisse.bloque[w] - m
    BY <1>1, ResoudreBanque
  <1>4. /\ \A q \in Paris \ {p} : paris'[q] = paris[q]
        /\ paris'[p].qui = w /\ paris'[p].partie = paris[p].partie
        /\ paris'[p].montant = m
        /\ PariGagneEchoue(g, p) \/ paris'[p].statut # "en_cours"
    BY <1>1, ResoudreLignes
  <1>5. ClesMatchsFixes
    BY <1>3, ClesDistinctes DEF ClesMatchsFixes
  <1>6. \A q \in Paris \ {p} : EnjeuPari(q, v)' = EnjeuPari(q, v)
    <2>1. \A q \in Paris \ {p} :
             ClePari("gagne", q) \in caisse'.cles <=> ClePari("gagne", q) \in caisse.cles
      BY <1>3, ClesDistinctes
    <2> QED BY <1>4, <2>1 DEF EnjeuPari
  <1>7. TousReserves(v)' => TousReserves(v)
    <2>1. \A q \in Paris : /\ paris'[q].qui = paris[q].qui
                           /\ paris'[q].partie = paris[q].partie
                           /\ paris'[q].montant = paris[q].montant
      BY <1>1, <1>4
    <2> QED BY <1>2, <2>1 DEF TousReserves
  <1>8. EnjeuPari(p, v)' = 0
    BY <1>3, <1>4 DEF EnjeuPari
  <1>9. caisse.bloque[v] \in Nat /\ caisse'.bloque[v] \in Nat /\ CouvertParis(v)
    BY ChampsFonds DEF PMInv, PIInv
  <1>10. CASE v # w
    <2>1. EnjeuPari(p, v) = 0
      BY <1>1, <1>10 DEF EnjeuPari
    <2>2. caisse'.bloque[v] = caisse.bloque[v]
      BY <1>3, <1>10
    <2> QED BY <1>2, <1>5, <1>6, <1>7, <1>8, <1>9, <2>1, <2>2, PariCouvre DEF PMInv
  <1>11. CASE v = w
    <2>1. EnjeuPari(p, v) = m
      BY <1>1, <1>2, <1>11 DEF EnjeuPari
    <2>2. m <= caisse.bloque[v] => caisse'.bloque[v] = caisse.bloque[v] - m
      BY <1>3, <1>11
    <2>3. m <= caisse.bloque[v] => caisse'.bloque[v] + m = caisse.bloque[v] + 0
      BY <1>2, <1>9, <2>2
    <2> QED BY <1>2, <1>5, <1>6, <1>7, <1>8, <1>9, <2>1, <2>3, PariCouvre DEF PMInv
  <1> QED BY <1>10, <1>11

-----------------------------------------------------------------------------
(* The steps of the matches *)

\* A step of a match writes no key of a bet, and keeps everything covered.
LEMMA PasDeMatch ==
    ASSUME IsFiniteSet(Parties), IsFiniteSet(Paris), PMInv, PIInv', MatchesNext, UNCHANGED paris
    PROVE  /\ Regles' /\ FinTient /\ MatchsRestent /\ ClesParisFixes
           /\ \A u \in Joueurs : CouvertParis(u)'
  <1>1. Tient(ToutesLesCles) /\ Rangs /\ Regles
    BY DEF PMInv, PIInv, PRInv, Tient, ToutesLesCles
  <1>2. FinTient /\ Augmente(ToutesLesCles, caisse, caisse', Cles)
    BY <1>1, MatchesPas
  <1>3. PICK g \in Parties : Etape(g)
    BY <1>1, PasEtape
  <1>4. Regles'
    BY <1>1, <1>3, ReglesTiennent
  <1>5. MatchsRestent
    BY <1>3 DEF MatchsRestent, Etape, Ailleurs
  <1>6. ClesParisFixes
    BY <1>2, ClesDistinctes DEF ClesParisFixes, Augmente
  <1>7. \A u \in Joueurs : CouvertParis(u)'
    BY <1>3, <1>5, <1>6, MatchCouvreParis DEF PMInv
  <1> QED BY <1>2, <1>4, <1>5, <1>6, <1>7

LEMMA HorsVictoireSain ==
    ASSUME IsFiniteSet(Parties), IsFiniteSet(Paris), PMInv, PIInv',
           HorsVictoire, UNCHANGED varsParis
    PROVE  PRInv' /\ \A u \in Joueurs : CouvertParis(u)'
  <1>1. UNCHANGED <<paris, lectures, tache>> /\ MatchesNext
    BY DEF varsParis, MatchesNext
  <1>2. /\ Regles' /\ FinTient /\ MatchsRestent /\ ClesParisFixes
        /\ \A u \in Joueurs : CouvertParis(u)'
    BY <1>1, PasDeMatch
  <1>3. /\ \A p \in Paris : PariReserve(p)'
        /\ \A u \in Joueurs : LectureVue(u)'
    BY <1>1, <1>2, ParisReservent, LecturesRestent DEF PMInv
  <1>4. \A h \in Parties : TacheSaine(h)'
    BY <1>1, <1>2, TacheSaineReste DEF PMInv, PRInv
  <1> QED BY <1>2, <1>3, <1>4 DEF PRInv

\* A victory sends the task while no bet on the match can have been paid.
LEMMA VictoireSaine ==
    ASSUME IsFiniteSet(Parties), IsFiniteSet(Paris), PMInv, PIInv',
           NEW g \in Parties, NEW w \in Joueurs, NEW avant \in BOOLEAN,
           CloturerEtEnvoyer(g, w, avant)
    PROVE  PRInv' /\ \A u \in Joueurs : CouvertParis(u)'
  <1>1. UNCHANGED <<paris, lectures>> /\ Cloturer(g, w)
    BY DEF CloturerEtEnvoyer
  <1>2. MatchesNext
    BY <1>1 DEF MatchesNext
  <1>3. /\ Regles' /\ FinTient /\ MatchsRestent /\ ClesParisFixes
        /\ \A u \in Joueurs : CouvertParis(u)'
    BY <1>1, <1>2, PasDeMatch
  <1>4. /\ \A p \in Paris : PariReserve(p)'
        /\ \A u \in Joueurs : LectureVue(u)'
    BY <1>1, <1>3, ParisReservent, LecturesRestent DEF PMInv
  <1>5. matchs[g].statut = "en_cours"
    BY <1>1 DEF Cloturer, Cloturable
  <1>6. g \notin Courses /\ matchs'[g].statut = "termine"
    BY <1>1, CloturerPas DEF PMInv, PIInv
  <1>7. TacheSaine(g) /\ tache \in [Parties -> Taches]
    BY DEF PMInv, PRInv, PIInv, LignesTypees
  <1>8. tache[g].etat = "aucune" /\ tache[g].reste = {}
    BY <1>5, <1>7 DEF TacheSaine
  <1>9. PICK v : tache' = [tache EXCEPT ![g].etat = "en_file", ![g].vu = v]
    BY DEF CloturerEtEnvoyer
  <1>10. /\ tache'[g].etat = "en_file" /\ tache'[g].reste = {}
         /\ \A h \in Parties \ {g} : tache'[h] = tache[h]
    BY <1>7, <1>8, <1>9 DEF Taches
  <1>11. ASSUME NEW p \in Paris, paris'[p].partie = g
         PROVE  ClePari("gagne", p) \notin caisse'.cles
    <2>1. GainTenu(p)
      BY DEF PMInv, PIInv
    <2>2. ~ Merite(p)
      BY <1>1, <1>5, <1>11 DEF Merite
    <2>3. ClePari("gagne", p) \in caisse'.cles <=> ClePari("gagne", p) \in caisse.cles
      BY <1>3 DEF ClesParisFixes
    <2> QED BY <2>1, <2>2, <2>3 DEF GainTenu
  <1>12. TacheSaine(g)'
    BY <1>6, <1>10, <1>11 DEF TacheSaine
  <1>13. ASSUME NEW h \in Parties \ {g} PROVE TacheSaine(h)'
    <2>1. tache'[h] = tache[h] /\ TacheSaine(h)
      BY <1>10 DEF PMInv, PRInv
    <2> QED BY <1>1, <1>3, <2>1, TacheSaineReste DEF PMInv
  <1> QED BY <1>3, <1>4, <1>12, <1>13 DEF PRInv

-----------------------------------------------------------------------------
LEMMA PMInvDebut ==
    ASSUME IsFiniteSet(Parties), IsFiniteSet(Paris), PInit
    PROVE  PMInv
  <1>1. PIInv /\ MInv
    BY ParisInitiaux, MInvDebut DEF PInit
  <1>2. caisse.cles = {} /\ \A u \in Joueurs : caisse.bloque[u] = 0
    BY DEF PInit, MatchesInit
  <1>3. /\ \A p \in Paris : paris[p].statut = "absent" /\ paris[p].qui = Personne
        /\ \A u \in Joueurs : lectures[u] = Rien
        /\ \A g \in Parties : tache[g].etat = "aucune" /\ tache[g].reste = {}
    BY DEF PInit, PariAbsent, SansTache
  <1>4. PRInv
    <2>1. \A p \in Paris : PariReserve(p)
      BY <1>2, <1>3 DEF PariReserve
    <2>2. \A g \in Parties : TacheSaine(g)
      BY <1>3 DEF TacheSaine
    <2>3. \A u \in Joueurs : LectureVue(u)
      BY <1>2, <1>3 DEF LectureVue
    <2> QED BY <1>1, <2>1, <2>2, <2>3 DEF PRInv, MInv
  <1>5. ASSUME NEW u \in Joueurs PROVE CouvertParis(u)
    <2>1. PICK F : F = EnjeuxParis(u)
      OBVIOUS
    <2>2. F \in [Paris -> Int] /\ \A p \in Paris : F[p] = 0
      BY <1>1, <1>3, <2>1, EnjeuxType DEF EnjeuxParis, EnjeuPari
    <2>3. Somme(F, Paris) = Cardinality(Paris) * 0
      BY <2>2, SommeConstante
    <2>4. Cardinality(Paris) \in Nat
      BY FS_CardinalityType
    <2>5. Somme(F, Paris) = 0
      BY <2>3, <2>4
    <2> QED BY <1>1, <2>1, <2>5 DEF CouvertParis, MInv
  <1> QED BY <1>1, <1>4, <1>5 DEF PMInv

LEMMA PMInvPas ==
    ASSUME IsFiniteSet(Parties), IsFiniteSet(Paris), PMInv, [PNext]_varsTout
    PROVE  PMInv'
  <1>1. PIInv'
    BY ParisInvariant DEF PMInv
  <1> SUFFICES PRInv' /\ \A u \in Joueurs : CouvertParis(u)'
    BY <1>1 DEF PMInv
  <1>2. CASE HorsVictoire /\ UNCHANGED varsParis
    BY <1>1, <1>2, HorsVictoireSain
  <1>3. ASSUME NEW g \in Parties, NEW w \in Joueurs, NEW avant \in BOOLEAN,
               CloturerEtEnvoyer(g, w, avant)
        PROVE  PRInv' /\ \A u \in Joueurs : CouvertParis(u)'
    BY <1>1, <1>3, VictoireSaine
  <1>4. ASSUME NEW g \in Parties, FranchirTiers(g)
        PROVE  PRInv' /\ \A u \in Joueurs : CouvertParis(u)'
    BY <1>4, LectureSaine
  <1>5. ASSUME NEW g \in Parties, Tache(g)
        PROVE  PRInv' /\ \A u \in Joueurs : CouvertParis(u)'
    <2>1. CASE TacheListe(g) \/ TacheFinit(g)
      BY <2>1, TacheListeSaine
    <2>2. CASE \E p \in Paris : Resout(g, p)
      BY <1>1, <2>2, ResoudreSain, ResoudreCouvre
    <2> QED BY <1>5, <2>1, <2>2 DEF Tache, Resout
  <1>6. ASSUME NEW u \in Parieurs, NEW g \in Parties, NEW v \in Joueurs, NEW m \in Montants,
               LirePari(u, g, v, m)
        PROVE  PRInv' /\ \A s \in Joueurs : CouvertParis(s)'
    BY <1>6, ParieursHypothese, LectureSaine
  <1>7. ASSUME NEW u \in Parieurs, NEW p \in Paris, EcrirePari(u, p)
        PROVE  PRInv' /\ \A s \in Joueurs : CouvertParis(s)'
    BY <1>1, <1>7, ParieursHypothese, EcrireSain, EcrireCouvre
  <1>8. ASSUME NEW u \in Parieurs, EcrirePariEchoue(u)
        PROVE  PRInv' /\ \A s \in Joueurs : CouvertParis(s)'
    BY <1>8, ParieursHypothese, LectureSaine
  <1>9. CASE UNCHANGED varsTout
    <2>1. UNCHANGED <<matchs, enVol, caisse, tiers, paris, lectures, tache>>
      BY <1>9 DEF varsTout, matchVars, varsParis
    <2>2. /\ Regles' /\ \A p \in Paris : PariReserve(p)'
          /\ \A u \in Joueurs : CouvertParis(u)'
          /\ MatchsRestent /\ ClesParisFixes /\ FinTient
      BY <2>1, PariFixe DEF PMInv
    <2>3. /\ \A u \in Joueurs : LectureVue(u)'
          /\ \A h \in Parties : TacheSaine(h)'
      BY <2>1, <2>2, LecturesRestent, TacheSaineReste DEF PMInv, PRInv
    <2> QED BY <2>2, <2>3 DEF PRInv
  <1> QED BY <1>2, <1>3, <1>4, <1>5, <1>6, <1>7, <1>8, <1>9 DEF PNext

-----------------------------------------------------------------------------
EstEnJeu(h, u) ==
    h = [s \in SUBSET Paris |->
           IF s = {} THEN 0 ELSE EnjeuPari(Elu(s), u) + h[s \ {Elu(s)}]]

LEMMA EnJeuSomme ==
    ASSUME IsFiniteSet(Paris), NEW u
    PROVE  EnJeu(u) = Somme(EnjeuxParis(u), Paris)
  <1>1. ASSUME NEW h PROVE EstEnJeu(h, u) <=> EstSomme(h, EnjeuxParis(u), Paris)
    <2>1. \A s \in SUBSET Paris : s # {} => EnjeuxParis(u)[Elu(s)] = EnjeuPari(Elu(s), u)
      BY EluDedans DEF EnjeuxParis
    <2> QED BY <2>1 DEF EstEnJeu, EstSomme
  <1>2. PICK h, k : /\ h = CHOOSE z : EstEnJeu(z, u)
                    /\ k = CHOOSE z : EstSomme(z, EnjeuxParis(u), Paris)
    OBVIOUS
  <1>3. EstSomme(h, EnjeuxParis(u), Paris) /\ EstSomme(k, EnjeuxParis(u), Paris)
    <2>1. \E z : EstSomme(z, EnjeuxParis(u), Paris)
      BY SommeExiste
    <2>2. EstEnJeu(h, u)
      BY <1>1, <1>2, <2>1
    <2> QED BY <1>1, <1>2, <2>1, <2>2
  <1>4. h[Paris] = k[Paris]
    BY <1>3, SommeUnique
  <1>5. EnJeu(u) = h[Paris]
    BY <1>2 DEF EnJeu, MapThenSumSet, MapThenFoldSet, EstEnJeu, Elu
  <1>6. Somme(EnjeuxParis(u), Paris) = k[Paris]
    BY <1>2 DEF Somme
  <1> QED BY <1>4, <1>5, <1>6

LEMMA PMInvExact ==
    ASSUME IsFiniteSet(Parties), IsFiniteSet(Paris), PMInv
    PROVE  MisesEtParisExacts
  <1> SUFFICES ASSUME NEW u \in Joueurs, ~ RenduParCourse(u), TousReserves(u)
               PROVE  /\ caisse.bloque[u] >= Engage(u) + EnJeu(u)
                      /\ (\A g \in Courses : CleDe("reserve", g, u) \notin caisse.cles)
                            => caisse.bloque[u] = Engage(u) + EnJeu(u)
    BY DEF MisesEtParisExacts
  <1>1. PICK F, G, x, b : /\ F = Engages(u) /\ G = Retenues(u)
                          /\ x = Somme(EnjeuxParis(u), Paris) /\ b = caisse.bloque[u]
    OBVIOUS
  <1>2. Engage(u) = Somme(F, Parties) /\ EnJeu(u) = x
    BY <1>1, EngageSomme, EnJeuSomme
  <1>3. SansRendu(u)
    BY DEF RenduParCourse, SansRendu, RenduIci, EstLapin
  <1>4. /\ b >= Somme(G, Parties) + x
        /\ SansCourse(u) => b = Somme(G, Parties) + x
    BY <1>1, <1>3 DEF PMInv, CouvertParis, Couvert
  <1>5. Rangs /\ Regles
    BY DEF PMInv, PIInv, PRInv
  <1>6. /\ \A g \in Parties : F[g] \in Int /\ F[g] <= G[g]
        /\ \A g \in Parties : HorsCourse(g, caisse.cles, u) => F[g] = G[g]
    BY <1>1, <1>5, EngagementRetenu DEF Engages, Retenues
  <1>7. F \in [Parties -> Int] /\ G \in [Parties -> Int]
    BY <1>1, <1>5, <1>6, RetenuesType DEF Engages
  <1>8. Somme(F, Parties) \in Int /\ Somme(G, Parties) \in Int
        /\ Somme(F, Parties) <= Somme(G, Parties)
    BY <1>6, <1>7, SommeOrdre
  <1>9. x \in Nat /\ b \in Nat
    BY <1>1, EnjeuxType, SommeNaturelle, ChampsFonds DEF PMInv, PIInv
  <1>10. ASSUME \A g \in Courses : CleDe("reserve", g, u) \notin caisse.cles
         PROVE  b = Somme(F, Parties) + x
    <2>1. \A g \in Parties : HorsCourse(g, caisse.cles, u)
      BY <1>10 DEF HorsCourse
    <2>2. F = G
      BY <1>1, <1>6, <2>1 DEF Engages, Retenues
    <2> QED BY <1>4, <2>1, <2>2 DEF SansCourse
  <1>11. b >= Somme(F, Parties) + x
    <2>1. PICK sf, sg : sf = Somme(F, Parties) /\ sg = Somme(G, Parties)
      OBVIOUS
    <2>2. sf \in Int /\ sg \in Int /\ sf <= sg /\ b >= sg + x
      BY <1>4, <1>8, <2>1
    <2>3. b >= sf + x
      BY <1>9, <2>2
    <2> QED BY <2>1, <2>3
  <1> QED BY <1>1, <1>2, <1>10, <1>11

\* The inductive invariant of the stakes of matches and bets together.
THEOREM MisesEtParisTenues ==
    ASSUME IsFiniteSet(Parties), IsFiniteSet(Paris)
    PROVE  PSpec => []PMInv
  <1>1. PInit => PMInv
    BY PMInvDebut
  <1>2. PMInv /\ [PNext]_varsTout => PMInv'
    BY PMInvPas
  <1> QED BY <1>1, <1>2, PTL DEF PSpec

\* A wallet keeps blocked what its owner has staked on matches and bet on others,
\* and exactly that without a race: placer_pari that writes on an old reading, the
\* task that lists, resolves or fails on the way, and every step of the
\* matches meanwhile never take one stake for the other.
THEOREM MisesEtParisToujoursExacts ==
    ASSUME IsFiniteSet(Parties), IsFiniteSet(Paris)
    PROVE  PSpec => []MisesEtParisExacts
  <1>1. PMInv => MisesEtParisExacts
    BY PMInvExact
  <1> QED BY <1>1, MisesEtParisTenues, PTL
=============================================================================
