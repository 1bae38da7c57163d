-------------------------- MODULE Portefeuille_proofs --------------------------
(***************************************************************************)
(* What the wallet services do to a bank, for any set of players and games *)
(* and any amounts.  The lemmas named ...Effet give every field of the     *)
(* result of a service whose key is new; with a known key a service        *)
(* changes nothing, by its definition.  Those named ...Fonds ask less of   *)
(* the ledger, which may hold other keys as well; the last ones are about  *)
(* the sum of what all players own.                                        *)
(***************************************************************************)
EXTENDS Portefeuille, Sommes_proofs

LEMMA CleType ==
    ASSUME NEW op \in Operations, NEW g \in Parties,
           NEW u \in Joueurs \cup {Personne}
    PROVE  CleDe(op, g, u) \in Cles
  BY DEF CleDe, Cles

LEMMA MoindreType ==
    ASSUME NEW x \in Nat, NEW y \in Nat
    PROVE  /\ Moindre(x, y) \in Nat
           /\ Moindre(x, y) <= x
           /\ Moindre(x, y) <= y
  BY DEF Moindre

LEMMA CommissionType ==
    ASSUME NEW m \in Nat
    PROVE  CommissionPour(m) \in Nat /\ CommissionPour(m) <= m
  BY DEF CommissionPour

LEMMA Champs ==
    ASSUME NEW b \in Banques
    PROVE  /\ b.dispo \in [Joueurs -> Nat]
           /\ b.bloque \in [Joueurs -> Nat]
           /\ b.gains \in [Joueurs -> Nat]
           /\ b.capital \in Nat
           /\ b.cles \in SUBSET Cles
  BY DEF Banques

-----------------------------------------------------------------------------
LEMMA BloquerEffet ==
    ASSUME NEW b \in Banques, NEW u \in Joueurs, NEW m \in Nat, NEW k \in Cles,
           k \notin b.cles, m <= b.dispo[u]
    PROVE  LET r == BloquerMise(b, u, m, k)
           IN  /\ r \in Banques
               /\ \A v \in Joueurs :
                     /\ r.dispo[v] = IF v = u THEN b.dispo[u] - m ELSE b.dispo[v]
                     /\ r.bloque[v] = IF v = u THEN b.bloque[u] + m ELSE b.bloque[v]
               /\ r.gains = b.gains /\ r.capital = b.capital
               /\ r.cles = b.cles \cup {k}
  <1> DEFINE d == [b.dispo EXCEPT ![u] = @ - m]
             e == [b.bloque EXCEPT ![u] = @ + m]
  <1>1. d \in [Joueurs -> Nat] /\ e \in [Joueurs -> Nat]
    BY Champs
  <1>2. BloquerMise(b, u, m, k) =
          [dispo |-> d, bloque |-> e, gains |-> b.gains,
           capital |-> b.capital, cles |-> b.cles \cup {k}]
    BY DEF BloquerMise, Banques
  <1> HIDE DEF d, e
  <1>3. /\ b.gains \in [Joueurs -> Nat] /\ b.capital \in Nat
        /\ b.cles \cup {k} \in SUBSET Cles
    BY Champs
  <1>4. BloquerMise(b, u, m, k) \in Banques
    BY <1>1, <1>2, <1>3 DEF Banques
  <1>5. QED
    BY <1>2, <1>4, Champs DEF d, e

LEMMA BloquerType ==
    ASSUME NEW b \in Banques, NEW u \in Joueurs, NEW m \in Nat, NEW k \in Cles,
           k \in b.cles \/ m <= b.dispo[u]
    PROVE  BloquerMise(b, u, m, k) \in Banques
  <1>1. CASE k \in b.cles
    BY <1>1 DEF BloquerMise
  <1>2. CASE k \notin b.cles
    BY <1>2, BloquerEffet
  <1>3. QED
    BY <1>1, <1>2

LEMMA LibererEffet ==
    ASSUME NEW b \in Banques, NEW u \in Joueurs, NEW m \in Nat, NEW k \in Cles,
           k \notin b.cles
    PROVE  LET r      == LibererMise(b, u, m, k)
               releve == Moindre(m, b.bloque[u])
           IN  /\ r \in Banques
               /\ \A v \in Joueurs :
                     /\ r.dispo[v] = IF v = u THEN b.dispo[u] + releve ELSE b.dispo[v]
                     /\ r.bloque[v] = IF v = u THEN b.bloque[u] - releve ELSE b.bloque[v]
               /\ r.gains = b.gains /\ r.capital = b.capital
               /\ r.cles = b.cles \cup {k}
  <1> DEFINE releve == Moindre(m, b.bloque[u])
             d == [b.dispo EXCEPT ![u] = @ + releve]
             e == [b.bloque EXCEPT ![u] = @ - releve]
  <1>1. releve \in Nat /\ releve <= b.bloque[u]
    BY MoindreType, Champs
  <1>2. LibererMise(b, u, m, k) =
          [dispo |-> d, bloque |-> e, gains |-> b.gains,
           capital |-> b.capital, cles |-> b.cles \cup {k}]
    BY DEF LibererMise, Banques
  <1> HIDE DEF releve
  <1>3. d \in [Joueurs -> Nat] /\ e \in [Joueurs -> Nat]
    BY <1>1, Champs
  <1> HIDE DEF d, e
  <1>4. /\ b.gains \in [Joueurs -> Nat] /\ b.capital \in Nat
        /\ b.cles \cup {k} \in SUBSET Cles
    BY Champs
  <1>5. LibererMise(b, u, m, k) \in Banques
    BY <1>2, <1>3, <1>4 DEF Banques
  <1>6. QED
    BY <1>2, <1>5, Champs DEF d, e, releve

LEMMA LibererType ==
    ASSUME NEW b \in Banques, NEW u \in Joueurs, NEW m \in Nat, NEW k \in Cles
    PROVE  LibererMise(b, u, m, k) \in Banques
  <1>1. CASE k \in b.cles
    BY <1>1 DEF LibererMise
  <1>2. CASE k \notin b.cles
    BY <1>2, LibererEffet
  <1>3. QED
    BY <1>1, <1>2

LEMMA ConsommerEffet ==
    ASSUME NEW b \in Banques, NEW u \in Joueurs, NEW m \in Nat, NEW k \in Cles,
           k \notin b.cles
    PROVE  LET r == ConsommerMise(b, u, m, k)
           IN  /\ r \in Banques
               /\ \A v \in Joueurs :
                     r.bloque[v] = IF v = u THEN b.bloque[u] - Moindre(m, b.bloque[u])
                                            ELSE b.bloque[v]
               /\ r.dispo = b.dispo /\ r.gains = b.gains /\ r.capital = b.capital
               /\ r.cles = b.cles \cup {k}
  <1> DEFINE e == [b.bloque EXCEPT ![u] = @ - Moindre(m, @)]
  <1>1. Moindre(m, b.bloque[u]) \in Nat /\ Moindre(m, b.bloque[u]) <= b.bloque[u]
    BY MoindreType, Champs
  <1>2. ConsommerMise(b, u, m, k) =
          [dispo |-> b.dispo, bloque |-> e, gains |-> b.gains,
           capital |-> b.capital, cles |-> b.cles \cup {k}]
    BY DEF ConsommerMise, Banques
  <1>3. e \in [Joueurs -> Nat]
    BY <1>1, Champs
  <1> HIDE DEF e
  <1>4. /\ b.dispo \in [Joueurs -> Nat] /\ b.gains \in [Joueurs -> Nat]
        /\ b.capital \in Nat /\ b.cles \cup {k} \in SUBSET Cles
    BY Champs
  <1>5. ConsommerMise(b, u, m, k) \in Banques
    BY <1>2, <1>3, <1>4 DEF Banques
  <1>6. QED
    BY <1>2, <1>5, Champs DEF e

LEMMA ConsommerType ==
    ASSUME NEW b \in Banques, NEW u \in Joueurs, NEW m \in Nat, NEW k \in Cles
    PROVE  ConsommerMise(b, u, m, k) \in Banques
  <1>1. CASE k \in b.cles
    BY <1>1 DEF ConsommerMise
  <1>2. CASE k \notin b.cles
    BY <1>2, ConsommerEffet
  <1>3. QED
    BY <1>1, <1>2

LEMMA PayerEffet ==
    ASSUME NEW b \in Banques, NEW u \in Joueurs, NEW m \in Nat, NEW brut \in Nat,
           NEW commission \in Nat, NEW k \in Cles, NEW kc \in Cles,
           k \notin b.cles
    PROVE  LET r == PayerGain(b, u, m, brut, commission, k, kc)
           IN  /\ r \in Banques
               /\ \A v \in Joueurs :
                     /\ r.bloque[v] = IF v = u THEN b.bloque[u] - Moindre(m, b.bloque[u])
                                               ELSE b.bloque[v]
                     /\ r.gains[v] = IF v = u
                                     THEN b.gains[u] + (brut - Moindre(commission, brut))
                                     ELSE b.gains[v]
               /\ r.dispo = b.dispo /\ r.capital = b.capital
               /\ r.cles \in SUBSET (b.cles \cup {k, kc})
               /\ b.cles \cup {k} \subseteq r.cles
  <1> DEFINE retenue == Moindre(commission, brut)
             e == [b.bloque EXCEPT ![u] = @ - Moindre(m, @)]
             f == [b.gains EXCEPT ![u] = @ + (brut - retenue)]
             ks == b.cles \cup {k} \cup (IF retenue > 0 THEN {kc} ELSE {})
  <1>1. Moindre(m, b.bloque[u]) \in Nat /\ Moindre(m, b.bloque[u]) <= b.bloque[u]
    BY MoindreType, Champs
  <1>2. retenue \in Nat /\ retenue <= brut
    BY MoindreType
  <1>3. PayerGain(b, u, m, brut, commission, k, kc) =
          [dispo |-> b.dispo, bloque |-> e, gains |-> f,
           capital |-> b.capital, cles |-> ks]
    BY DEF PayerGain, Banques
  <1> HIDE DEF retenue
  <1>4. e \in [Joueurs -> Nat] /\ f \in [Joueurs -> Nat]
    BY <1>1, <1>2, Champs
  <1>5. ks \in SUBSET Cles /\ ks \in SUBSET (b.cles \cup {k, kc})
        /\ b.cles \cup {k} \subseteq ks
    BY Champs
  <1> HIDE DEF e, f, ks
  <1>6. b.dispo \in [Joueurs -> Nat] /\ b.capital \in Nat
    BY Champs
  <1>7. PayerGain(b, u, m, brut, commission, k, kc) \in Banques
    BY <1>3, <1>4, <1>5, <1>6 DEF Banques
  <1>8. QED
    BY <1>3, <1>5, <1>7, Champs DEF e, f, retenue

LEMMA PayerType ==
    ASSUME NEW b \in Banques, NEW u \in Joueurs, NEW m \in Nat, NEW brut \in Nat,
           NEW commission \in Nat, NEW k \in Cles, NEW kc \in Cles
    PROVE  PayerGain(b, u, m, brut, commission, k, kc) \in Banques
  <1>1. CASE k \in b.cles
    BY <1>1 DEF PayerGain
  <1>2. CASE k \notin b.cles
    BY <1>2, PayerEffet
  <1>3. QED
    BY <1>1, <1>2

LEMMA CrediterEffet ==
    ASSUME NEW b \in Banques, NEW m \in Nat
    PROVE  LET r == CrediterPlateforme(b, m)
           IN  /\ r \in Banques
               /\ r.dispo = b.dispo /\ r.bloque = b.bloque /\ r.gains = b.gains
               /\ r.capital = b.capital + m /\ r.cles = b.cles
  <1>1. CrediterPlateforme(b, m) =
          [dispo |-> b.dispo, bloque |-> b.bloque, gains |-> b.gains,
           capital |-> b.capital + m, cles |-> b.cles]
    BY DEF CrediterPlateforme, Banques
  <1>2. QED
    BY <1>1, Champs DEF Banques

-----------------------------------------------------------------------------
(* Player by player: what each service does whether its key is new or not *)

\* r is b after m was taken from the blocked balance of u under the key k; the
\* keys in K may have been written.
Preleve(b, r, u, m, k, K) ==
    /\ r \in Banques
    /\ b.cles \subseteq r.cles
    /\ r.cles \subseteq b.cles \cup K
    /\ \A v \in Joueurs \ {u} : r.bloque[v] = b.bloque[v]
    /\ k \notin b.cles /\ m <= b.bloque[u] => r.bloque[u] = b.bloque[u] - m

\* r is b after m was added to the blocked balance of u under the key k.
Ajoute(b, r, u, m, k) ==
    /\ r \in Banques
    /\ b.cles \subseteq r.cles
    /\ r.cles \subseteq b.cles \cup {k}
    /\ \A v \in Joueurs \ {u} : r.bloque[v] = b.bloque[v] /\ r.dispo[v] = b.dispo[v]
    /\ k \notin b.cles => r.bloque[u] = b.bloque[u] + m

LEMMA BloquerPoint ==
    ASSUME NEW b \in Banques, NEW u \in Joueurs, NEW m \in Nat, NEW k \in Cles,
           k \in b.cles \/ m <= b.dispo[u]
    PROVE  Ajoute(b, BloquerMise(b, u, m, k), u, m, k)
  <1>1. CASE k \in b.cles
    BY <1>1 DEF BloquerMise, Ajoute
  <1>2. CASE k \notin b.cles
    BY <1>2, BloquerEffet, Champs DEF Ajoute
  <1>3. QED
    BY <1>1, <1>2

\* What is taken is at most m, and exactly m when it is there.
LEMMA PreleveEffet ==
    ASSUME NEW b \in Banques, NEW r \in Banques, NEW u \in Joueurs, NEW m \in Nat,
           NEW k, NEW K,
           b.cles \subseteq r.cles, r.cles \subseteq b.cles \cup K,
           \A v \in Joueurs :
              r.bloque[v] = IF v = u THEN b.bloque[u] - Moindre(m, b.bloque[u])
                                     ELSE b.bloque[v]
    PROVE  Preleve(b, r, u, m, k, K)
  BY Champs DEF Preleve, Moindre

LEMMA LibererPoint ==
    ASSUME NEW b \in Banques, NEW u \in Joueurs, NEW m \in Nat, NEW k \in Cles
    PROVE  Preleve(b, LibererMise(b, u, m, k), u, m, k, {k})
  <1>1. CASE k \in b.cles
    BY <1>1, Champs DEF LibererMise, Preleve
  <1>2. CASE k \notin b.cles
    BY <1>2, LibererEffet, PreleveEffet
  <1>3. QED
    BY <1>1, <1>2

LEMMA ConsommerPoint ==
    ASSUME NEW b \in Banques, NEW u \in Joueurs, NEW m \in Nat, NEW k \in Cles
    PROVE  Preleve(b, ConsommerMise(b, u, m, k), u, m, k, {k})
  <1>1. CASE k \in b.cles
    BY <1>1, Champs DEF ConsommerMise, Preleve
  <1>2. CASE k \notin b.cles
    BY <1>2, ConsommerEffet, PreleveEffet
  <1>3. QED
    BY <1>1, <1>2

LEMMA PayerPoint ==
    ASSUME NEW b \in Banques, NEW u \in Joueurs, NEW m \in Nat, NEW brut \in Nat,
           NEW commission \in Nat, NEW k \in Cles, NEW kc \in Cles
    PROVE  Preleve(b, PayerGain(b, u, m, brut, commission, k, kc), u, m, k, {k, kc})
  <1>1. CASE k \in b.cles
    BY <1>1, Champs DEF PayerGain, Preleve
  <1>2. CASE k \notin b.cles
    <2> DEFINE r == PayerGain(b, u, m, brut, commission, k, kc)
    <2>1. /\ r \in Banques /\ b.cles \subseteq r.cles
          /\ r.cles \subseteq b.cles \cup {k, kc}
          /\ \A v \in Joueurs :
                r.bloque[v] = IF v = u THEN b.bloque[u] - Moindre(m, b.bloque[u])
                                       ELSE b.bloque[v]
      BY <1>2, PayerEffet
    <2> HIDE DEF r
    <2>2. Preleve(b, r, u, m, k, {k, kc})
      BY <2>1, PreleveEffet
    <2>3. QED
      BY <2>2 DEF r
  <1>3. QED
    BY <1>1, <1>2

-----------------------------------------------------------------------------
\* Settling a duel writes only keys of its game, touches only the blocked
\* balances of its two players and, when it was not settled before, takes the
\* effective stake from each.
LEMMA ReglerPoint ==
    ASSUME NEW b \in Banques, NEW w \in Joueurs, NEW l \in Joueurs, NEW m \in Nat,
           NEW g \in Parties,
           NEW r, r = ReglerDuel(b, w, l, m, g)
    PROVE  /\ r \in Banques
           /\ b.cles \subseteq r.cles
           /\ r.cles \subseteq b.cles \cup {CleDe("perdant", g, Personne),
                                            CleDe("gagnant", g, Personne),
                                            CleDe("gagnant:commission", g, Personne)}
           /\ \A v \in Joueurs \ {w, l} : r.bloque[v] = b.bloque[v]
           /\ (/\ w # l
               /\ CleDe("perdant", g, Personne) \notin b.cles
               /\ CleDe("gagnant", g, Personne) \notin b.cles
               /\ m <= b.bloque[w] /\ m <= b.bloque[l])
              => /\ r.bloque[w] = b.bloque[w] - m
                 /\ r.bloque[l] = b.bloque[l] - m
  <1> DEFINE c  == 2 * CommissionPour(m)
             kp == CleDe("perdant", g, Personne)
             kg == CleDe("gagnant", g, Personne)
             kc == CleDe("gagnant:commission", g, Personne)
             brut == 2 * m
             b1 == ConsommerMise(b, l, m, kp)
             b2 == PayerGain(b1, w, m, brut, c, kg, kc)
             b3 == CrediterPlateforme(b2, c)
  <1>1. /\ kp \in Cles /\ kg \in Cles /\ kc \in Cles /\ kp # kg
    BY CleType DEF Operations, CleDe
  <1>2. c \in Nat /\ brut \in Nat
    BY CommissionType
  <1>3. r = IF DejaRegle(b, g) THEN b ELSE b3
    BY DEF ReglerDuel
  <1>4. DejaRegle(b, g) <=> kp \in b.cles /\ kg \in b.cles
    BY DEF DejaRegle
  <1> HIDE DEF c, brut, kp, kg, kc
  <1>5. Preleve(b, b1, l, m, kp, {kp})
    BY <1>1, ConsommerPoint
  <1> HIDE DEF b1
  <1>6. Preleve(b1, b2, w, m, kg, {kg, kc})
    <2>1. b1 \in Banques
      BY <1>5 DEF Preleve
    <2>2. QED
      BY <1>1, <1>2, <2>1, PayerPoint
  <1> HIDE DEF b2
  <1>7. b3 \in Banques /\ b3.cles = b2.cles /\ b3.bloque = b2.bloque
    BY <1>2, <1>6, CrediterEffet DEF Preleve
  <1> HIDE DEF b3
  <1>8. /\ b.cles \subseteq b3.cles
        /\ b3.cles \subseteq b.cles \cup {kp, kg, kc}
        /\ \A v \in Joueurs \ {w, l} : b3.bloque[v] = b.bloque[v]
    BY <1>5, <1>6, <1>7 DEF Preleve
  <1>9. ASSUME w # l, kp \notin b.cles, kg \notin b.cles,
               m <= b.bloque[w], m <= b.bloque[l]
        PROVE  b3.bloque[w] = b.bloque[w] - m /\ b3.bloque[l] = b.bloque[l] - m
    BY <1>1, <1>5, <1>6, <1>7, <1>9 DEF Preleve
  <1>10. QED
    BY <1>3, <1>4, <1>7, <1>8, <1>9 DEF kp, kg, kc

-----------------------------------------------------------------------------
(* Who owns what: every service but the two of a settlement only moves money *)
(* between the balances of one wallet                                        *)

Conserve(b, r) ==
    /\ r \in Banques
    /\ r.capital = b.capital
    /\ \A v \in Joueurs : Avoir(r, v) = Avoir(b, v)

LEMMA AvoirType ==
    ASSUME NEW b \in Banques, NEW v \in Joueurs
    PROVE  /\ b.dispo[v] \in Nat /\ b.bloque[v] \in Nat /\ b.gains[v] \in Nat
           /\ Avoir(b, v) \in Nat
  <1>1. b.dispo[v] \in Nat /\ b.bloque[v] \in Nat /\ b.gains[v] \in Nat
    BY Champs
  <1> QED BY <1>1 DEF Avoir

LEMMA ConserveTrans ==
    ASSUME NEW b, NEW r, NEW s, Conserve(b, r), Conserve(r, s)
    PROVE  Conserve(b, s)
  BY DEF Conserve

LEMMA BloquerConserve ==
    ASSUME NEW b \in Banques, NEW u \in Joueurs, NEW m \in Nat, NEW k \in Cles,
           k \in b.cles \/ m <= b.dispo[u]
    PROVE  Conserve(b, BloquerMise(b, u, m, k))
  <1>1. CASE k \in b.cles
    BY <1>1 DEF BloquerMise, Conserve
  <1>2. CASE k \notin b.cles
    <2>1. PICK r : r = BloquerMise(b, u, m, k)
      OBVIOUS
    <2>2. /\ r \in Banques
          /\ \A v \in Joueurs :
                /\ r.dispo[v] = IF v = u THEN b.dispo[u] - m ELSE b.dispo[v]
                /\ r.bloque[v] = IF v = u THEN b.bloque[u] + m ELSE b.bloque[v]
          /\ r.gains = b.gains /\ r.capital = b.capital
      BY <1>2, <2>1, BloquerEffet
    <2>3. ASSUME NEW v \in Joueurs
          PROVE  Avoir(r, v) = Avoir(b, v)
      BY <2>2, AvoirType DEF Avoir
    <2> QED BY <2>1, <2>2, <2>3 DEF Conserve
  <1> QED BY <1>1, <1>2

LEMMA LibererConserve ==
    ASSUME NEW b \in Banques, NEW u \in Joueurs, NEW m \in Nat, NEW k \in Cles
    PROVE  Conserve(b, LibererMise(b, u, m, k))
  <1>1. CASE k \in b.cles
    BY <1>1 DEF LibererMise, Conserve
  <1>2. CASE k \notin b.cles
    <2>1. PICK r, x : r = LibererMise(b, u, m, k) /\ x = Moindre(m, b.bloque[u])
      OBVIOUS
    <2>2. /\ r \in Banques
          /\ \A v \in Joueurs :
                /\ r.dispo[v] = IF v = u THEN b.dispo[u] + x ELSE b.dispo[v]
                /\ r.bloque[v] = IF v = u THEN b.bloque[u] - x ELSE b.bloque[v]
          /\ r.gains = b.gains /\ r.capital = b.capital
      BY <1>2, <2>1, LibererEffet
    <2>3. x \in Nat
      BY <2>1, AvoirType, MoindreType
    <2>4. ASSUME NEW v \in Joueurs
          PROVE  Avoir(r, v) = Avoir(b, v)
      BY <2>2, <2>3, AvoirType DEF Avoir
    <2> QED BY <2>1, <2>2, <2>4 DEF Conserve
  <1> QED BY <1>1, <1>2

\* The blocked balance of u loses x and his gains grow by n.
Recoit(b, r, u, x, n) ==
    /\ r \in Banques
    /\ \A v \in Joueurs :
          /\ r.bloque[v] = IF v = u THEN b.bloque[u] - x ELSE b.bloque[v]
          /\ r.gains[v] = IF v = u THEN b.gains[u] + n ELSE b.gains[v]
    /\ r.dispo = b.dispo /\ r.capital = b.capital

LEMMA PayerRecoit ==
    ASSUME NEW b \in Banques, NEW u \in Joueurs, NEW m \in Nat, NEW brut \in Nat,
           NEW commission \in Nat, NEW k \in Cles, NEW kc \in Cles,
           k \notin b.cles,
           NEW r, r = PayerGain(b, u, m, brut, commission, k, kc),
           NEW x, x = Moindre(m, b.bloque[u]),
           NEW n, n = brut - Moindre(commission, brut)
    PROVE  Recoit(b, r, u, x, n)
  BY PayerEffet DEF Recoit

\* The shares that both players leave to the platform are no more than one
\* stake: a winner never loses by winning.
LEMMA CommissionDouble ==
    ASSUME NEW m \in Nat
    PROVE  /\ 2 * CommissionPour(m) \in Nat
           /\ 2 * CommissionPour(m) <= m
  <1>1. PICK q \in Nat : q = (20 * m) \div 100
    OBVIOUS
  <1>2. 100 * q <= 20 * m
    BY <1>1
  <1> QED BY <1>1, <1>2 DEF CommissionPour

\* Settling a duel that was not settled before: the loser loses the effective
\* stake, the winner gains it less the commissions, and the platform has these.
LEMMA ReglerAvoir ==
    ASSUME NEW b \in Banques, NEW w \in Joueurs, NEW l \in Joueurs, NEW m \in Nat,
           NEW g \in Parties, w # l,
           CleDe("perdant", g, Personne) \notin b.cles,
           CleDe("gagnant", g, Personne) \notin b.cles,
           m <= b.bloque[w], m <= b.bloque[l],
           NEW c, c = 2 * CommissionPour(m),
           NEW r, r = ReglerDuel(b, w, l, m, g)
    PROVE  /\ r \in Banques
           /\ r.capital = b.capital + c
           /\ Avoir(r, l) = Avoir(b, l) - m
           /\ Avoir(r, w) = (Avoir(b, w) + m) - c
           /\ \A v \in Joueurs \ {w, l} : Avoir(r, v) = Avoir(b, v)
  <1> DEFINE kp == CleDe("perdant", g, Personne)
             kg == CleDe("gagnant", g, Personne)
             kc == CleDe("gagnant:commission", g, Personne)
             brut == 2 * m
             b1 == ConsommerMise(b, l, m, kp)
             b2 == PayerGain(b1, w, m, brut, c, kg, kc)
             b3 == CrediterPlateforme(b2, c)
  <1>1. /\ kp \in Cles /\ kg \in Cles /\ kc \in Cles /\ kp # kg
        /\ kp \notin b.cles /\ kg \notin b.cles
    BY CleType DEF Operations, CleDe
  <1>2. c \in Nat /\ brut \in Nat /\ c <= m /\ c <= brut
    BY CommissionDouble
  <1>3. r = b3
    BY DEF ReglerDuel, DejaRegle
  <1> HIDE DEF brut, kp, kg, kc
  <1>4. /\ b1 \in Banques
        /\ \A v \in Joueurs : b1.bloque[v] = IF v = l THEN b.bloque[l] - m ELSE b.bloque[v]
        /\ b1.dispo = b.dispo /\ b1.gains = b.gains /\ b1.capital = b.capital
        /\ kg \notin b1.cles
    <2>1. Moindre(m, b.bloque[l]) = m
      BY DEF Moindre
    <2> QED BY <1>1, <2>1, ConsommerEffet
  <1> HIDE DEF b1
  <1>5. b1.bloque[w] = b.bloque[w] /\ b1.bloque[w] \in Nat
    BY <1>4, AvoirType
  <1>6. /\ b2 \in Banques
        /\ \A v \in Joueurs :
              /\ b2.bloque[v] = IF v = w THEN b1.bloque[w] - m ELSE b1.bloque[v]
              /\ b2.gains[v] = IF v = w THEN b1.gains[w] + (brut - c) ELSE b1.gains[v]
        /\ b2.dispo = b1.dispo /\ b2.capital = b1.capital
    <2>1. Moindre(m, b1.bloque[w]) = m /\ Moindre(c, brut) = c
      BY <1>2, <1>5 DEF Moindre
    <2>2. PICK p, x, n : /\ p = b2 /\ x = Moindre(m, b1.bloque[w])
                         /\ n = brut - Moindre(c, brut)
      OBVIOUS
    <2>3. Recoit(b1, p, w, x, n)
      BY <1>1, <1>2, <1>4, <2>2, PayerRecoit
    <2>4. p = b2 /\ x = m /\ n = brut - c
      BY <2>1, <2>2
    <2> HIDE DEF b2
    <2> QED BY <2>3, <2>4 DEF Recoit
  <1> HIDE DEF b2
  <1>7. /\ b3 \in Banques
        /\ b3.dispo = b2.dispo /\ b3.bloque = b2.bloque /\ b3.gains = b2.gains
        /\ b3.capital = b2.capital + c
    BY <1>2, <1>6, CrediterEffet
  <1> HIDE DEF b3
  <1>8. ASSUME NEW v \in Joueurs
        PROVE  Avoir(r, v) = IF v = l THEN Avoir(b, l) - m
                             ELSE IF v = w THEN (Avoir(b, w) + m) - c
                             ELSE Avoir(b, v)
    <2>1. /\ b.dispo[v] \in Nat /\ b.bloque[v] \in Nat /\ b.gains[v] \in Nat
      BY AvoirType
    <2>2. /\ r.dispo[v] = b.dispo[v]
          /\ r.bloque[v] = IF v \in {w, l} THEN b.bloque[v] - m ELSE b.bloque[v]
          /\ r.gains[v] = IF v = w THEN b.gains[v] + (brut - c) ELSE b.gains[v]
      BY <1>3, <1>4, <1>5, <1>6, <1>7
    <2>3. brut = 2 * m
      BY DEF brut
    <2> QED BY <1>2, <2>1, <2>2, <2>3 DEF Avoir
  <1>9. r \in Banques /\ r.capital = b.capital + c
    BY <1>3, <1>4, <1>6, <1>7
  <1> QED BY <1>8, <1>9

\* Settling a duel, whatever was settled or blocked before: nobody becomes
\* poorer but the loser, by one stake at most, for a service never takes more
\* than what is blocked.
LEMMA ReglerBorne ==
    ASSUME NEW b \in Banques, NEW w \in Joueurs, NEW l \in Joueurs, NEW m \in Nat,
           NEW g \in Parties, w # l,
           NEW r, r = ReglerDuel(b, w, l, m, g)
    PROVE  /\ r \in Banques
           /\ \A v \in Joueurs \ {l} : Avoir(r, v) >= Avoir(b, v)
           /\ Avoir(b, l) - Avoir(r, l) <= m
  <1> DEFINE kp == CleDe("perdant", g, Personne)
             kg == CleDe("gagnant", g, Personne)
             kc == CleDe("gagnant:commission", g, Personne)
             c == 2 * CommissionPour(m)
             brut == 2 * m
             b1 == ConsommerMise(b, l, m, kp)
             b2 == PayerGain(b1, w, m, brut, c, kg, kc)
             b3 == CrediterPlateforme(b2, c)
  <1>1. kp \in Cles /\ kg \in Cles /\ kc \in Cles
    BY CleType DEF Operations
  <1>2. c \in Nat /\ brut \in Nat /\ c <= m /\ c <= brut /\ brut = m + m
    BY CommissionDouble
  <1>3. CASE DejaRegle(b, g)
    <2>1. r = b
      BY <1>3 DEF ReglerDuel
    <2> QED BY <2>1, AvoirType
  <1>4. CASE ~ DejaRegle(b, g)
    <2>1. r = b3
      BY <1>4 DEF ReglerDuel
    <2> HIDE DEF c, brut, kp, kg, kc
    <2>2. /\ b1 \in Banques
          /\ \A v \in Joueurs : Avoir(b1, v) <= Avoir(b, v)
          /\ \A v \in Joueurs \ {l} : Avoir(b1, v) = Avoir(b, v)
          /\ Avoir(b, l) - Avoir(b1, l) <= m
      <3>1. CASE kp \in b.cles
        BY <3>1, AvoirType DEF ConsommerMise
      <3>2. CASE kp \notin b.cles
        <4>1. PICK x : x = Moindre(m, b.bloque[l])
          OBVIOUS
        <4>2. x \in Nat /\ x <= m /\ x <= b.bloque[l]
          BY <4>1, MoindreType, AvoirType
        <4>3. /\ b1 \in Banques
              /\ \A v \in Joueurs : b1.bloque[v] = IF v = l THEN b.bloque[l] - x
                                                           ELSE b.bloque[v]
              /\ b1.dispo = b.dispo /\ b1.gains = b.gains
          BY <1>1, <3>2, <4>1, ConsommerEffet
        <4> HIDE DEF b1
        <4>4. ASSUME NEW v \in Joueurs
              PROVE  Avoir(b1, v) = IF v = l THEN Avoir(b, l) - x ELSE Avoir(b, v)
          BY <4>2, <4>3, AvoirType DEF Avoir
        <4>5. \A v \in Joueurs : Avoir(b, v) \in Nat
          BY AvoirType
        <4> QED BY <4>2, <4>3, <4>4, <4>5
      <3> QED BY <3>1, <3>2
    <2> HIDE DEF b1
    <2>3. b2 \in Banques /\ \A v \in Joueurs : Avoir(b2, v) >= Avoir(b1, v)
      <3>1. CASE kg \in b1.cles
        BY <2>2, <3>1, AvoirType DEF PayerGain
      <3>2. CASE kg \notin b1.cles
        <4>1. PICK p, x, n : /\ p = b2 /\ x = Moindre(m, b1.bloque[w])
                             /\ n = brut - Moindre(c, brut)
          OBVIOUS
        <4>2. Recoit(b1, p, w, x, n)
          BY <1>1, <1>2, <2>2, <3>2, <4>1, PayerRecoit
        <4>3. p = b2 /\ x \in Nat /\ x <= m /\ n = brut - c
          BY <1>2, <2>2, <4>1, MoindreType, AvoirType DEF Moindre
        <4> HIDE DEF b2
        <4>4. ASSUME NEW v \in Joueurs
              PROVE  Avoir(b2, v) >= Avoir(b1, v)
          <5>1. /\ b1.dispo[v] \in Nat /\ b1.bloque[v] \in Nat /\ b1.gains[v] \in Nat
            BY <2>2, AvoirType
          <5> QED BY <1>2, <4>2, <4>3, <5>1 DEF Avoir, Recoit
        <4> QED BY <4>2, <4>3, <4>4 DEF Recoit
      <3> QED BY <3>1, <3>2
    <2> HIDE DEF b2
    <2>4. b3 \in Banques /\ \A v \in Joueurs : Avoir(b3, v) = Avoir(b2, v)
      BY <1>2, <2>3, CrediterEffet DEF Avoir
    <2> HIDE DEF b3
    <2>5. \A v \in Joueurs : /\ Avoir(b, v) \in Nat /\ Avoir(b1, v) \in Nat
                             /\ Avoir(b2, v) \in Nat /\ Avoir(b3, v) \in Nat
      BY <2>2, <2>3, <2>4, AvoirType
    <2> QED BY <2>1, <2>2, <2>3, <2>4, <2>5
  <1> QED BY <1>3, <1>4

-----------------------------------------------------------------------------
(* Banks whose ledger holds other keys as well, those of the bets for one: *)
(* a service needs no more of its keys than that the ledger may hold them  *)

FondsDe(K) ==
    [dispo   : [Joueurs -> Nat],
     bloque  : [Joueurs -> Nat],
     gains   : [Joueurs -> Nat],
     capital : Nat,
     cles    : SUBSET K]

(* r is a bank of the same kind as b with at most the keys N in addition *)
Augmente(K, b, r, N) ==
    /\ r \in FondsDe(K)
    /\ b.cles \subseteq r.cles
    /\ r.cles \subseteq b.cles \cup N

LEMMA BanquesFonds == Banques = FondsDe(Cles)
  BY DEF Banques, FondsDe

LEMMA ChampsFonds ==
    ASSUME NEW K, NEW b \in FondsDe(K)
    PROVE  /\ b.dispo \in [Joueurs -> Nat]
           /\ b.bloque \in [Joueurs -> Nat]
           /\ b.gains \in [Joueurs -> Nat]
           /\ b.capital \in Nat
           /\ b.cles \in SUBSET K
           /\ b = [dispo |-> b.dispo, bloque |-> b.bloque, gains |-> b.gains,
                   capital |-> b.capital, cles |-> b.cles]
  BY DEF FondsDe

\* A record of legal balances and keys is a bank.
LEMMA FaitFonds ==
    ASSUME NEW K, NEW b \in FondsDe(K),
           NEW d \in [Joueurs -> Nat], NEW e \in [Joueurs -> Nat],
           NEW f \in [Joueurs -> Nat], NEW c \in Nat,
           NEW N \in SUBSET K, NEW ks \in SUBSET (b.cles \cup N), b.cles \subseteq ks,
           NEW r, r = [dispo |-> d, bloque |-> e, gains |-> f, capital |-> c, cles |-> ks]
    PROVE  Augmente(K, b, r, N)
  <1>1. ks \in SUBSET K
    BY ChampsFonds
  <1>2. r \in FondsDe(K) /\ r.cles = ks
    BY <1>1 DEF FondsDe
  <1> QED BY <1>2 DEF Augmente

LEMMA AugmenteRien ==
    ASSUME NEW K, NEW b \in FondsDe(K), NEW N
    PROVE  Augmente(K, b, b, N)
  BY DEF Augmente

LEMMA BloquerFonds ==
    ASSUME NEW K, NEW b \in FondsDe(K), NEW u \in Joueurs, NEW m \in Nat, NEW k \in K,
           k \in b.cles \/ m <= b.dispo[u]
    PROVE  Augmente(K, b, BloquerMise(b, u, m, k), {k})
  <1>1. CASE k \in b.cles
    BY <1>1, AugmenteRien DEF BloquerMise
  <1>2. CASE k \notin b.cles
    <2> DEFINE d == [b.dispo EXCEPT ![u] = @ - m]
               e == [b.bloque EXCEPT ![u] = @ + m]
               ks == b.cles \cup {k}
    <2>1. d \in [Joueurs -> Nat] /\ e \in [Joueurs -> Nat]
      BY <1>2, ChampsFonds
    <2>2. BloquerMise(b, u, m, k) =
            [dispo |-> d, bloque |-> e, gains |-> b.gains, capital |-> b.capital, cles |-> ks]
      BY <1>2 DEF BloquerMise, FondsDe
    <2>3. ks \in SUBSET (b.cles \cup {k}) /\ b.cles \subseteq ks /\ {k} \in SUBSET K
      OBVIOUS
    <2> HIDE DEF d, e, ks
    <2> QED BY <2>1, <2>2, <2>3, ChampsFonds, FaitFonds
  <1> QED BY <1>1, <1>2

LEMMA LibererFonds ==
    ASSUME NEW K, NEW b \in FondsDe(K), NEW u \in Joueurs, NEW m \in Nat, NEW k \in K
    PROVE  Augmente(K, b, LibererMise(b, u, m, k), {k})
  <1>1. CASE k \in b.cles
    BY <1>1, AugmenteRien DEF LibererMise
  <1>2. CASE k \notin b.cles
    <2> DEFINE x == Moindre(m, b.bloque[u])
               d == [b.dispo EXCEPT ![u] = @ + x]
               e == [b.bloque EXCEPT ![u] = @ - x]
               ks == b.cles \cup {k}
    <2>1. x \in Nat /\ x <= b.bloque[u]
      BY MoindreType, ChampsFonds
    <2>2. LibererMise(b, u, m, k) =
            [dispo |-> d, bloque |-> e, gains |-> b.gains, capital |-> b.capital, cles |-> ks]
      BY <1>2 DEF LibererMise, FondsDe
    <2> HIDE DEF x
    <2>3. d \in [Joueurs -> Nat] /\ e \in [Joueurs -> Nat]
      BY <2>1, ChampsFonds
    <2>4. ks \in SUBSET (b.cles \cup {k}) /\ b.cles \subseteq ks /\ {k} \in SUBSET K
      OBVIOUS
    <2> HIDE DEF d, e, ks
    <2> QED BY <2>2, <2>3, <2>4, ChampsFonds, FaitFonds
  <1> QED BY <1>1, <1>2

LEMMA ConsommerFonds ==
    ASSUME NEW K, NEW b \in FondsDe(K), NEW u \in Joueurs, NEW m \in Nat, NEW k \in K
    PROVE  Augmente(K, b, ConsommerMise(b, u, m, k), {k})
  <1>1. CASE k \in b.cles
    BY <1>1, AugmenteRien DEF ConsommerMise
  <1>2. CASE k \notin b.cles
    <2> DEFINE e == [b.bloque EXCEPT ![u] = @ - Moindre(m, @)]
               ks == b.cles \cup {k}
    <2>1. Moindre(m, b.bloque[u]) \in Nat /\ Moindre(m, b.bloque[u]) <= b.bloque[u]
      BY MoindreType, ChampsFonds
    <2>2. ConsommerMise(b, u, m, k) =
            [dispo |-> b.dispo, bloque |-> e, gains |-> b.gains,
             capital |-> b.capital, cles |-> ks]
      BY <1>2 DEF ConsommerMise, FondsDe
    <2>3. e \in [Joueurs -> Nat]
      BY <2>1, ChampsFonds
    <2>4. ks \in SUBSET (b.cles \cup {k}) /\ b.cles \subseteq ks /\ {k} \in SUBSET K
      OBVIOUS
    <2> HIDE DEF e, ks
    <2> QED BY <2>2, <2>3, <2>4, ChampsFonds, FaitFonds
  <1> QED BY <1>1, <1>2

LEMMA PayerFonds ==
    ASSUME NEW K, NEW b \in FondsDe(K), NEW u \in Joueurs, NEW m \in Nat, NEW brut \in Nat,
           NEW commission \in Nat, NEW k \in K, NEW kc \in K
    PROVE  Augmente(K, b, PayerGain(b, u, m, brut, commission, k, kc), {k, kc})
  <1>1. CASE k \in b.cles
    BY <1>1, AugmenteRien DEF PayerGain
  <1>2. CASE k \notin b.cles
    <2> DEFINE x == Moindre(commission, brut)
               e == [b.bloque EXCEPT ![u] = @ - Moindre(m, @)]
               f == [b.gains EXCEPT ![u] = @ + (brut - x)]
               ks == b.cles \cup {k} \cup (IF x > 0 THEN {kc} ELSE {})
    <2>1. Moindre(m, b.bloque[u]) \in Nat /\ Moindre(m, b.bloque[u]) <= b.bloque[u]
      BY MoindreType, ChampsFonds
    <2>2. x \in Nat /\ x <= brut
      BY MoindreType
    <2>3. PayerGain(b, u, m, brut, commission, k, kc) =
            [dispo |-> b.dispo, bloque |-> e, gains |-> f,
             capital |-> b.capital, cles |-> ks]
      BY <1>2 DEF PayerGain, FondsDe
    <2> HIDE DEF x
    <2>4. e \in [Joueurs -> Nat] /\ f \in [Joueurs -> Nat]
      BY <2>1, <2>2, ChampsFonds
    <2>5. ks \in SUBSET (b.cles \cup {k, kc}) /\ b.cles \subseteq ks
          /\ {k, kc} \in SUBSET K
      OBVIOUS
    <2> HIDE DEF e, f, ks
    <2> QED BY <2>3, <2>4, <2>5, ChampsFonds, FaitFonds
  <1> QED BY <1>1, <1>2

LEMMA CrediterFonds ==
    ASSUME NEW K, NEW b \in FondsDe(K), NEW m \in Nat
    PROVE  Augmente(K, b, CrediterPlateforme(b, m), {})
  <1>1. CrediterPlateforme(b, m) =
          [dispo |-> b.dispo, bloque |-> b.bloque, gains |-> b.gains,
           capital |-> b.capital + m, cles |-> b.cles]
    BY DEF CrediterPlateforme, FondsDe
  <1>2. b.capital + m \in Nat
    BY ChampsFonds
  <1> HIDE DEF FondsDe
  <1>3. {} \in SUBSET K /\ b.cles \in SUBSET (b.cles \cup {}) /\ b.cles \subseteq b.cles
    OBVIOUS
  <1> QED BY <1>1, <1>2, <1>3, ChampsFonds, FaitFonds

\* Settling a duel writes at most the three keys of its game.
LEMMA ReglerFonds ==
    ASSUME NEW K, NEW b \in FondsDe(K), NEW w \in Joueurs, NEW l \in Joueurs, NEW m \in Nat,
           NEW g \in Parties, Cles \subseteq K
    PROVE  Augmente(K, b, ReglerDuel(b, w, l, m, g),
                    {CleDe("perdant", g, Personne), CleDe("gagnant", g, Personne),
                     CleDe("gagnant:commission", g, Personne)})
  <1> DEFINE c  == 2 * CommissionPour(m)
             kp == CleDe("perdant", g, Personne)
             kg == CleDe("gagnant", g, Personne)
             kc == CleDe("gagnant:commission", g, Personne)
             brut == 2 * m
             b1 == ConsommerMise(b, l, m, kp)
             b2 == PayerGain(b1, w, m, brut, c, kg, kc)
             b3 == CrediterPlateforme(b2, c)
  <1>1. kp \in K /\ kg \in K /\ kc \in K
    BY CleType DEF Operations
  <1>2. c \in Nat /\ brut \in Nat
    BY CommissionType
  <1>3. CASE DejaRegle(b, g)
    BY <1>3, AugmenteRien DEF ReglerDuel
  <1>4. CASE ~ DejaRegle(b, g)
    <2>1. ReglerDuel(b, w, l, m, g) = b3
      BY <1>4 DEF ReglerDuel
    <2> HIDE DEF c, brut, kp, kg, kc
    <2>2. Augmente(K, b, b1, {kp})
      BY <1>1, ConsommerFonds
    <2> HIDE DEF b1
    <2>3. b1 \in FondsDe(K)
      BY <2>2 DEF Augmente
    <2>4. Augmente(K, b1, b2, {kg, kc})
      BY <1>1, <1>2, <2>3, PayerFonds
    <2> HIDE DEF b2
    <2>5. b2 \in FondsDe(K)
      BY <2>4 DEF Augmente
    <2>6. Augmente(K, b2, b3, {})
      BY <1>2, <2>5, CrediterFonds
    <2> HIDE DEF b3
    <2>7. Augmente(K, b, b3, {kp, kg, kc})
      BY <2>2, <2>4, <2>6 DEF Augmente
    <2> QED BY <2>1, <2>7 DEF kp, kg, kc
  <1> QED BY <1>3, <1>4

-----------------------------------------------------------------------------
(* The blocked balances alone, whether the key is new or not *)

(* m is taken from what u has blocked, if it is there and the key k is new *)
Debloque(b, r, u, m, k) ==
    /\ \A v \in Joueurs \ {u} : r.bloque[v] = b.bloque[v]
    /\ k \in b.cles => r.bloque[u] = b.bloque[u]
    /\ k \notin b.cles /\ m <= b.bloque[u] => r.bloque[u] = b.bloque[u] - m
    /\ k \in r.cles

\* A stake is blocked once for each key.
LEMMA BloquerBloque ==
    ASSUME NEW K, NEW b \in FondsDe(K), NEW u \in Joueurs, NEW m \in Nat, NEW k,
           NEW r, r = BloquerMise(b, u, m, k)
    PROVE  /\ \A v \in Joueurs \ {u} : r.bloque[v] = b.bloque[v]
           /\ r.bloque[u] = IF k \in b.cles THEN b.bloque[u] ELSE b.bloque[u] + m
           /\ k \in r.cles
  <1>1. CASE k \in b.cles
    BY <1>1 DEF BloquerMise
  <1>2. CASE k \notin b.cles
    <2> DEFINE d == [b.dispo EXCEPT ![u] = @ - m]
               e == [b.bloque EXCEPT ![u] = @ + m]
               ks == b.cles \cup {k}
    <2>1. r = [dispo |-> d, bloque |-> e, gains |-> b.gains, capital |-> b.capital,
               cles |-> ks]
      BY <1>2 DEF BloquerMise, FondsDe
    <2>2. r.bloque = e /\ r.cles = ks
      BY <2>1
    <2> QED BY <1>2, <2>2, ChampsFonds
  <1> QED BY <1>1, <1>2

\* A bank whose blocked balance of u is smaller by what there is of m.
LEMMA DebloqueSuffit ==
    ASSUME NEW K, NEW b \in FondsDe(K), NEW u \in Joueurs, NEW m \in Nat, NEW k,
           k \notin b.cles, NEW r, k \in r.cles,
           r.bloque = [b.bloque EXCEPT ![u] = @ - Moindre(m, @)]
    PROVE  Debloque(b, r, u, m, k)
  <1>1. b.bloque \in [Joueurs -> Nat]
    BY ChampsFonds
  <1>2. \A v \in Joueurs \ {u} : r.bloque[v] = b.bloque[v]
    BY <1>1
  <1>3. m <= b.bloque[u] => r.bloque[u] = b.bloque[u] - m
    BY <1>1 DEF Moindre
  <1> QED BY <1>2, <1>3 DEF Debloque

LEMMA LibererDebloque ==
    ASSUME NEW K, NEW b \in FondsDe(K), NEW u \in Joueurs, NEW m \in Nat, NEW k
    PROVE  Debloque(b, LibererMise(b, u, m, k), u, m, k)
  <1>1. CASE k \in b.cles
    BY <1>1 DEF LibererMise, Debloque
  <1>2. CASE k \notin b.cles
    <2> DEFINE x == Moindre(m, b.bloque[u])
               d == [b.dispo EXCEPT ![u] = @ + x]
               e == [b.bloque EXCEPT ![u] = @ - x]
               ks == b.cles \cup {k}
    <2>1. LibererMise(b, u, m, k) =
            [dispo |-> d, bloque |-> e, gains |-> b.gains, capital |-> b.capital, cles |-> ks]
      BY <1>2 DEF LibererMise, FondsDe
    <2>2. e = [b.bloque EXCEPT ![u] = @ - Moindre(m, @)]
      OBVIOUS
    <2> HIDE DEF d, e
    <2>3. LibererMise(b, u, m, k).bloque = e /\ k \in LibererMise(b, u, m, k).cles
      BY <2>1
    <2> QED BY <1>2, <2>2, <2>3, DebloqueSuffit
  <1> QED BY <1>1, <1>2

LEMMA ConsommerDebloque ==
    ASSUME NEW K, NEW b \in FondsDe(K), NEW u \in Joueurs, NEW m \in Nat, NEW k
    PROVE  Debloque(b, ConsommerMise(b, u, m, k), u, m, k)
  <1>1. CASE k \in b.cles
    BY <1>1 DEF ConsommerMise, Debloque
  <1>2. CASE k \notin b.cles
    <2> DEFINE e == [b.bloque EXCEPT ![u] = @ - Moindre(m, @)]
               ks == b.cles \cup {k}
    <2>1. ConsommerMise(b, u, m, k) =
            [dispo |-> b.dispo, bloque |-> e, gains |-> b.gains,
             capital |-> b.capital, cles |-> ks]
      BY <1>2 DEF ConsommerMise, FondsDe
    <2> HIDE DEF e
    <2>2. ConsommerMise(b, u, m, k).bloque = e /\ k \in ConsommerMise(b, u, m, k).cles
      BY <2>1
    <2> QED BY <1>2, <2>2, DebloqueSuffit DEF e
  <1> QED BY <1>1, <1>2

LEMMA PayerDebloque ==
    ASSUME NEW K, NEW b \in FondsDe(K), NEW u \in Joueurs, NEW m \in Nat, NEW brut \in Nat,
           NEW commission \in Nat, NEW k, NEW kc
    PROVE  Debloque(b, PayerGain(b, u, m, brut, commission, k, kc), u, m, k)
  <1>1. CASE k \in b.cles
    BY <1>1 DEF PayerGain, Debloque
  <1>2. CASE k \notin b.cles
    <2> DEFINE x == Moindre(commission, brut)
               e == [b.bloque EXCEPT ![u] = @ - Moindre(m, @)]
               f == [b.gains EXCEPT ![u] = @ + (brut - x)]
               ks == b.cles \cup {k} \cup (IF x > 0 THEN {kc} ELSE {})
               r == PayerGain(b, u, m, brut, commission, k, kc)
    <2>1. r = [dispo |-> b.dispo, bloque |-> e, gains |-> f,
               capital |-> b.capital, cles |-> ks]
      BY <1>2 DEF PayerGain, FondsDe
    <2> HIDE DEF e, f, r, x
    <2>2. r.bloque = e /\ k \in r.cles
      BY <2>1
    <2>3. Debloque(b, r, u, m, k)
      BY <1>2, <2>2, DebloqueSuffit DEF e
    <2> QED BY <2>3 DEF r
  <1> QED BY <1>1, <1>2

\* Settling a duel that was not settled before takes the effective stake from
\* each of the two that has it blocked, and nothing from anybody else.
LEMMA ReglerDebloque ==
    ASSUME NEW K, NEW b \in FondsDe(K), NEW w \in Joueurs, NEW l \in Joueurs, NEW m \in Nat,
           NEW g \in Parties, Cles \subseteq K, w # l,
           CleDe("perdant", g, Personne) \notin b.cles,
           CleDe("gagnant", g, Personne) \notin b.cles,
           NEW r, r = ReglerDuel(b, w, l, m, g)
    PROVE  /\ \A v \in Joueurs \ {w, l} : r.bloque[v] = b.bloque[v]
           /\ \A v \in {w, l} : m <= b.bloque[v] => r.bloque[v] = b.bloque[v] - m
  <1> DEFINE c  == 2 * CommissionPour(m)
             kp == CleDe("perdant", g, Personne)
             kg == CleDe("gagnant", g, Personne)
             kc == CleDe("gagnant:commission", g, Personne)
             brut == 2 * m
             b1 == ConsommerMise(b, l, m, kp)
             b2 == PayerGain(b1, w, m, brut, c, kg, kc)
             b3 == CrediterPlateforme(b2, c)
  <1>1. kp \in K /\ kg \in K /\ kc \in K /\ kp # kg
    BY CleType DEF Operations, CleDe
  <1>2. c \in Nat /\ brut \in Nat
    BY CommissionType
  <1>3. r = b3 /\ kp \notin b.cles /\ kg \notin b.cles
    BY DEF ReglerDuel, DejaRegle
  <1> HIDE DEF c, brut, kp, kg, kc
  <1>4. Augmente(K, b, b1, {kp}) /\ Debloque(b, b1, l, m, kp)
    BY <1>1, ConsommerFonds, ConsommerDebloque
  <1> HIDE DEF b1
  <1>5. b1 \in FondsDe(K) /\ kg \notin b1.cles
    BY <1>1, <1>3, <1>4 DEF Augmente
  <1>6. Augmente(K, b1, b2, {kg, kc}) /\ Debloque(b1, b2, w, m, kg)
    BY <1>1, <1>2, <1>5, PayerFonds, PayerDebloque
  <1> HIDE DEF b2
  <1>7. b2 \in FondsDe(K)
    BY <1>6 DEF Augmente
  <1>8. b3.bloque = b2.bloque
    BY <1>7 DEF CrediterPlateforme, FondsDe
  <1> HIDE DEF b3
  <1> QED BY <1>3, <1>4, <1>5, <1>6, <1>8 DEF Debloque

-----------------------------------------------------------------------------
(* What all players own together *)

Avoirs(b) == [u \in Joueurs |-> Avoir(b, u)]
Fortune(b) == MapThenSumSet(LAMBDA u : Avoir(b, u), Joueurs) + b.capital

EstTotal(h, b) ==
    h = [s \in SUBSET Joueurs |->
           IF s = {} THEN 0 ELSE Avoir(b, Elu(s)) + h[s \ {Elu(s)}]]

LEMMA FortuneSomme ==
    ASSUME IsFiniteSet(Joueurs), NEW b \in Banques
    PROVE  /\ Avoirs(b) \in [Joueurs -> Int]
           /\ Fortune(b) = Somme(Avoirs(b), Joueurs) + b.capital
  <1>1. \A u \in Joueurs : Avoir(b, u) \in Int
    BY AvoirType
  <1>2. Avoirs(b) \in [Joueurs -> Int]
    BY <1>1 DEF Avoirs
  <1>3. ASSUME NEW h PROVE EstTotal(h, b) <=> EstSomme(h, Avoirs(b), Joueurs)
    <2>1. \A s \in SUBSET Joueurs : s # {} => Avoirs(b)[Elu(s)] = Avoir(b, Elu(s))
      BY EluDedans DEF Avoirs
    <2> QED BY <2>1 DEF EstTotal, EstSomme
  <1>4. PICK h, k : /\ h = CHOOSE z : EstTotal(z, b)
                    /\ k = CHOOSE z : EstSomme(z, Avoirs(b), Joueurs)
    OBVIOUS
  <1>5. EstSomme(h, Avoirs(b), Joueurs) /\ EstSomme(k, Avoirs(b), Joueurs)
    <2>1. \E z : EstSomme(z, Avoirs(b), Joueurs)
      BY SommeExiste
    <2>2. \E z : EstTotal(z, b)
      BY <1>3, <2>1
    <2>3. EstTotal(h, b)
      BY <1>4, <2>2
    <2> QED BY <1>3, <1>4, <2>1, <2>3
  <1>6. h[Joueurs] = k[Joueurs]
    BY <1>5, SommeUnique
  <1>7. MapThenSumSet(LAMBDA u : Avoir(b, u), Joueurs) = h[Joueurs]
    BY <1>4 DEF MapThenSumSet, MapThenFoldSet, EstTotal, Elu
  <1>8. Somme(Avoirs(b), Joueurs) = k[Joueurs]
    BY <1>4 DEF Somme
  <1> QED BY <1>2, <1>6, <1>7, <1>8 DEF Fortune

\* What only moves within wallets leaves the sum.
LEMMA FortuneConservee ==
    ASSUME IsFiniteSet(Joueurs), NEW b \in Banques, NEW r, Conserve(b, r)
    PROVE  Fortune(r) = Fortune(b)
  <1>1. Avoirs(r) = Avoirs(b) /\ r \in Banques /\ r.capital = b.capital
    BY DEF Conserve, Avoirs
  <1> QED BY <1>1, FortuneSomme

\* So does what one loses, another gains in part, and the platform for the rest.
LEMMA FortuneReglee ==
    ASSUME IsFiniteSet(Joueurs), NEW b \in Banques, NEW r \in Banques,
           NEW w \in Joueurs, NEW l \in Joueurs, w # l, NEW m \in Nat, NEW c \in Nat,
           r.capital = b.capital + c,
           Avoir(r, l) = Avoir(b, l) - m,
           Avoir(r, w) = (Avoir(b, w) + m) - c,
           \A v \in Joueurs \ {w, l} : Avoir(r, v) = Avoir(b, v)
    PROVE  Fortune(r) = Fortune(b)
  <1>1. PICK F, G : F = Avoirs(b) /\ G = Avoirs(r)
    OBVIOUS
  <1>2. /\ F \in [Joueurs -> Int] /\ G \in [Joueurs -> Int]
        /\ Fortune(b) = Somme(F, Joueurs) + b.capital
        /\ Fortune(r) = Somme(G, Joueurs) + r.capital
    BY <1>1, FortuneSomme
  <1>3. /\ \A v \in Joueurs \ {w, l} : G[v] = F[v]
        /\ G[l] = F[l] - m /\ G[w] = (F[w] + m) - c
    BY <1>1 DEF Avoirs
  <1>4. PICK H : H = [F EXCEPT ![l] = F[l] - m]
    OBVIOUS
  <1>5. /\ F[l] \in Int /\ F[w] \in Int
        /\ H \in [Joueurs -> Int] /\ H[l] = F[l] - m
        /\ \A v \in Joueurs \ {l} : H[v] = F[v]
    BY <1>2, <1>4
  <1>6. \A v \in Joueurs \ {w} : G[v] = H[v]
    BY <1>3, <1>5
  <1>7. Somme(F, Joueurs) \in Int /\ Somme(H, Joueurs) = Somme(F, Joueurs) + (H[l] - F[l])
    BY <1>2, <1>5, SommeChange
  <1>8. Somme(G, Joueurs) = Somme(H, Joueurs) + (G[w] - H[w])
    BY <1>2, <1>5, <1>6, SommeChange
  <1>9. b.capital \in Nat
    BY Champs
  <1>10. H[w] = F[w]
    BY <1>5
  <1> QED BY <1>2, <1>3, <1>5, <1>7, <1>8, <1>9, <1>10

\* Wallets that hold the same, and a platform without capital.
LEMMA FortuneInitiale ==
    ASSUME IsFiniteSet(Joueurs), NEW b \in Banques, b.capital = 0,
           NEW c \in Nat, \A u \in Joueurs : Avoir(b, u) = c
    PROVE  Fortune(b) = Cardinality(Joueurs) * c
  <1>1. \A u \in Joueurs : Avoirs(b)[u] = c
    BY DEF Avoirs
  <1>2. Somme(Avoirs(b), Joueurs) = Cardinality(Joueurs) * c
    BY <1>1, FortuneSomme, SommeConstante
  <1>3. Fortune(b) = Cardinality(Joueurs) * c + 0
    BY <1>2, FortuneSomme
  <1>4. PICK n \in Nat : n = Cardinality(Joueurs)
    BY FS_CardinalityType
  <1>5. n * c + 0 = n * c
    OBVIOUS
  <1> QED BY <1>3, <1>4, <1>5
=============================================================================
