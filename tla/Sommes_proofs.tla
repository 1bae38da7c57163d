--------------------------- MODULE Sommes_proofs ---------------------------
(***************************************************************************)
(* Sums over finite sets, as MapThenSumSet computes them: a recursive      *)
(* function of the subsets, each of which gives up the element that CHOOSE *)
(* finds.  That the function exists, that there is only one and that any   *)
(* element may be given up first is shown by a smallest counterexample: a  *)
(* non-empty collection of subsets of a finite set has a minimal member.   *)
(***************************************************************************)
EXTENDS Integers, FiniteSetsExt, FiniteSetTheorems, TLAPS

Elu(s) == CHOOSE x \in s : TRUE
EstSomme(h, F, S) ==
    h = [s \in SUBSET S |-> IF s = {} THEN 0 ELSE F[Elu(s)] + h[s \ {Elu(s)}]]
Somme(F, S) == (CHOOSE h : EstSomme(h, F, S))[S]

LEMMA EluDedans ==
    ASSUME NEW s, s # {}
    PROVE  Elu(s) \in s
  BY DEF Elu

\* Among the subsets of a finite set, a non-empty collection has a smallest one:
\* the induction that the sums need.
LEMMA SousEnsembleMinimal ==
    ASSUME NEW S, IsFiniteSet(S), NEW T \in SUBSET (SUBSET S), T # {}
    PROVE  \E s \in T : \A t \in SUBSET s : t # s => t \notin T
  <1>1. IsWellFoundedOn(StrictSubsetOrdering(S), SUBSET S)
    BY FS_StrictSubsetOrderingWellFounded, FS_FiniteSubsetsOfFinite
  <1>2. PICK s \in T : \A t \in T : ~ (<<t, s>> \in StrictSubsetOrdering(S))
    BY <1>1, WFMin
  <1>3. ASSUME NEW t \in SUBSET s, t # s, t \in T PROVE FALSE
    <2>1. <<t, s>> \in (SUBSET S) \X (SUBSET S)
      BY <1>3
    <2>2. <<t, s>>[1] = t /\ <<t, s>>[2] = s
      OBVIOUS
    <2>3. <<t, s>> \in StrictSubsetOrdering(S)
      BY <1>3, <2>1, <2>2 DEF StrictSubsetOrdering
    <2> QED BY <1>2, <1>3, <2>3
  <1> QED BY <1>3

\* A sum over the subsets of S is one over the subsets of a part of S.
LEMMA SommeRestreinte ==
    ASSUME NEW S, NEW T \in SUBSET S, NEW F, NEW h, EstSomme(h, F, S)
    PROVE  EstSomme([s \in SUBSET T |-> h[s]], F, T)
  <1> DEFINE k == [s \in SUBSET T |-> h[s]]
  <1>1. ASSUME NEW s \in SUBSET T
        PROVE  k[s] = IF s = {} THEN 0 ELSE F[Elu(s)] + k[s \ {Elu(s)}]
    <2>1. s \in SUBSET S /\ s \ {Elu(s)} \in SUBSET T
      OBVIOUS
    <2>2. h[s] = IF s = {} THEN 0 ELSE F[Elu(s)] + h[s \ {Elu(s)}]
      BY <2>1 DEF EstSomme
    <2> QED BY <2>1, <2>2
  <1>2. k = [s \in SUBSET T |-> k[s]]
    OBVIOUS
  <1> HIDE DEF k
  <1>3. k = [s \in SUBSET T |-> IF s = {} THEN 0 ELSE F[Elu(s)] + k[s \ {Elu(s)}]]
    BY <1>1, <1>2
  <1> QED BY <1>3 DEF k, EstSomme

\* There is one sum only, and it looks at the elements it adds.
LEMMA SommeUnique ==
    ASSUME NEW S, IsFiniteSet(S), NEW F, NEW G, NEW h, NEW k,
           EstSomme(h, F, S), EstSomme(k, G, S),
           NEW U \in SUBSET S, \A x \in U : F[x] = G[x]
    PROVE  h[U] = k[U]
  <1>1. PICK T : T = {s \in SUBSET S : s \subseteq U /\ h[s] # k[s]}
    OBVIOUS
  <1>2. T \in SUBSET (SUBSET S)
    BY <1>1
  <1>3. ASSUME T # {} PROVE FALSE
    <2>1. PICK s \in T : \A t \in SUBSET s : t # s => t \notin T
      BY <1>2, <1>3, SousEnsembleMinimal
    <2>2. /\ s \in SUBSET S
          /\ h[s] = IF s = {} THEN 0 ELSE F[Elu(s)] + h[s \ {Elu(s)}]
          /\ k[s] = IF s = {} THEN 0 ELSE G[Elu(s)] + k[s \ {Elu(s)}]
      BY <1>1 DEF EstSomme
    <2>3. s # {} /\ h[s] # k[s] /\ s \in SUBSET U /\ s \in SUBSET S
      BY <1>1, <2>2
    <2>4. Elu(s) \in s /\ F[Elu(s)] = G[Elu(s)]
      BY <2>3, EluDedans
    <2>5. PICK t : t = s \ {Elu(s)}
      OBVIOUS
    <2>6. t \in SUBSET s /\ t # s /\ t \in SUBSET S /\ t \subseteq U
      BY <2>3, <2>4, <2>5
    <2>7. h[t] = k[t]
      BY <1>1, <2>1, <2>6
    <2> QED BY <2>2, <2>3, <2>4, <2>5, <2>7
  <1> QED BY <1>1, <1>3

\* The sum exists.
LEMMA SommeExiste ==
    ASSUME NEW S, IsFiniteSet(S), NEW F
    PROVE  \E h : EstSomme(h, F, S)
  <1> DEFINE Bon(s) == \E h : EstSomme(h, F, s)
             val(s) == (CHOOSE h : EstSomme(h, F, s))[s]
  <1>2. ASSUME NEW s \in SUBSET S, \A t \in SUBSET s : t # s => Bon(t)
        PROVE  Bon(s)
    <2> DEFINE g == [t \in SUBSET s |-> IF t = {} THEN 0
                                        ELSE F[Elu(t)] + val(t \ {Elu(t)})]
    <2>1. ASSUME NEW t \in SUBSET s, t # s PROVE g[t] = val(t)
      <3>1. PICK h : h = CHOOSE x : EstSomme(x, F, t)
        OBVIOUS
      <3>2. EstSomme(h, F, t)
        BY <1>2, <2>1, <3>1
      <3>3. h[t] = IF t = {} THEN 0 ELSE F[Elu(t)] + h[t \ {Elu(t)}]
        BY <3>2 DEF EstSomme
      <3>4. val(t) = h[t]
        BY <3>1
      <3>5. CASE t = {}
        BY <3>3, <3>4, <3>5
      <3>6. CASE t # {}
        <4>1. PICK r : r = t \ {Elu(t)}
          OBVIOUS
        <4>2. r \in SUBSET t /\ r \in SUBSET s /\ r # s
          BY <2>1, <4>1
        <4>3. PICK k : k = CHOOSE x : EstSomme(x, F, r)
          OBVIOUS
        <4>4. EstSomme(k, F, r) /\ val(r) = k[r]
          BY <1>2, <4>2, <4>3
        <4>5. PICK j : j = [z \in SUBSET r |-> h[z]]
          OBVIOUS
        <4>6. EstSomme(j, F, r) /\ j[r] = h[r]
          <5>1. EstSomme([z \in SUBSET r |-> h[z]], F, r)
            BY <3>2, <4>2, SommeRestreinte
          <5>2. r \in SUBSET r
            OBVIOUS
          <5> QED BY <4>5, <5>1, <5>2
        <4>7. IsFiniteSet(r)
          BY <4>2, FS_Subset
        <4>8. j[r] = k[r]
          BY <4>4, <4>6, <4>7, SommeUnique
        <4>9. g[t] = F[Elu(t)] + val(r)
          BY <3>6, <4>1
        <4> HIDE DEF g, val
        <4> QED BY <3>3, <3>4, <3>6, <4>1, <4>4, <4>6, <4>8, <4>9
      <3> QED BY <3>5, <3>6
    <2>2. ASSUME NEW t \in SUBSET s
          PROVE  g[t] = IF t = {} THEN 0 ELSE F[Elu(t)] + g[t \ {Elu(t)}]
      <3>1. CASE t = {}
        BY <3>1
      <3>2. CASE t # {}
        <4>1. PICK r : r = t \ {Elu(t)}
          OBVIOUS
        <4>2. Elu(t) \in t
          BY <3>2, EluDedans
        <4>3. r \in SUBSET s /\ r # s
          BY <4>1, <4>2
        <4>4. g[t] = F[Elu(t)] + val(r)
          BY <3>2, <4>1
        <4>5. g[r] = val(r)
          BY <2>1, <4>3
        <4> HIDE DEF g, val
        <4> QED BY <3>2, <4>1, <4>4, <4>5
      <3> QED BY <3>1, <3>2
    <2>3. g = [t \in SUBSET s |-> g[t]]
      OBVIOUS
    <2> HIDE DEF g
    <2>4. g = [t \in SUBSET s |-> IF t = {} THEN 0 ELSE F[Elu(t)] + g[t \ {Elu(t)}]]
      BY <2>2, <2>3
    <2> QED BY <2>4 DEF EstSomme
  <1> HIDE DEF Bon, val
  <1>3. PICK T : T = {s \in SUBSET S : ~ Bon(s)}
    OBVIOUS
  <1>4. T \in SUBSET (SUBSET S)
    BY <1>3
  <1>5. ASSUME T # {} PROVE FALSE
    <2>1. PICK s \in T : \A t \in SUBSET s : t # s => t \notin T
      BY <1>4, <1>5, SousEnsembleMinimal
    <2>2. s \in SUBSET S /\ ~ Bon(s)
      BY <1>3
    <2>3. \A t \in SUBSET s : t # s => Bon(t)
      BY <1>3, <2>1, <2>2
    <2> QED BY <1>2, <2>2, <2>3
  <1>6. Bon(S)
    BY <1>3, <1>5
  <1> QED BY <1>6 DEF Bon

\* The sum is a number, and any element may be taken out of it first.
LEMMA SommeRetire ==
    ASSUME NEW S, IsFiniteSet(S), NEW F \in [S -> Int], NEW h, EstSomme(h, F, S)
    PROVE  /\ h[{}] = 0
           /\ \A s \in SUBSET S : h[s] \in Int
           /\ \A s \in SUBSET S : \A x \in s : h[s] = F[x] + h[s \ {x}]
  <1>1. \A s \in SUBSET S : h[s] = IF s = {} THEN 0 ELSE F[Elu(s)] + h[s \ {Elu(s)}]
    BY DEF EstSomme
  <1>2. h[{}] = 0
    BY <1>1
  <1>3. PICK T : T = {s \in SUBSET S : h[s] \notin Int}
    OBVIOUS
  <1>4. PICK V : V = {s \in SUBSET S : \E x \in s : h[s] # F[x] + h[s \ {x}]}
    OBVIOUS
  <1>5. ASSUME T # {} PROVE FALSE
    <2>1. T \in SUBSET (SUBSET S)
      BY <1>3
    <2>2. PICK s \in T : \A t \in SUBSET s : t # s => t \notin T
      BY <1>5, <2>1, SousEnsembleMinimal
    <2>3. s \in SUBSET S /\ h[s] \notin Int
      BY <1>3
    <2>4. s # {} /\ s \in SUBSET S /\ h[s] \notin Int
      BY <1>2, <2>3
    <2>5. Elu(s) \in s
      BY <2>4, EluDedans
    <2>6. PICK t : t = s \ {Elu(s)}
      OBVIOUS
    <2>7. h[t] \in Int
      BY <1>3, <2>2, <2>4, <2>5, <2>6
    <2>8. F[Elu(s)] \in Int
      BY <2>4, <2>5
    <2>9. h[s] = F[Elu(s)] + h[t]
      BY <1>1, <2>4, <2>6
    <2> QED BY <2>4, <2>7, <2>8, <2>9
  <1>6. \A s \in SUBSET S : h[s] \in Int
    BY <1>3, <1>5
  <1>7. ASSUME V # {} PROVE FALSE
    <2>1. V \in SUBSET (SUBSET S)
      BY <1>4
    <2>2. PICK s \in V : \A t \in SUBSET s : t # s => t \notin V
      BY <1>7, <2>1, SousEnsembleMinimal
    <2>3. PICK x \in s : s \in SUBSET S /\ h[s] # F[x] + h[s \ {x}]
      BY <1>4
    <2>4. PICK e : e = Elu(s)
      OBVIOUS
    <2>5. e \in s /\ s \in SUBSET S /\ h[s] = F[e] + h[s \ {e}]
      BY <1>1, <2>3, <2>4, EluDedans
    <2>6. e # x
      BY <2>3, <2>5
    <2>7. PICK t, r, q : t = s \ {e} /\ r = s \ {x} /\ q = s \ {e, x}
      OBVIOUS
    <2>8. /\ t \in SUBSET S /\ r \in SUBSET S /\ q \in SUBSET S
          /\ t \in SUBSET s /\ t # s /\ r \in SUBSET s /\ r # s
          /\ x \in t /\ e \in r /\ q = t \ {x} /\ q = r \ {e}
      BY <2>5, <2>6, <2>7
    <2>9. t \notin V /\ r \notin V
      BY <2>2, <2>8
    <2>10. h[t] = F[x] + h[q] /\ h[r] = F[e] + h[q]
      BY <1>4, <2>8, <2>9
    <2>11. h[q] \in Int /\ F[x] \in Int /\ F[e] \in Int
      BY <1>6, <2>5, <2>8
    <2> QED BY <2>3, <2>5, <2>7, <2>10, <2>11
  <1>8. \A s \in SUBSET S : \A x \in s : h[s] = F[x] + h[s \ {x}]
    BY <1>4, <1>7
  <1> QED BY <1>2, <1>6, <1>8

-----------------------------------------------------------------------------
\* A sum when one term changes.
LEMMA SommeChange ==
    ASSUME NEW S, IsFiniteSet(S), NEW F \in [S -> Int], NEW G \in [S -> Int],
           NEW x \in S, \A y \in S \ {x} : G[y] = F[y]
    PROVE  /\ Somme(F, S) \in Int
           /\ Somme(G, S) = Somme(F, S) + (G[x] - F[x])
  <1>1. PICK h, k : /\ h = CHOOSE z : EstSomme(z, F, S)
                    /\ k = CHOOSE z : EstSomme(z, G, S)
    OBVIOUS
  <1>2. EstSomme(h, F, S) /\ EstSomme(k, G, S)
    BY <1>1, SommeExiste
  <1>3. Somme(F, S) = h[S] /\ Somme(G, S) = k[S]
    BY <1>1 DEF Somme
  <1>4. PICK t \in SUBSET S : t = S \ {x}
    OBVIOUS
  <1>5. S \in SUBSET S
    OBVIOUS
  <1>6. h[S] = F[x] + h[t] /\ k[S] = G[x] + k[t] /\ h[t] \in Int /\ k[t] \in Int
    <2>1. /\ \A s \in SUBSET S : h[s] \in Int
          /\ \A s \in SUBSET S : \A y \in s : h[s] = F[y] + h[s \ {y}]
      BY <1>2, SommeRetire
    <2>2. /\ \A s \in SUBSET S : k[s] \in Int
          /\ \A s \in SUBSET S : \A y \in s : k[s] = G[y] + k[s \ {y}]
      BY <1>2, SommeRetire
    <2> QED BY <1>4, <1>5, <2>1, <2>2
  <1>7. h[t] = k[t]
    BY <1>2, <1>4, SommeUnique
  <1>8. F[x] \in Int /\ G[x] \in Int
    OBVIOUS
  <1> QED BY <1>3, <1>6, <1>7, <1>8

\* A sum of equal terms.
LEMMA SommeConstante ==
    ASSUME NEW S, IsFiniteSet(S), NEW c \in Int, NEW F \in [S -> Int],
           \A x \in S : F[x] = c
    PROVE  Somme(F, S) = Cardinality(S) * c
  <1>1. PICK h : h = CHOOSE z : EstSomme(z, F, S)
    OBVIOUS
  <1>2. EstSomme(h, F, S) /\ Somme(F, S) = h[S]
    BY <1>1, SommeExiste DEF Somme
  <1>3. PICK T : T = {s \in SUBSET S : h[s] # Cardinality(s) * c}
    OBVIOUS
  <1>4. ASSUME T # {} PROVE FALSE
    <2>1. T \in SUBSET (SUBSET S)
      BY <1>3
    <2>2. PICK s \in T : \A t \in SUBSET s : t # s => t \notin T
      BY <1>4, <2>1, SousEnsembleMinimal
    <2>3. s \in SUBSET S /\ h[s] # Cardinality(s) * c /\ IsFiniteSet(s)
      BY <1>3, FS_Subset
    <2>4. CASE s = {}
      <3>1. Cardinality(s) = 0 /\ h[s] = 0
        BY <1>2, <2>4, FS_EmptySet, SommeRetire
      <3> QED BY <2>3, <3>1
    <2>5. CASE s # {}
      <3>1. PICK x \in s : TRUE
        BY <2>5
      <3>2. PICK t : t = s \ {x}
        OBVIOUS
      <3>3. Cardinality(s) \in Nat /\ Cardinality(t) = Cardinality(s) - 1
        BY <2>3, <3>1, <3>2, FS_CardinalityType, FS_RemoveElement
      <3>4. h[t] = Cardinality(t) * c
        BY <1>3, <2>2, <2>3, <3>1, <3>2
      <3>5. h[s] = c + h[t]
        <4>1. h[s] = F[x] + h[s \ {x}]
          BY <1>2, <2>3, <3>1, SommeRetire
        <4>2. x \in S
          BY <2>3
        <4> QED BY <3>2, <4>1, <4>2
      <3>6. PICK n \in Int : n = Cardinality(s)
        BY <3>3
      <3>7. c + (n - 1) * c = n * c
        OBVIOUS
      <3> QED BY <2>3, <3>3, <3>4, <3>5, <3>6, <3>7
    <2> QED BY <2>4, <2>5
  <1> QED BY <1>2, <1>4, <1>3
-----------------------------------------------------------------------------
\* Smaller terms have a smaller sum.
LEMMA SommeOrdre ==
    ASSUME NEW S, IsFiniteSet(S), NEW F \in [S -> Int], NEW G \in [S -> Int],
           \A x \in S : F[x] <= G[x]
    PROVE  /\ Somme(F, S) \in Int /\ Somme(G, S) \in Int
           /\ Somme(F, S) <= Somme(G, S)
  <1>1. PICK h, k : /\ h = CHOOSE z : EstSomme(z, F, S)
                    /\ k = CHOOSE z : EstSomme(z, G, S)
    OBVIOUS
  <1>2. EstSomme(h, F, S)
    BY <1>1, SommeExiste
  <1>3. EstSomme(k, G, S)
    BY <1>1, SommeExiste
  <1>4. Somme(F, S) = h[S] /\ Somme(G, S) = k[S]
    BY <1>1 DEF Somme
  <1>5. ASSUME NEW H \in [S -> Int], NEW z, EstSomme(z, H, S)
         PROVE  /\ z[{}] = 0
                /\ \A s \in SUBSET S : z[s] \in Int
                /\ \A s \in SUBSET S : \A y \in s : z[s] = H[y] + z[s \ {y}]
    BY <1>5, SommeRetire
  <1>6. /\ h[{}] = 0
        /\ \A s \in SUBSET S : h[s] \in Int
        /\ \A s \in SUBSET S : \A y \in s : h[s] = F[y] + h[s \ {y}]
    BY <1>2, <1>5
  <1>7. /\ k[{}] = 0
        /\ \A s \in SUBSET S : k[s] \in Int
        /\ \A s \in SUBSET S : \A y \in s : k[s] = G[y] + k[s \ {y}]
    BY <1>3, <1>5
  <1>8. PICK T : T = {s \in SUBSET S : ~ (h[s] <= k[s])}
    OBVIOUS
  <1>9. ASSUME T # {} PROVE FALSE
    <2>1. T \in SUBSET (SUBSET S)
      BY <1>8
    <2>2. PICK s \in T : \A t \in SUBSET s : t # s => t \notin T
      BY <1>9, <2>1, SousEnsembleMinimal
    <2>3. s \in SUBSET S /\ ~ (h[s] <= k[s])
      BY <1>8
    <2>4. s # {}
      <3>1. h[{}] = 0 /\ k[{}] = 0 /\ 0 <= 0
        BY <1>6, <1>7
      <3> QED BY <2>3, <3>1
    <2>5. PICK x \in s : TRUE
      BY <2>4
    <2>6. PICK t : t = s \ {x}
      OBVIOUS
    <2>7. t \in SUBSET S /\ h[t] <= k[t]
      <3>1. t \in SUBSET s /\ t # s /\ t \in SUBSET S
        BY <2>3, <2>5, <2>6
      <3> QED BY <1>8, <2>2, <3>1
    <2>8. h[s] = F[x] + h[t] /\ k[s] = G[x] + k[t]
      BY <1>6, <1>7, <2>3, <2>5, <2>6
    <2>9. /\ F[x] \in Int /\ G[x] \in Int /\ F[x] <= G[x]
          /\ h[t] \in Int /\ k[t] \in Int
      BY <1>6, <1>7, <2>3, <2>5, <2>7
    <2> QED BY <2>3, <2>7, <2>8, <2>9
  <1>10. h[S] <= k[S] /\ h[S] \in Int /\ k[S] \in Int
    BY <1>6, <1>7, <1>8, <1>9
  <1> QED BY <1>10, <1>4

\* A sum of natural numbers is one.
LEMMA SommeNaturelle ==
    ASSUME NEW S, IsFiniteSet(S), NEW F \in [S -> Nat]
    PROVE  Somme(F, S) \in Nat
  <1>1. PICK Z : Z = [y \in S |-> 0]
    OBVIOUS
  <1>2. /\ Z \in [S -> Int] /\ F \in [S -> Int]
        /\ \A y \in S : Z[y] = 0 /\ Z[y] <= F[y]
    BY <1>1
  <1>3. Somme(Z, S) = Cardinality(S) * 0
    BY <1>2, SommeConstante
  <1>4. Somme(Z, S) = 0
    <2>1. Cardinality(S) \in Nat
      BY FS_CardinalityType
    <2> QED BY <1>3, <2>1
  <1>5. Somme(Z, S) <= Somme(F, S) /\ Somme(F, S) \in Int
    BY <1>2, SommeOrdre
  <1> QED BY <1>4, <1>5

\* No term is greater than a sum of natural numbers.
LEMMA SommeMajore ==
    ASSUME NEW S, IsFiniteSet(S), NEW F \in [S -> Nat], NEW x \in S
    PROVE  Somme(F, S) \in Int /\ F[x] <= Somme(F, S)
  <1>1. PICK Z, G : /\ Z = [y \in S |-> 0]
                    /\ G = [y \in S |-> IF y = x THEN F[x] ELSE 0]
    OBVIOUS
  <1>2. /\ Z \in [S -> Int] /\ G \in [S -> Int] /\ F \in [S -> Int]
        /\ G[x] = F[x] /\ Z[x] = 0 /\ F[x] \in Int
        /\ \A y \in S : Z[y] = 0 /\ G[y] <= F[y]
        /\ \A y \in S \ {x} : G[y] = Z[y]
    BY <1>1
  <1>3. Somme(Z, S) = Cardinality(S) * 0
    BY <1>2, SommeConstante
  <1>4. Somme(Z, S) = 0
    <2>1. Cardinality(S) \in Nat
      BY FS_CardinalityType
    <2> QED BY <1>3, <2>1
  <1>5. Somme(G, S) = Somme(Z, S) + (G[x] - Z[x])
    BY <1>2, SommeChange
  <1>6. Somme(G, S) <= Somme(F, S) /\ Somme(F, S) \in Int
    BY <1>2, SommeOrdre
  <1>7. Somme(G, S) = F[x]
    BY <1>2, <1>4, <1>5
  <1> QED BY <1>6, <1>7
=============================================================================
