-------------------------- MODULE Services_proofs --------------------------
(***************************************************************************)
(* Theorems about the four machines of MCServices, each alone and all of   *)
(* them on one stage, for any number of users, matches, calls, keys,       *)
(* devices and codes.                                                      *)
(*                                                                         *)
(* Rps and Penalty: the cache alone is not inductive: what matters is what *)
(* the calls in flight are going to write.  A copy is coherent when it is  *)
(* taken, and nothing happens to it afterwards, however old it gets.       *)
(*                                                                         *)
(* Coffre: the lock is inductive together with the types: the step to      *)
(* prove is the failed attempt, which counts on from an old lock only when *)
(* that lock has been lifted.  The balance is the sum of the ledger since  *)
(* the ledger takes a key once, whatever was looked up before: a step that *)
(* changes the balance adds one entry, of just that amount.                *)
(*                                                                         *)
(* Comptes: the saves of a call commit one by one, so neither property is  *)
(* inductive by itself: AppelsJustes says what each call in flight already *)
(* has behind it, and Progres that no step takes that away again.          *)
(***************************************************************************)
EXTENDS MCServices, Sommes_proofs

USE DEF Roles, Dates, SansPin, Usages, EtatsJeton, EtatsCode

-----------------------------------------------------------------------------
(* Rps *)

(* What a call of rock-paper-scissors writes next.  A copy with a move in   *)
(* it was taken of a match in progress; the round it completes is judged.   *)
AppelSain(l) ==
    /\ l \in FormeCoup => Coherent(l.copie)
    /\ l \in FormeCoup /\ l.op = "coup" => l.copie.statut = "en_cours"
    /\ l \in FormeAcceptation => l.lu.de # l.lu.a

RpsIInv ==
    /\ RpsTypeOK
    /\ \A d \in Defis : defis[d] # Rien => defis[d].de # defis[d].a
    /\ DuelsCoherents
    /\ \A a \in Appels : appels[a] # Rien => AppelSain(appels[a])

-----------------------------------------------------------------------------
\* A slot holds a move or an acceptance, as its op says.
LEMMA Lot ==
    ASSUME NEW l \in FormeCoup \cup FormeAcceptation
    PROVE  /\ l.op = "accepter" => l \in FormeAcceptation
           /\ l.op # "accepter" => l \in FormeCoup
  BY DEF FormeCoup, FormeAcceptation

\* A new match.
LEMMA NouveauSain ==
    ASSUME NEW h \in Utilisateurs, NEW i \in Utilisateurs, NEW c \in Cibles, h # i
    PROVE  Nouveau(h, i, c) \in FormeDuel /\ Coherent(Nouveau(h, i, c))
  <1>1. c \in Nat /\ c # 0
    BY CiblesHypothese
  <1>2. Rien \notin Roles
    BY RpsRienHypothese
  <1> QED BY <1>1, <1>2 DEF Nouveau, FormeDuel, Coherent, Zero

\* The round of a match in progress is judged: the result is coherent.
LEMMA JugeeSaine ==
    ASSUME NEW c \in FormeDuel, Coherent(c), c.statut = "en_cours"
    PROVE  Jugee(c) \in FormeDuel /\ Coherent(Jugee(c))
  <1>1. /\ c.cible \in Nat /\ c.score \in [Roles -> Nat] /\ c.manche \in Nat
        /\ c.score["hote"] \in Nat /\ c.score["invite"] \in Nat
    BY CiblesHypothese DEF FormeDuel
  <1>2. c.gagnant = Rien /\ Rien \notin Roles
    BY RpsRienHypothese DEF Coherent, FormeDuel
  <1>3. \A r \in Roles : c.score[r] < c.cible
    BY <1>1, <1>2 DEF Coherent
  <1>4. ASSUME NEW r \in Roles
        PROVE  ManchePour(c, r) \in FormeDuel /\ Coherent(ManchePour(c, r))
    <2> DEFINE d == ManchePour(c, r)
               fin == c.score[r] + 1 >= c.cible
    <2>1. /\ d.hote = c.hote /\ d.invite = c.invite /\ d.cible = c.cible
          /\ d.score = [c.score EXCEPT ![r] = @ + 1]
          /\ d.manche = c.manche + 1
          /\ d.statut = IF fin THEN "termine" ELSE "en_cours"
          /\ d.gagnant = IF fin THEN r ELSE Rien
      BY <1>2 DEF ManchePour, FormeDuel
    <2>2. /\ [c.score EXCEPT ![r] = @ + 1] \in [Roles -> Nat]
          /\ c.manche + 1 \in Nat
          /\ [x \in Roles |-> Rien] \in [Roles -> Coups \cup {Rien}]
          /\ (IF fin THEN "termine" ELSE c.statut) \in {"en_cours", "termine"}
          /\ (IF fin THEN r ELSE c.gagnant) \in Roles \cup {Rien}
      BY <1>1, <1>2 DEF FormeDuel
    <2>3. d \in FormeDuel
      BY <2>2, Zenon DEF ManchePour, FormeDuel
    <2> HIDE DEF d
    <2>4. Coherent(d)
      BY <1>1, <1>2, <1>3, <2>1 DEF Coherent
    <2> QED BY <2>3, <2>4 DEF d
  <1>5. MancheNulle(c) \in FormeDuel /\ Coherent(MancheNulle(c))
    <2> DEFINE d == MancheNulle(c)
    <2>1. /\ d.hote = c.hote /\ d.invite = c.invite /\ d.cible = c.cible
          /\ d.score = c.score /\ d.manche = c.manche + 1
          /\ d.statut = c.statut /\ d.gagnant = c.gagnant
      BY DEF MancheNulle, FormeDuel
    <2>2. d \in FormeDuel
      <3>1. /\ c.manche + 1 \in Nat
            /\ [x \in Roles |-> Rien] \in [Roles -> Coups \cup {Rien}]
        BY <1>1
      <3> QED BY <3>1, Zenon DEF MancheNulle, FormeDuel
    <2> HIDE DEF d
    <2>3. Coherent(d)
      BY <1>1, <2>1 DEF Coherent
    <2> QED BY <2>2, <2>3 DEF d
  <1> QED BY <1>4, <1>5 DEF Jugee

-----------------------------------------------------------------------------
\* An empty cache.
LEMMA RpsInitial == RpsInit => RpsIInv
  BY DEF RpsInit, RpsIInv, RpsTypeOK, DuelsCoherents

\* A coherent match may be written over anything, and a slot that is free or
\* sound may be given up or taken.
LEMMA Ecriture ==
    ASSUME RpsIInv, NEW k \in Duels, NEW c \in FormeDuel \cup {Rien},
           c # Rien => Coherent(c), duels' = Mettre(duels, k, c)
    PROVE  duels' \in [Duels -> FormeDuel \cup {Rien}] /\ DuelsCoherents'
  BY DEF RpsIInv, RpsTypeOK, DuelsCoherents, Mettre

\* The slot a is left or gets something sound.
LEMMA Case ==
    ASSUME RpsIInv, NEW a \in Appels,
           NEW l \in FormeCoup \cup FormeAcceptation \cup {Rien},
           l # Rien => AppelSain(l), appels' = [appels EXCEPT ![a] = l]
    PROVE  /\ appels' \in [Appels -> FormeCoup \cup FormeAcceptation \cup {Rien}]
           /\ \A b \in Appels : appels'[b] # Rien => AppelSain(appels'[b])
  <1>1. appels \in [Appels -> FormeCoup \cup FormeAcceptation \cup {Rien}]
    BY DEF RpsIInv, RpsTypeOK
  <1>2. \A b \in Appels : appels'[b] = IF b = a THEN l ELSE appels[b]
    BY <1>1
  <1>3. ASSUME NEW b \in Appels, appels'[b] # Rien PROVE AppelSain(appels'[b])
    <2>1. CASE b = a
      BY <1>2, <1>3, <2>1
    <2>2. CASE b # a
      BY <1>2, <1>3, <2>2 DEF RpsIInv
    <2> QED BY <2>1, <2>2
  <1> QED BY <1>1, <1>3

\* Challenges.
LEMMA DefierInvariant ==
    ASSUME RpsIInv, NEW u \in Utilisateurs, NEW v \in Utilisateurs, NEW d \in Defis,
           NEW c \in Cibles, Defier(u, v, d, c)
    PROVE  RpsIInv'
  <1>1. [de |-> u, a |-> v, cible |-> c] \in FormeDefi
    BY DEF FormeDefi
  <1>2. /\ defis' \in [Defis -> FormeDefi \cup {Rien}]
        /\ \A e \in Defis : defis'[e] # Rien => defis'[e].de # defis'[e].a
    BY <1>1 DEF Defier, Mettre, RpsIInv, RpsTypeOK
  <1> QED BY <1>2 DEF Defier, RpsIInv, RpsTypeOK, DuelsCoherents

\* A challenge is read before it is accepted.
LEMMA AccepterLitInvariant ==
    ASSUME RpsIInv, NEW a \in Appels, NEW u \in Utilisateurs, NEW d \in Defis,
           AccepterLit(a, u, d)
    PROVE  RpsIInv'
  <1> DEFINE l == [op |-> "accepter", defi |-> d, lu |-> defis[d]]
  <1>1. defis[d] \in FormeDefi /\ defis[d].de # defis[d].a
    BY DEF AccepterLit, Present, RpsIInv, RpsTypeOK
  <1>2. l \in FormeAcceptation
    BY <1>1 DEF FormeAcceptation
  <1>3. l \notin FormeCoup
    BY DEF FormeCoup
  <1>4. AppelSain(l)
    BY <1>1, <1>3 DEF AppelSain
  <1>5. appels' = [appels EXCEPT ![a] = l]
    BY DEF AccepterLit
  <1> HIDE DEF l
  <1> QED BY <1>2, <1>4, <1>5, Case DEF AccepterLit, RpsIInv, RpsTypeOK, DuelsCoherents

\* The match is made of what was read, whatever became of the challenge.
LEMMA AccepterEcritInvariant ==
    ASSUME RpsIInv, NEW a \in Appels, NEW k \in Duels, AccepterEcrit(a, k)
    PROVE  RpsIInv'
  <1>1. PICK l \in FormeAcceptation : l = appels[a] /\ l.lu.de # l.lu.a
    BY Lot DEF AccepterEcrit, RpsIInv, RpsTypeOK, AppelSain
  <1>2. /\ l.lu.de \in Utilisateurs /\ l.lu.a \in Utilisateurs /\ l.lu.cible \in Cibles
        /\ l.defi \in Defis
    BY DEF FormeAcceptation, FormeDefi
  <1>3. duels' = Mettre(duels, k, Nouveau(l.lu.de, l.lu.a, l.lu.cible))
    BY <1>1 DEF AccepterEcrit
  <1>4. duels' \in [Duels -> FormeDuel \cup {Rien}] /\ DuelsCoherents'
    BY <1>1, <1>2, <1>3, NouveauSain, Ecriture
  <1>5. /\ defis' \in [Defis -> FormeDefi \cup {Rien}]
        /\ \A e \in Defis : defis'[e] # Rien => defis'[e].de # defis'[e].a
    BY <1>1, <1>2 DEF AccepterEcrit, Mettre, RpsIInv, RpsTypeOK
  <1>6. appels' = [appels EXCEPT ![a] = Rien]
    BY DEF AccepterEcrit, Rendu
  <1> QED BY <1>4, <1>5, <1>6, Case DEF AccepterEcrit, RpsIInv, RpsTypeOK

\* A rematch is a new match between the same players.
LEMMA RevancheInvariante ==
    ASSUME RpsIInv, NEW k \in Duels, NEW n \in Duels, Revanche(k, n)
    PROVE  RpsIInv'
  <1>1. duels[k] \in FormeDuel /\ duels[k].hote # duels[k].invite
    BY DEF Revanche, Present, RpsIInv, RpsTypeOK, DuelsCoherents, Coherent
  <1>2. /\ duels[k].hote \in Utilisateurs /\ duels[k].invite \in Utilisateurs
        /\ duels[k].cible \in Cibles
    BY <1>1 DEF FormeDuel
  <1>3. PICK c \in FormeDuel : Coherent(c) /\ duels' = Mettre(duels, n, c)
    BY <1>1, <1>2, NouveauSain DEF Revanche
  <1>4. duels' \in [Duels -> FormeDuel \cup {Rien}] /\ DuelsCoherents'
    BY <1>3, Ecriture
  <1> QED BY <1>4 DEF Revanche, RpsIInv, RpsTypeOK

\* A match is deleted.
LEMMA SupprimerInvariant ==
    ASSUME RpsIInv, NEW u \in Utilisateurs, NEW k \in Duels, Supprimer(u, k)
    PROVE  RpsIInv'
  <1>1. duels' \in [Duels -> FormeDuel \cup {Rien}] /\ DuelsCoherents'
    BY Ecriture DEF Supprimer
  <1> QED BY <1>1 DEF Supprimer, RpsIInv, RpsTypeOK

\* A copy is coherent when it is taken, with the move in it or without.
LEMMA JouerLitInvariant ==
    ASSUME RpsIInv, NEW a \in Appels, NEW u \in Utilisateurs, NEW k \in Joues,
           NEW r \in Roles, NEW x \in Coups, JouerLit(a, u, k, r, x)
    PROVE  RpsIInv'
  <1>1. k \in Duels
    BY JouesHypothese
  <1>2. duels[k] \in FormeDuel /\ Coherent(duels[k])
    BY <1>1 DEF JouerLit, Present, RpsIInv, RpsTypeOK, DuelsCoherents
  <1> DEFINE c == [duels[k] EXCEPT !.coups[r] = x]
  <1>3. c \in FormeDuel
    BY <1>2 DEF FormeDuel
  <1>4. /\ c.hote = duels[k].hote /\ c.invite = duels[k].invite
        /\ c.cible = duels[k].cible /\ c.score = duels[k].score
        /\ c.manche = duels[k].manche /\ c.statut = duels[k].statut
        /\ c.gagnant = duels[k].gagnant
    BY <1>2 DEF FormeDuel
  <1> HIDE DEF c
  <1>5. Coherent(c)
    BY <1>2, <1>4 DEF Coherent
  <1>6. PICK l \in FormeCoup : AppelSain(l) /\ appels' = [appels EXCEPT ![a] = l]
    <2>1. CASE CoupInutile(duels[k], r)
      <3> DEFINE l == [op |-> "reecrire", duel |-> k, copie |-> duels[k]]
      <3>1. l \in FormeCoup
        BY <1>1, <1>2 DEF FormeCoup
      <3>2. l \notin FormeAcceptation
        BY DEF FormeAcceptation
      <3>3. AppelSain(l)
        BY <1>2, <3>2 DEF AppelSain
      <3>4. appels' = [appels EXCEPT ![a] = l]
        BY <2>1 DEF JouerLit
      <3> QED BY <3>1, <3>3, <3>4
    <2>2. CASE ~ CoupInutile(duels[k], r)
      <3> DEFINE l == [op |-> "coup", duel |-> k, copie |-> c]
      <3>1. l \in FormeCoup
        BY <1>1, <1>3 DEF FormeCoup
      <3>2. l \notin FormeAcceptation
        BY DEF FormeAcceptation
      <3>3. c.statut = "en_cours"
        BY <1>2, <1>4, <2>2 DEF CoupInutile, FormeDuel
      <3>4. AppelSain(l)
        BY <1>5, <3>2, <3>3 DEF AppelSain
      <3>5. appels' = [appels EXCEPT ![a] = l]
        BY <2>2 DEF JouerLit, c
      <3> QED BY <3>1, <3>4, <3>5
    <2> QED BY <2>1, <2>2
  <1> QED BY <1>6, Case, RpsRienHypothese DEF JouerLit, RpsIInv, RpsTypeOK, DuelsCoherents

\* A copy is written, and the round it completes is judged.
LEMMA JouerEcritInvariant ==
    ASSUME RpsIInv, NEW a \in Appels, JouerEcrit(a)
    PROVE  RpsIInv'
  <1>1. PICK l \in FormeCoup : l = appels[a] /\ AppelSain(l)
    BY Lot DEF JouerEcrit, RpsIInv, RpsTypeOK
  <1>2. /\ l.duel \in Duels /\ l.copie \in FormeDuel
        /\ Coherent(l.copie)
        /\ l.op = "coup" => l.copie.statut = "en_cours"
    BY <1>1 DEF FormeCoup, AppelSain
  <1>3. duels' = Mettre(duels, l.duel, l.copie)
    BY <1>1 DEF JouerEcrit
  <1>4. duels' \in [Duels -> FormeDuel \cup {Rien}] /\ DuelsCoherents'
    BY <1>2, <1>3, Ecriture
  <1>5. PICK m \in FormeCoup \cup {Rien} :
          (m # Rien => AppelSain(m)) /\ appels' = [appels EXCEPT ![a] = m]
    <2>1. CASE l.op = "coup" /\ DeuxCoups(l.copie)
      <3> DEFINE m == [op |-> "manche", duel |-> l.duel, copie |-> Jugee(l.copie)]
      <3>1. Jugee(l.copie) \in FormeDuel /\ Coherent(Jugee(l.copie))
        BY <1>2, <2>1, JugeeSaine
      <3>2. m \in FormeCoup /\ m \notin FormeAcceptation
        BY <1>2, <3>1 DEF FormeCoup, FormeAcceptation
      <3>3. AppelSain(m)
        BY <3>1, <3>2 DEF AppelSain
      <3>4. appels' = [appels EXCEPT ![a] = m]
        BY <1>1, <2>1 DEF JouerEcrit
      <3> QED BY <3>2, <3>3, <3>4
    <2>2. CASE ~ (l.op = "coup" /\ DeuxCoups(l.copie))
      BY <1>1, <2>2 DEF JouerEcrit
    <2> QED BY <2>1, <2>2
  <1> QED BY <1>4, <1>5, Case DEF JouerEcrit, RpsIInv, RpsTypeOK

\* The judged copy is written.
LEMMA MancheEcriteInvariante ==
    ASSUME RpsIInv, NEW a \in Appels, MancheEcrite(a)
    PROVE  RpsIInv'
  <1>1. PICK l \in FormeCoup : l = appels[a] /\ AppelSain(l)
    BY Lot DEF MancheEcrite, RpsIInv, RpsTypeOK
  <1>2. l.duel \in Duels /\ l.copie \in FormeDuel /\ Coherent(l.copie)
    BY <1>1 DEF FormeCoup, AppelSain
  <1>3. duels' = Mettre(duels, l.duel, l.copie)
    BY <1>1 DEF MancheEcrite
  <1>4. duels' \in [Duels -> FormeDuel \cup {Rien}] /\ DuelsCoherents'
    BY <1>2, <1>3, Ecriture
  <1>5. appels' = [appels EXCEPT ![a] = Rien]
    BY DEF MancheEcrite, Rendu
  <1> QED BY <1>4, <1>5, Case DEF MancheEcrite, RpsIInv, RpsTypeOK

\* Every step keeps the invariant.
LEMMA RpsInvariant == RpsIInv /\ [RpsNext]_rpsVars => RpsIInv'
  <1> SUFFICES ASSUME RpsIInv, [RpsNext]_rpsVars PROVE RpsIInv'
    OBVIOUS
  <1>1. CASE UNCHANGED rpsVars
    BY <1>1 DEF rpsVars, RpsIInv, RpsTypeOK, DuelsCoherents
  <1> QED BY <1>1, DefierInvariant, AccepterLitInvariant, AccepterEcritInvariant,
             RevancheInvariante, SupprimerInvariant, JouerLitInvariant,
             JouerEcritInvariant, MancheEcriteInvariante DEF RpsNext

\* Rock, paper, scissors: no interleaving of calls that write back what they
\* read leaves a match with two winners, a winner below the target, or played
\* on with the target reached.
THEOREM DuelsToujoursCoherents == RpsSpec => []DuelsCoherents
  <1>1. RpsIInv => DuelsCoherents
    BY DEF RpsIInv
  <1> QED BY <1>1, RpsInitial, RpsInvariant, PTL DEF RpsSpec

-----------------------------------------------------------------------------
(* Penalties: as above, with one writing for each shot *)

TirSain(l) == l \in FormeTir => SeanceCoherente(l.copie)

PenaltyIInv ==
    /\ PenaltyTypeOK
    /\ SeancesCoherentes
    /\ \A a \in Appels : tirs[a] # Rien => TirSain(tirs[a])

\* A slot holds a shot or an acceptance, as its op says.
LEMMA LotTir ==
    ASSUME NEW l \in FormeTir \cup FormeAcceptationTir
    PROVE  /\ l.op = "accepter" => l \in FormeAcceptationTir
           /\ l.op # "accepter" => l \in FormeTir
  BY DEF FormeTir, FormeAcceptationTir

\* A new match: even a target of 0 does not end it before a shot.
LEMMA NouvelleSaine ==
    ASSUME NEW h \in Utilisateurs, NEW i \in Utilisateurs, NEW c \in CiblesTir
    PROVE  /\ NouvelleSeance(h, i, c) \in FormeSeance
           /\ SeanceCoherente(NouvelleSeance(h, i, c))
  <1>1. c \in Nat
    BY CiblesTirHypothese
  <1>2. Rien \notin Roles \cup Tirs
    BY TirRienHypothese
  <1> QED BY <1>1, <1>2 DEF NouvelleSeance, FormeSeance, SeanceCoherente, Zero, Tirs

\* A first shot in a match in progress.
LEMMA TirSeance ==
    ASSUME NEW c \in FormeSeance, SeanceCoherente(c), c.statut # "termine",
           NEW r \in Roles, NEW x \in Tirs, c.tirs[r] = Rien
    PROVE  Tir(c, r, x) \in FormeSeance /\ SeanceCoherente(Tir(c, r, x))
  <1> DEFINE s == IF x = "but" THEN [c.score EXCEPT ![r] = @ + 1] ELSE c.score
             fin == \E p \in Roles : s[p] >= c.cible
             g == IF ~fin THEN c.gagnant ELSE IF s["hote"] >= c.cible THEN "hote"
                                              ELSE "invite"
             t == [c.tirs EXCEPT ![r] = x]
             d == Tir(c, r, x)
  <1>1. /\ c.cible \in Nat /\ c.score \in [Roles -> Nat]
        /\ c.tirs \in [Roles -> Tirs \cup {Rien}]
        /\ c.statut = "en_cours"
    BY CiblesTirHypothese DEF FormeSeance
  <1>2. Rien \notin Roles \cup Tirs
    BY TirRienHypothese
  <1>3. c.gagnant = Rien
    BY <1>1 DEF SeanceCoherente
  <1>4. c.score[r] = 0
    BY <1>2 DEF SeanceCoherente, Tirs
  <1>5. s \in [Roles -> Nat] /\ \A p \in Roles : s[p] = IF t[p] = "but" THEN 1 ELSE 0
    <2>1. t \in [Roles -> Tirs \cup {Rien}] /\ t[r] = x
          /\ \A p \in Roles : p # r => t[p] = c.tirs[p]
      BY <1>1
    <2>2. s \in [Roles -> Nat] /\ s[r] = IF x = "but" THEN 1 ELSE 0
      BY <1>1, <1>4
    <2>3. \A p \in Roles : p # r => s[p] = c.score[p]
      BY <1>1
    <2>4. \A p \in Roles : c.score[p] = IF c.tirs[p] = "but" THEN 1 ELSE 0
      BY DEF SeanceCoherente
    <2> HIDE DEF s, t
    <2> QED BY <2>1, <2>2, <2>3, <2>4
  <1>6. g \in Roles \cup {Rien} /\ t \in [Roles -> Tirs \cup {Rien}] /\ t[r] = x
    BY <1>1, <1>3
  <1>7. d = [c EXCEPT !.tirs = t, !.score = s, !.statut = IF fin THEN "termine" ELSE @,
                      !.gagnant = g]
    BY DEF Tir
  <1>8. /\ fin => g \in Roles /\ s[g] >= c.cible
        /\ ~fin => g = Rien
    BY <1>3
  <1>9. fin <=> \E p \in Roles : s[p] >= c.cible
    OBVIOUS
  <1> HIDE DEF s, g, t, d, fin
  <1>10. /\ d \in FormeSeance
         /\ d.score = s /\ d.tirs = t /\ d.gagnant = g /\ d.cible = c.cible
         /\ d.statut = IF fin THEN "termine" ELSE "en_cours"
    BY <1>1, <1>5, <1>6, <1>7 DEF FormeSeance
  <1>11. \E p \in Roles : t[p] # Rien
    BY <1>2, <1>6
  <1>12. SeanceCoherente(d)
    BY <1>2, <1>5, <1>8, <1>9, <1>10, <1>11 DEF SeanceCoherente
  <1> QED BY <1>10, <1>12 DEF d

\* An empty cache.
LEMMA PenaltyInitial == PenaltyInit => PenaltyIInv
  BY DEF PenaltyInit, PenaltyIInv, PenaltyTypeOK, SeancesCoherentes

\* A coherent match may be written over anything.
LEMMA EcritureTir ==
    ASSUME PenaltyIInv, NEW k \in Seances, NEW c \in FormeSeance \cup {Rien},
           c # Rien => SeanceCoherente(c), seances' = Mettre(seances, k, c)
    PROVE  seances' \in [Seances -> FormeSeance \cup {Rien}] /\ SeancesCoherentes'
  BY DEF PenaltyIInv, PenaltyTypeOK, SeancesCoherentes, Mettre

\* The slot a is left or gets something sound.
LEMMA CaseTir ==
    ASSUME PenaltyIInv, NEW a \in Appels,
           NEW l \in FormeTir \cup FormeAcceptationTir \cup {Rien},
           l # Rien => TirSain(l), tirs' = [tirs EXCEPT ![a] = l]
    PROVE  /\ tirs' \in [Appels -> FormeTir \cup FormeAcceptationTir \cup {Rien}]
           /\ \A b \in Appels : tirs'[b] # Rien => TirSain(tirs'[b])
  <1>1. tirs \in [Appels -> FormeTir \cup FormeAcceptationTir \cup {Rien}]
    BY DEF PenaltyIInv, PenaltyTypeOK
  <1>2. \A b \in Appels : tirs'[b] = IF b = a THEN l ELSE tirs[b]
    BY <1>1
  <1>3. ASSUME NEW b \in Appels, tirs'[b] # Rien PROVE TirSain(tirs'[b])
    <2>1. CASE b = a
      BY <1>2, <1>3, <2>1
    <2>2. CASE b # a
      BY <1>2, <1>3, <2>2 DEF PenaltyIInv
    <2> QED BY <2>1, <2>2
  <1> QED BY <1>1, <1>3

\* Challenges are made and read.
LEMMA DefiTirInvariant ==
    ASSUME PenaltyIInv, NEW u \in Utilisateurs, NEW d \in DefisTir,
           \/ \E v \in Utilisateurs, c \in CiblesTir : DefierTir(u, v, d, c)
           \/ \E a \in Appels : AccepterTirLit(a, u, d)
    PROVE  PenaltyIInv'
  <1>1. ASSUME NEW v \in Utilisateurs, NEW c \in CiblesTir, DefierTir(u, v, d, c)
        PROVE  PenaltyIInv'
    <2>1. [de |-> u, a |-> v, cible |-> c] \in FormeDefiTir
      BY DEF FormeDefiTir
    <2>2. defisTir' \in [DefisTir -> FormeDefiTir \cup {Rien}]
      BY <1>1, <2>1 DEF DefierTir, Mettre, PenaltyIInv, PenaltyTypeOK
    <2> QED BY <1>1, <2>2 DEF DefierTir, PenaltyIInv, PenaltyTypeOK, SeancesCoherentes
  <1>2. ASSUME NEW a \in Appels, AccepterTirLit(a, u, d)
        PROVE  PenaltyIInv'
    <2> DEFINE l == [op |-> "accepter", defi |-> d, lu |-> defisTir[d]]
    <2>1. defisTir[d] \in FormeDefiTir
      BY <1>2 DEF AccepterTirLit, Present, PenaltyIInv, PenaltyTypeOK
    <2>2. l \in FormeAcceptationTir /\ l \notin FormeTir
      BY <2>1 DEF FormeAcceptationTir, FormeTir
    <2>3. TirSain(l) /\ tirs' = [tirs EXCEPT ![a] = l]
      BY <1>2, <2>2 DEF TirSain, AccepterTirLit
    <2> HIDE DEF l
    <2> QED BY <1>2, <2>2, <2>3, CaseTir
            DEF AccepterTirLit, PenaltyIInv, PenaltyTypeOK, SeancesCoherentes
  <1> QED BY <1>1, <1>2

\* A match is made of what was read of the challenge.
LEMMA AccepterTirEcritInvariant ==
    ASSUME PenaltyIInv, NEW a \in Appels, NEW k \in Seances, AccepterTirEcrit(a, k)
    PROVE  PenaltyIInv'
  <1>1. PICK l \in FormeAcceptationTir : l = tirs[a]
    BY LotTir DEF AccepterTirEcrit, PenaltyIInv, PenaltyTypeOK
  <1>2. /\ l.lu.de \in Utilisateurs /\ l.lu.a \in Utilisateurs
        /\ l.lu.cible \in CiblesTir /\ l.defi \in DefisTir
    BY DEF FormeAcceptationTir, FormeDefiTir
  <1>3. seances' = Mettre(seances, k, NouvelleSeance(l.lu.de, l.lu.a, l.lu.cible))
    BY <1>1 DEF AccepterTirEcrit
  <1>4. seances' \in [Seances -> FormeSeance \cup {Rien}] /\ SeancesCoherentes'
    BY <1>2, <1>3, NouvelleSaine, EcritureTir
  <1>5. defisTir' \in [DefisTir -> FormeDefiTir \cup {Rien}]
    BY <1>1, <1>2 DEF AccepterTirEcrit, Mettre, PenaltyIInv, PenaltyTypeOK
  <1>6. tirs' = [tirs EXCEPT ![a] = Rien]
    BY DEF AccepterTirEcrit
  <1> QED BY <1>4, <1>5, <1>6, CaseTir DEF AccepterTirEcrit, PenaltyIInv, PenaltyTypeOK

\* A shot is aimed in a copy.
LEMMA TirerLitInvariant ==
    ASSUME PenaltyIInv, NEW a \in Appels, NEW u \in Utilisateurs, NEW k \in Seances,
           NEW r \in Roles, NEW x \in Tirs, TirerLit(a, u, k, r, x)
    PROVE  PenaltyIInv'
  <1>1. seances[k] \in FormeSeance /\ SeanceCoherente(seances[k])
    BY DEF TirerLit, Present, PenaltyIInv, PenaltyTypeOK, SeancesCoherentes
  <1>2. PICK c \in FormeSeance : c = Tir(seances[k], r, x) /\ SeanceCoherente(c)
    BY <1>1, TirSeance DEF TirerLit
  <1> DEFINE l == [op |-> "tirer", seance |-> k, copie |-> c]
  <1>3. l \in FormeTir
    BY DEF FormeTir
  <1>4. TirSain(l) /\ tirs' = [tirs EXCEPT ![a] = l]
    BY <1>2 DEF TirSain, TirerLit
  <1> HIDE DEF l
  <1> QED BY <1>3, <1>4, CaseTir
          DEF TirerLit, PenaltyIInv, PenaltyTypeOK, SeancesCoherentes

\* The copy is written.
LEMMA TirerEcritInvariant ==
    ASSUME PenaltyIInv, NEW a \in Appels, TirerEcrit(a)
    PROVE  PenaltyIInv'
  <1>1. PICK l \in FormeTir : l = tirs[a] /\ TirSain(l)
    BY LotTir DEF TirerEcrit, PenaltyIInv, PenaltyTypeOK
  <1>2. l.seance \in Seances /\ l.copie \in FormeSeance /\ SeanceCoherente(l.copie)
    BY <1>1 DEF FormeTir, TirSain
  <1>3. seances' = Mettre(seances, l.seance, l.copie)
    BY <1>1 DEF TirerEcrit
  <1>4. seances' \in [Seances -> FormeSeance \cup {Rien}] /\ SeancesCoherentes'
    BY <1>2, <1>3, EcritureTir
  <1>5. tirs' = [tirs EXCEPT ![a] = Rien]
    BY DEF TirerEcrit
  <1> QED BY <1>4, <1>5, CaseTir DEF TirerEcrit, PenaltyIInv, PenaltyTypeOK

\* A rematch, or the end of an entry.
LEMMA SeanceInvariante ==
    ASSUME PenaltyIInv, NEW k \in Seances,
           \/ \E n \in Seances : RevancheTir(k, n)
           \/ \E u \in Utilisateurs : SupprimerTir(u, k)
    PROVE  PenaltyIInv'
  <1>1. ASSUME NEW n \in Seances, RevancheTir(k, n) PROVE PenaltyIInv'
    <2>1. seances[k] \in FormeSeance
      BY <1>1 DEF RevancheTir, Present, PenaltyIInv, PenaltyTypeOK
    <2>2. /\ seances[k].hote \in Utilisateurs /\ seances[k].invite \in Utilisateurs
          /\ seances[k].cible \in CiblesTir
      BY <2>1 DEF FormeSeance
    <2>3. PICK c \in FormeSeance : SeanceCoherente(c) /\ seances' = Mettre(seances, n, c)
      BY <1>1, <2>2, NouvelleSaine DEF RevancheTir
    <2>4. seances' \in [Seances -> FormeSeance \cup {Rien}] /\ SeancesCoherentes'
      BY <2>3, EcritureTir
    <2> QED BY <1>1, <2>4 DEF RevancheTir, PenaltyIInv, PenaltyTypeOK
  <1>2. ASSUME NEW u \in Utilisateurs, SupprimerTir(u, k) PROVE PenaltyIInv'
    <2>1. seances' \in [Seances -> FormeSeance \cup {Rien}] /\ SeancesCoherentes'
      BY <1>2, EcritureTir DEF SupprimerTir
    <2> QED BY <1>2, <2>1 DEF SupprimerTir, PenaltyIInv, PenaltyTypeOK
  <1> QED BY <1>1, <1>2

\* Every step keeps the invariant.
LEMMA PenaltyInvariant == PenaltyIInv /\ [PenaltyNext]_penaltyVars => PenaltyIInv'
  <1> SUFFICES ASSUME PenaltyIInv, [PenaltyNext]_penaltyVars PROVE PenaltyIInv'
    OBVIOUS
  <1>1. CASE UNCHANGED penaltyVars
    BY <1>1 DEF penaltyVars, PenaltyIInv, PenaltyTypeOK, SeancesCoherentes
  <1> QED BY <1>1, DefiTirInvariant, AccepterTirEcritInvariant, TirerLitInvariant,
             TirerEcritInvariant, SeanceInvariante DEF PenaltyNext

\* Penalties: two shots at once may lose one of them, but never the score from
\* the shots, and a match that is over names a winner with the target reached.
THEOREM SeancesToujoursCoherentes == PenaltySpec => []SeancesCoherentes
  <1>1. PenaltyIInv => SeancesCoherentes
    BY DEF PenaltyIInv
  <1> QED BY <1>1, PenaltyInitial, PenaltyInvariant, PTL DEF PenaltySpec

-----------------------------------------------------------------------------
(* Coffre *)

LignesCoffre ==
    [pin : Pins \cup {SansPin}, verrouille : BOOLEAN, bloqueJusqua : Dates,
     ouvertJusqua : Dates, essais : Nat, solde : Nat]

AppelsPossibles ==
         [op : {"libre", "verrou"}]
    \cup [op : {"depot", "retrait"}, cle : ClesDuLivre, montant : Nat]
    \cup [op : {"recharge"}, cle : ClesDuLivre]

CoffreFormes ==
    /\ pf \in LignesCoffre
    /\ livre \in [ClesDuLivre -> Mouvements \cup {Manquante}]
    /\ appelsC \in [Requetes -> AppelsPossibles]

(* BlocageCoherent of the row w *)
Blocage(w) ==
    /\ w.essais <= EssaisMax
    /\ w.essais = EssaisMax => w.bloqueJusqua # "aucune"
    /\ w.bloqueJusqua # "aucune" => w.verrouille

CoffreIInv == CoffreFormes /\ Blocage(pf)

-----------------------------------------------------------------------------
\* The parameters of the settings are positive.
LEMMA Reglages ==
    /\ Dotation \in Nat /\ Recharge \in Nat /\ EssaisMax \in Nat /\ EssaisMax >= 1
    /\ Montants \subseteq Nat
    /\ Verse \in [Depots -> Nat]
  BY CoffreHypotheses

\* An attempt first lifts a lock whose time is up; then there is no date left,
\* and the attempts are below the limit.
LEMMA Leve ==
    ASSUME NEW w \in LignesCoffre, Blocage(w), ~ (w.verrouille /\ w.bloqueJusqua = "future")
    PROVE  /\ VerrouLeve(w) \in LignesCoffre
           /\ VerrouLeve(w).essais < EssaisMax
           /\ VerrouLeve(w).bloqueJusqua = "aucune"
  <1>1. CASE w.verrouille /\ w.bloqueJusqua = "passee"
    <2>1. VerrouLeve(w) = [w EXCEPT !.verrouille = FALSE, !.essais = 0,
                                    !.bloqueJusqua = "aucune"]
      BY <1>1 DEF VerrouLeve
    <2>2. 0 \in Nat
      OBVIOUS
    <2>3. VerrouLeve(w) \in LignesCoffre
      BY <2>1, <2>2, Zenon DEF LignesCoffre
    <2>4. VerrouLeve(w).essais = 0 /\ VerrouLeve(w).bloqueJusqua = "aucune"
      BY <2>1 DEF LignesCoffre
    <2> QED BY <2>3, <2>4, Reglages
  <1>2. CASE ~ (w.verrouille /\ w.bloqueJusqua = "passee")
    <2>1. VerrouLeve(w) = w
      BY <1>2, Zenon DEF VerrouLeve
    <2>2. w.bloqueJusqua \in Dates
      BY DEF LignesCoffre
    <2>3. w.bloqueJusqua = "aucune"
      BY <1>2, <2>2, Zenon DEF Blocage
    <2>4. w.essais # EssaisMax /\ w.essais <= EssaisMax
      BY <2>3, Zenon DEF Blocage
    <2>5. w.essais \in Nat
      BY DEF LignesCoffre
    <2>6. w.essais < EssaisMax
      BY <2>4, <2>5, Reglages
    <2> QED BY <2>1, <2>3, <2>6
  <1> QED BY <1>1, <1>2

\* Both outcomes of an attempt keep the lock right.
LEMMA Essai ==
    ASSUME NEW w \in LignesCoffre, w.essais < EssaisMax, w.bloqueJusqua = "aucune"
    PROVE  /\ BonPin(w) \in LignesCoffre /\ Blocage(BonPin(w))
           /\ MauvaisPin(w) \in LignesCoffre /\ Blocage(MauvaisPin(w))
  <1>1. BonPin(w) \in LignesCoffre
    BY DEF BonPin, LignesCoffre
  <1>2. BonPin(w).essais = 0 /\ BonPin(w).bloqueJusqua = "aucune"
    BY DEF BonPin, LignesCoffre
  <1>3. Blocage(BonPin(w))
    BY <1>2, Reglages DEF Blocage
  <1>4. w.essais \in Nat
    BY DEF LignesCoffre
  <1>5. w.essais + 1 \in Nat
    BY <1>4
  <1>6. CASE w.essais + 1 >= EssaisMax
    <2>1. MauvaisPin(w) = [w EXCEPT !.essais = w.essais + 1, !.verrouille = TRUE,
                                    !.bloqueJusqua = "future"]
      BY <1>6 DEF MauvaisPin
    <2>2. MauvaisPin(w) \in LignesCoffre
      BY <1>5, <2>1, Zenon DEF LignesCoffre
    <2>3. /\ MauvaisPin(w).essais = w.essais + 1
          /\ MauvaisPin(w).bloqueJusqua = "future"
          /\ MauvaisPin(w).verrouille
      BY <2>1 DEF LignesCoffre
    <2>4. Blocage(MauvaisPin(w))
      BY <1>4, <2>3, Reglages DEF Blocage
    <2> QED BY <1>1, <1>3, <2>2, <2>4
  <1>7. CASE ~ (w.essais + 1 >= EssaisMax)
    <2>1. MauvaisPin(w) = [w EXCEPT !.essais = w.essais + 1]
      BY <1>7 DEF MauvaisPin
    <2>2. MauvaisPin(w) \in LignesCoffre
      BY <1>5, <2>1, Zenon DEF LignesCoffre
    <2>3. MauvaisPin(w).essais = w.essais + 1 /\ MauvaisPin(w).bloqueJusqua = "aucune"
      BY <2>1 DEF LignesCoffre
    <2>4. Blocage(MauvaisPin(w))
      BY <1>4, <1>7, <2>3, Reglages DEF Blocage
    <2> QED BY <1>1, <1>3, <2>2, <2>4
  <1> QED BY <1>6, <1>7

-----------------------------------------------------------------------------
\* A new wallet.
LEMMA CoffreInitial == CoffreInit => CoffreIInv
  <1> SUFFICES ASSUME CoffreInit PROVE CoffreIInv
    OBVIOUS
  <1>1. PICK credite \in BOOLEAN :
          /\ pf = [pin |-> SansPin, verrouille |-> TRUE, bloqueJusqua |-> "aucune",
                   ouvertJusqua |-> "aucune", essais |-> 0,
                   solde |-> IF credite THEN Dotation ELSE 0]
          /\ livre = [c \in ClesDuLivre |->
                        IF c = "demo-initial" /\ credite
                        THEN Entree("demo-initial", Dotation) ELSE Manquante]
    BY DEF CoffreInit
  <1>2. pf \in LignesCoffre /\ Blocage(pf)
    <2>1. pf.essais = 0 /\ pf.bloqueJusqua = "aucune"
      BY <1>1
    <2>2. pf \in LignesCoffre
      BY <1>1, Reglages DEF LignesCoffre
    <2> QED BY <2>1, <2>2, Reglages DEF Blocage
  <1>3. Entree("demo-initial", Dotation) \in Mouvements
    BY Reglages DEF Entree, Mouvements
  <1>4. livre \in [ClesDuLivre -> Mouvements \cup {Manquante}]
    BY <1>1, <1>3
  <1>5. appelsC \in [Requetes -> AppelsPossibles]
    BY DEF CoffreInit, Libre, AppelsPossibles
  <1> QED BY <1>2, <1>4, <1>5 DEF CoffreIInv, CoffreFormes

\* The services of the PIN.
LEMMA PinInvariant ==
    ASSUME CoffreIInv, NEW p \in Pins, NEW q \in Pins,
           DefinirPin(p) \/ ChangerPin(p, q) \/ Deverrouiller(p) \/ Verrouiller
    PROVE  CoffreIInv'
  <1>1. pf \in LignesCoffre /\ Blocage(pf)
    BY DEF CoffreIInv, CoffreFormes
  <1>2. UNCHANGED <<livre, appelsC>>
    BY DEF DefinirPin, ChangerPin, Deverrouiller, Verrouiller
  <1>3. pf' \in LignesCoffre /\ Blocage(pf')
    <2>1. CASE DefinirPin(p)
      <3>1. pf' \in LignesCoffre
        BY <1>1, <2>1 DEF DefinirPin, LignesCoffre
      <3>2. /\ pf'.essais = 0 /\ pf'.verrouille
            /\ pf'.bloqueJusqua = pf.bloqueJusqua
        BY <1>1, <2>1 DEF DefinirPin, LignesCoffre
      <3> QED BY <3>1, <3>2, Reglages DEF Blocage
    <2>2. CASE ChangerPin(p, q)
      <3>1. pf' \in LignesCoffre
        BY <1>1, <2>2 DEF ChangerPin, LignesCoffre
      <3>2. /\ pf'.essais = 0
            /\ pf'.bloqueJusqua = pf.bloqueJusqua
            /\ pf'.verrouille = pf.verrouille
        BY <1>1, <2>2 DEF ChangerPin, LignesCoffre
      <3> QED BY <1>1, <3>1, <3>2, Reglages DEF Blocage
    <2>3. CASE Deverrouiller(p)
      <3> DEFINE w == VerrouLeve(pf)
      <3>1. w \in LignesCoffre /\ w.essais < EssaisMax /\ w.bloqueJusqua = "aucune"
        BY <1>1, <2>3, Leve DEF Deverrouiller
      <3>2. pf' \in {BonPin(w), MauvaisPin(w)}
        BY <2>3 DEF Deverrouiller
      <3> HIDE DEF w
      <3> QED BY <3>1, <3>2, Essai
    <2>4. CASE Verrouiller
      BY <1>1, <2>4 DEF Verrouiller, LignesCoffre, Blocage
    <2> QED BY <2>1, <2>2, <2>3, <2>4
  <1> QED BY <1>2, <1>3 DEF CoffreIInv, CoffreFormes, Blocage

\* A date that comes does not open the wallet.
LEMMA DateInvariante ==
    ASSUME CoffreIInv, NEW champ \in {"bloqueJusqua", "ouvertJusqua"}, DateArrive(champ)
    PROVE  CoffreIInv'
  <1>1. pf' \in LignesCoffre
    BY DEF DateArrive, CoffreIInv, CoffreFormes, LignesCoffre
  <1>2. /\ pf'.essais = pf.essais /\ pf'.verrouille = pf.verrouille
        /\ pf'.bloqueJusqua = "aucune" <=> pf.bloqueJusqua = "aucune"
    BY DEF DateArrive, CoffreIInv, CoffreFormes, LignesCoffre
  <1> QED BY <1>1, <1>2 DEF CoffreIInv, CoffreFormes, Blocage, DateArrive

\* Calls that only read.
LEMMA LectureInvariante ==
    ASSUME CoffreIInv, NEW r \in Requetes,
           LireOuverture(r) \/ DemanderDepot(r) \/ DemanderRetrait(r)
             \/ TraiterDepot(r) \/ LireRecharge(r)
    PROVE  CoffreIInv'
  <1>1. PICK a \in AppelsPossibles : Recevoir(r, a)
    <2>1. CASE LireOuverture(r)
      BY <2>1 DEF LireOuverture, AppelsPossibles
    <2>2. CASE DemanderDepot(r) \/ DemanderRetrait(r)
      BY <2>2, Reglages DEF DemanderDepot, DemanderRetrait, LireCle, AppelsPossibles,
                            ClesDuLivre
    <2>3. CASE TraiterDepot(r)
      BY <2>3, Reglages DEF TraiterDepot, LireCle, AppelsPossibles, ClesDuLivre
    <2>4. CASE LireRecharge(r)
      BY <2>4 DEF LireRecharge, AppelsPossibles, ClesDuLivre
    <2> QED BY <2>1, <2>2, <2>3, <2>4
  <1> QED BY <1>1 DEF Recevoir, CoffreIInv, CoffreFormes, Blocage

\* An entry and the new balance are written together.
LEMMA Inscription ==
    ASSUME CoffreIInv, NEW r \in Requetes, NEW cle \in ClesDuLivre, NEW e \in Mouvements,
           NEW solde \in Nat, Inscrire(cle, e, solde), Repondre(r)
    PROVE  CoffreIInv'
  <1>1. pf' \in LignesCoffre /\ Blocage(pf')
    BY DEF Inscrire, CoffreIInv, CoffreFormes, LignesCoffre, Blocage
  <1>2. livre' \in [ClesDuLivre -> Mouvements \cup {Manquante}]
    BY DEF Inscrire, CoffreIInv, CoffreFormes
  <1>3. appelsC' \in [Requetes -> AppelsPossibles]
    BY DEF Repondre, Libre, AppelsPossibles, CoffreIInv, CoffreFormes
  <1> QED BY <1>1, <1>2, <1>3 DEF CoffreIInv, CoffreFormes, Blocage

\* Moves of money: a debit is refused when the balance does not cover it.
LEMMA MouvementInvariant ==
    ASSUME CoffreIInv, NEW r \in Requetes, Crediter(r) \/ Debiter(r) \/ Recharger(r)
    PROVE  CoffreIInv'
  <1>1. pf.solde \in Nat
    BY DEF CoffreIInv, CoffreFormes, LignesCoffre
  <1>2. appelsC[r] \in AppelsPossibles
    BY DEF CoffreIInv, CoffreFormes
  <1>3. CASE Crediter(r)
    <2>1. PICK cle \in ClesDuLivre, m \in Nat : appelsC[r].cle = cle /\ appelsC[r].montant = m
      BY <1>2, <1>3 DEF Crediter, AppelsPossibles
    <2>2. Entree("depot", m) \in Mouvements /\ pf.solde + m \in Nat
      BY <1>1 DEF Entree, Mouvements
    <2>3. Inscrire(cle, Entree("depot", m), pf.solde + m) /\ Repondre(r)
      BY <1>3, <2>1 DEF Crediter
    <2> QED BY <2>2, <2>3, Inscription
  <1>4. CASE Debiter(r)
    <2>1. PICK cle \in ClesDuLivre, m \in Nat : appelsC[r].cle = cle /\ appelsC[r].montant = m
      BY <1>2, <1>4 DEF Debiter, AppelsPossibles
    <2>2. Entree("retrait", m) \in Mouvements /\ pf.solde - m \in Nat
      BY <1>1, <1>4, <2>1 DEF Entree, Mouvements, Debiter
    <2>3. Inscrire(cle, Entree("retrait", m), pf.solde - m) /\ Repondre(r)
      BY <1>4, <2>1 DEF Debiter
    <2> QED BY <2>2, <2>3, Inscription
  <1>5. CASE Recharger(r)
    <2>1. PICK cle \in ClesDuLivre : appelsC[r].cle = cle
      BY <1>2, <1>5 DEF Recharger, AppelsPossibles
    <2>2. Entree("recharge", Recharge) \in Mouvements /\ pf.solde + Recharge \in Nat
      BY <1>1, Reglages DEF Entree, Mouvements
    <2>3. Inscrire(cle, Entree("recharge", Recharge), pf.solde + Recharge) /\ Repondre(r)
      BY <1>5, <2>1 DEF Recharger
    <2> QED BY <2>2, <2>3, Inscription
  <1> QED BY <1>3, <1>4, <1>5

\* Calls that end without an entry; the automatic lock only closes.
LEMMA FinInvariante ==
    ASSUME CoffreIInv, NEW r \in Requetes,
           VerrouAuto(r) \/ MouvementEchoue(r) \/ RechargeSansEffet(r)
    PROVE  CoffreIInv'
  <1>1. pf' \in LignesCoffre /\ Blocage(pf')
    BY DEF VerrouAuto, MouvementEchoue, RechargeSansEffet, CoffreIInv, CoffreFormes, LignesCoffre, Blocage
  <1>2. appelsC' \in [Requetes -> AppelsPossibles] /\ UNCHANGED livre
    BY DEF VerrouAuto, MouvementEchoue, RechargeSansEffet, Repondre, Libre,
           AppelsPossibles, CoffreIInv, CoffreFormes
  <1> QED BY <1>1, <1>2 DEF CoffreIInv, CoffreFormes, Blocage

\* Entries get older.
LEMMA JourInvariant ==
    ASSUME CoffreIInv, JourSuivant
    PROVE  CoffreIInv'
  <1>1. ASSUME NEW c \in ClesDuLivre, livre[c] # Manquante
        PROVE  [livre[c] EXCEPT !.duJour = FALSE] \in Mouvements
    <2>1. livre[c] \in Mouvements
      BY <1>1 DEF CoffreIInv, CoffreFormes
    <2> QED BY <2>1 DEF Mouvements
  <1>2. livre' \in [ClesDuLivre -> Mouvements \cup {Manquante}]
    BY <1>1 DEF JourSuivant
  <1> QED BY <1>2 DEF JourSuivant, CoffreIInv, CoffreFormes, Blocage

\* Every step keeps the invariant.
LEMMA CoffreInvariant == CoffreIInv /\ [CoffreNext]_coffreVars => CoffreIInv'
  <1> SUFFICES ASSUME CoffreIInv, [CoffreNext]_coffreVars PROVE CoffreIInv'
    OBVIOUS
  <1>1. ASSUME NEW p \in Pins, DefinirPin(p) \/ Deverrouiller(p) PROVE CoffreIInv'
    BY <1>1, PinInvariant
  <1>2. ASSUME NEW p \in Pins, NEW q \in Pins, ChangerPin(p, q) PROVE CoffreIInv'
    BY <1>2, PinInvariant
  <1>3. CASE Verrouiller
    BY <1>3 DEF Verrouiller, CoffreIInv, CoffreFormes, LignesCoffre, Blocage
  <1>4. ASSUME NEW champ \in {"bloqueJusqua", "ouvertJusqua"}, DateArrive(champ)
        PROVE  CoffreIInv'
    BY <1>4, DateInvariante
  <1>5. CASE JourSuivant
    BY <1>5, JourInvariant
  <1>6. ASSUME NEW r \in Requetes,
               LireOuverture(r) \/ DemanderDepot(r) \/ DemanderRetrait(r)
                 \/ TraiterDepot(r) \/ LireRecharge(r)
        PROVE  CoffreIInv'
    BY <1>6, LectureInvariante
  <1>7. ASSUME NEW r \in Requetes, Crediter(r) \/ Debiter(r) \/ Recharger(r)
        PROVE  CoffreIInv'
    BY <1>7, MouvementInvariant
  <1>8. ASSUME NEW r \in Requetes,
               VerrouAuto(r) \/ MouvementEchoue(r) \/ RechargeSansEffet(r)
        PROVE  CoffreIInv'
    BY <1>8, FinInvariante
  <1>9. CASE UNCHANGED coffreVars
    BY <1>9 DEF coffreVars, CoffreIInv, CoffreFormes, Blocage
  <1> QED BY <1>1, <1>2, <1>3, <1>4, <1>5, <1>6, <1>7, <1>8, <1>9 DEF CoffreNext

\* The inductive invariant of the wallet.
THEOREM CoffreTenu == CoffreSpec => []CoffreIInv
  <1> QED BY CoffreInitial, CoffreInvariant, PTL DEF CoffreSpec

\* Every row and every entry has legal values, and the balance is never
\* negative, whatever deposits, withdrawals and recharges overlap.
THEOREM SoldeJamaisNegatif == CoffreSpec => []CoffreTypeOK
  <1>1. CoffreIInv => CoffreTypeOK
    BY DEF CoffreIInv, CoffreFormes, LignesCoffre, AppelsPossibles, CoffreTypeOK
  <1> QED BY <1>1, CoffreTenu, PTL

\* deverrouiller_portefeuille: the failed attempts never pass the limit, and a
\* wallet with a date at which its lock ends is locked.
THEOREM BlocageInvariant == CoffreSpec => []BlocageCoherent
  <1>1. CoffreIInv => BlocageCoherent
    BY DEF CoffreIInv, Blocage, BlocageCoherent
  <1> QED BY <1>1, CoffreTenu, PTL

-----------------------------------------------------------------------------
(* The balance and the sum of the ledger *)

Livres == [ClesDuLivre -> Mouvements \cup {Manquante}]
Variations(l) == [c \in ClesDuLivre |-> Variation(l[c])]

(* SoldeEstLeGrandLivre of a ledger and a balance *)
Equilibre(l, s) == s = Somme(Variations(l), ClesDuLivre)

EstTotal(h, l) ==
    h = [s \in SUBSET ClesDuLivre |->
           IF s = {} THEN 0 ELSE Variation(l[Elu(s)]) + h[s \ {Elu(s)}]]

\* What an entry adds to the balance.
LEMMA VariationType ==
    ASSUME NEW e \in Mouvements \cup {Manquante}
    PROVE  /\ Variation(e) \in Int
           /\ e = Manquante => Variation(e) = 0
           /\ e \in Mouvements =>
                Variation(e) = IF e.genre = "retrait" THEN -e.montant ELSE e.montant
  <1>1. CASE e = Manquante
    <2>1. e.genre = "manquante"
      BY <1>1 DEF Manquante
    <2>2. e \notin Mouvements
      BY <2>1 DEF Mouvements
    <2> QED BY <2>1, <2>2 DEF Variation
  <1>2. CASE e \in Mouvements
    <2>1. e.genre \in {"demo-initial", "depot", "retrait", "recharge"} /\ e.montant \in Nat
      BY <1>2 DEF Mouvements
    <2>2. e # Manquante
      BY <2>1 DEF Manquante
    <2>3. Variation(e) = IF e.genre = "retrait" THEN -e.montant ELSE e.montant
      BY <2>1 DEF Variation
    <2> QED BY <2>1, <2>2, <2>3
  <1> QED BY <1>1, <1>2

\* What TLC sums is the sum of the variations.
LEMMA LivreSomme ==
    ASSUME IsFiniteSet(ClesDuLivre), NEW l \in Livres
    PROVE  /\ Variations(l) \in [ClesDuLivre -> Int]
           /\ MapThenSumSet(LAMBDA c : Variation(l[c]), ClesDuLivre)
                = Somme(Variations(l), ClesDuLivre)
  <1>1. \A c \in ClesDuLivre : Variation(l[c]) \in Int
    BY VariationType DEF Livres
  <1>2. Variations(l) \in [ClesDuLivre -> Int]
    BY <1>1 DEF Variations
  <1>3. ASSUME NEW h PROVE EstTotal(h, l) <=> EstSomme(h, Variations(l), ClesDuLivre)
    <2>1. \A s \in SUBSET ClesDuLivre : s # {} => Variations(l)[Elu(s)] = Variation(l[Elu(s)])
      BY EluDedans DEF Variations
    <2> QED BY <2>1 DEF EstTotal, EstSomme
  <1>4. PICK h, k : /\ h = CHOOSE z : EstTotal(z, l)
                    /\ k = CHOOSE z : EstSomme(z, Variations(l), ClesDuLivre)
    OBVIOUS
  <1>5. /\ EstSomme(h, Variations(l), ClesDuLivre)
        /\ EstSomme(k, Variations(l), ClesDuLivre)
    <2>1. \E z : EstSomme(z, Variations(l), ClesDuLivre)
      BY SommeExiste
    <2>2. \E z : EstTotal(z, l)
      BY <1>3, <2>1
    <2>3. EstTotal(h, l)
      BY <1>4, <2>2
    <2> QED BY <1>3, <1>4, <2>1, <2>3
  <1>6. h[ClesDuLivre] = k[ClesDuLivre]
    BY <1>5, SommeUnique
  <1>7. MapThenSumSet(LAMBDA c : Variation(l[c]), ClesDuLivre) = h[ClesDuLivre]
    BY <1>4 DEF MapThenSumSet, MapThenFoldSet, EstTotal, Elu
  <1>8. Somme(Variations(l), ClesDuLivre) = k[ClesDuLivre]
    BY <1>4 DEF Somme
  <1> QED BY <1>2, <1>6, <1>7, <1>8

\* A new entry changes the sum by its variation.
LEMMA EntreeSomme ==
    ASSUME IsFiniteSet(ClesDuLivre), NEW l \in Livres, NEW cle \in ClesDuLivre,
           l[cle] = Manquante, NEW e \in Mouvements, NEW m,
           m = [l EXCEPT ![cle] = e], NEW s, Equilibre(l, s)
    PROVE  m \in Livres /\ s \in Int /\ Equilibre(m, s + Variation(e))
  <1>1. m \in Livres /\ \A c \in ClesDuLivre : m[c] = IF c = cle THEN e ELSE l[c]
    BY DEF Livres
  <1>2. PICK F, G : F = Variations(l) /\ G = Variations(m)
    OBVIOUS
  <1>3. F \in [ClesDuLivre -> Int] /\ G \in [ClesDuLivre -> Int]
    BY <1>1, <1>2, LivreSomme
  <1>4. /\ F[cle] = 0 /\ G[cle] = Variation(e)
        /\ \A c \in ClesDuLivre \ {cle} : G[c] = F[c]
    BY <1>1, <1>2, VariationType DEF Variations
  <1>5. /\ Somme(F, ClesDuLivre) \in Int
        /\ Somme(G, ClesDuLivre) = Somme(F, ClesDuLivre) + (G[cle] - F[cle])
    BY <1>3, <1>4, SommeChange
  <1>6. G[cle] \in Int
    BY <1>3
  <1> QED BY <1>1, <1>2, <1>4, <1>5, <1>6 DEF Equilibre

\* A new wallet has no entry, or the one of its credit.
LEMMA EquilibreInitial ==
    ASSUME IsFiniteSet(ClesDuLivre), CoffreInit
    PROVE  Equilibre(livre, pf.solde)
  <1>1. PICK credite \in BOOLEAN :
          /\ pf = [pin |-> SansPin, verrouille |-> TRUE, bloqueJusqua |-> "aucune",
                   ouvertJusqua |-> "aucune", essais |-> 0,
                   solde |-> IF credite THEN Dotation ELSE 0]
          /\ livre = [c \in ClesDuLivre |->
                        IF c = "demo-initial" /\ credite
                        THEN Entree("demo-initial", Dotation) ELSE Manquante]
    BY DEF CoffreInit
  <1>2. PICK l : l = [c \in ClesDuLivre |-> Manquante]
    OBVIOUS
  <1>3. l \in Livres /\ \A c \in ClesDuLivre : l[c] = Manquante
    BY <1>2 DEF Livres
  <1>4. Equilibre(l, 0)
    <2>1. Variations(l) \in [ClesDuLivre -> Int]
      BY <1>3, LivreSomme
    <2>2. \A c \in ClesDuLivre : Variations(l)[c] = 0
      BY <1>3, VariationType DEF Variations
    <2>3. Somme(Variations(l), ClesDuLivre) = Cardinality(ClesDuLivre) * 0
      BY <2>1, <2>2, SommeConstante
    <2>4. Cardinality(ClesDuLivre) \in Nat
      BY FS_CardinalityType
    <2> QED BY <2>3, <2>4 DEF Equilibre
  <1>5. CASE ~ credite
    <2>1. livre = l /\ pf.solde = 0
      BY <1>1, <1>2, <1>5
    <2> QED BY <1>4, <2>1
  <1>6. CASE credite
    <2>1. PICK e : e = Entree("demo-initial", Dotation)
      OBVIOUS
    <2>2. e \in Mouvements /\ e.genre = "demo-initial" /\ e.montant = Dotation
      BY <2>1, Reglages DEF Entree, Mouvements
    <2>3. "demo-initial" \in ClesDuLivre
      BY DEF ClesDuLivre
    <2>4. livre = [l EXCEPT !["demo-initial"] = e]
      BY <1>1, <1>2, <1>6, <2>1
    <2>5. Equilibre(livre, 0 + Variation(e))
      BY <1>3, <1>4, <2>2, <2>3, <2>4, EntreeSomme
    <2>6. Variation(e) = Dotation
      BY <2>2, VariationType
    <2>7. 0 + Variation(e) = Dotation
      BY <2>6, Reglages
    <2>8. pf.solde = Dotation
      BY <1>1, <1>6
    <2> QED BY <2>5, <2>7, <2>8
  <1> QED BY <1>5, <1>6

\* Deposits, withdrawals and recharges write an entry of what they move.
LEMMA MouvementEquilibre ==
    ASSUME IsFiniteSet(ClesDuLivre), CoffreIInv, Equilibre(livre, pf.solde),
           NEW r \in Requetes, Crediter(r) \/ Debiter(r) \/ Recharger(r)
    PROVE  Equilibre(livre', pf'.solde)
  <1>1. livre \in Livres /\ pf \in LignesCoffre /\ pf.solde \in Nat
    BY DEF CoffreIInv, CoffreFormes, LignesCoffre, Livres
  <1>2. appelsC[r] \in AppelsPossibles
    BY DEF CoffreIInv, CoffreFormes
  <1>3. ASSUME NEW cle \in ClesDuLivre, livre[cle] = Manquante, NEW e \in Mouvements,
               NEW s \in Int, Inscrire(cle, e, s), s = pf.solde + Variation(e)
        PROVE  Equilibre(livre', pf'.solde)
    <2>1. livre' = [livre EXCEPT ![cle] = e]
      BY <1>3 DEF Inscrire
    <2>2. pf'.solde = s
      BY <1>1, <1>3 DEF Inscrire, LignesCoffre
    <2>3. Equilibre(livre', pf.solde + Variation(e))
      BY <1>1, <1>3, <2>1, EntreeSomme
    <2> QED BY <1>3, <2>2, <2>3
  <1>4. CASE Crediter(r)
    <2>1. PICK cle \in ClesDuLivre, m \in Nat : appelsC[r].cle = cle /\ appelsC[r].montant = m
      BY <1>2, <1>4 DEF Crediter, AppelsPossibles
    <2>2. PICK e : e = Entree("depot", m)
      OBVIOUS
    <2>3. e \in Mouvements /\ Variation(e) = m
      <3>1. e \in Mouvements /\ e.genre = "depot" /\ e.montant = m
        BY <2>2 DEF Entree, Mouvements
      <3> QED BY <3>1, VariationType
    <2>4. Inscrire(cle, e, pf.solde + m) /\ livre[cle] = Manquante
      BY <1>4, <2>1, <2>2 DEF Crediter, Inscriptible
    <2>5. pf.solde + m \in Int
      BY <1>1
    <2> QED BY <1>3, <2>3, <2>4, <2>5
  <1>5. CASE Debiter(r)
    <2>1. PICK cle \in ClesDuLivre, m \in Nat : appelsC[r].cle = cle /\ appelsC[r].montant = m
      BY <1>2, <1>5 DEF Debiter, AppelsPossibles
    <2>2. PICK e : e = Entree("retrait", m)
      OBVIOUS
    <2>3. e \in Mouvements /\ Variation(e) = -m
      <3>1. e \in Mouvements /\ e.genre = "retrait" /\ e.montant = m
        BY <2>2 DEF Entree, Mouvements
      <3> QED BY <3>1, VariationType
    <2>4. Inscrire(cle, e, pf.solde - m) /\ livre[cle] = Manquante
      BY <1>5, <2>1, <2>2 DEF Debiter, Inscriptible
    <2>5. pf.solde - m \in Int /\ pf.solde - m = pf.solde + (-m)
      BY <1>1
    <2> QED BY <1>3, <2>3, <2>4, <2>5
  <1>6. CASE Recharger(r)
    <2>1. PICK cle \in ClesDuLivre : appelsC[r].cle = cle
      BY <1>2, <1>6 DEF Recharger, AppelsPossibles
    <2>2. PICK e : e = Entree("recharge", Recharge)
      OBVIOUS
    <2>3. e \in Mouvements /\ Variation(e) = Recharge
      <3>1. e \in Mouvements /\ e.genre = "recharge" /\ e.montant = Recharge
        BY <2>2, Reglages DEF Entree, Mouvements
      <3> QED BY <3>1, VariationType
    <2>4. Inscrire(cle, e, pf.solde + Recharge) /\ livre[cle] = Manquante
      BY <1>6, <2>1, <2>2 DEF Recharger
    <2>5. pf.solde + Recharge \in Int
      BY <1>1, Reglages
    <2> QED BY <1>3, <2>3, <2>4, <2>5
  <1> QED BY <1>4, <1>5, <1>6

\* Every other step leaves the balance and what the entries say.
LEMMA AutresEquilibre ==
    ASSUME CoffreIInv, [CoffreNext]_coffreVars,
           \A r \in Requetes : ~ (Crediter(r) \/ Debiter(r) \/ Recharger(r))
    PROVE  pf'.solde = pf.solde /\ Variations(livre') = Variations(livre)
  <1>1. livre \in Livres /\ pf \in LignesCoffre
    BY DEF CoffreIInv, CoffreFormes, Livres
  <1>2. CASE JourSuivant
    <2>1. ASSUME NEW c \in ClesDuLivre PROVE Variation(livre'[c]) = Variation(livre[c])
      <3>1. CASE livre[c] = Manquante
        BY <1>2, <3>1 DEF JourSuivant
      <3>2. CASE livre[c] # Manquante
        <4>1. livre[c] \in Mouvements
          BY <1>1, <3>2 DEF Livres
        <4>2. livre'[c] = [livre[c] EXCEPT !.duJour = FALSE]
          BY <1>2, <3>2 DEF JourSuivant
        <4>3. /\ livre'[c] \in Mouvements /\ livre'[c].genre = livre[c].genre
              /\ livre'[c].montant = livre[c].montant
          BY <4>1, <4>2 DEF Mouvements
        <4> QED BY <4>1, <4>3, VariationType
      <3> QED BY <3>1, <3>2
    <2>2. Variations(livre') = Variations(livre)
      BY <2>1 DEF Variations
    <2> QED BY <1>2, <2>2 DEF JourSuivant
  <1>3. ASSUME NEW p \in Pins, NEW q \in Pins,
               DefinirPin(p) \/ ChangerPin(p, q)
        PROVE  pf'.solde = pf.solde /\ UNCHANGED livre
    BY <1>1, <1>3 DEF DefinirPin, ChangerPin, LignesCoffre
  <1>4. ASSUME NEW p \in Pins, Deverrouiller(p)
        PROVE  pf'.solde = pf.solde /\ UNCHANGED livre
    <2>1. ASSUME NEW w \in LignesCoffre
          PROVE  /\ BonPin(w).solde = w.solde /\ MauvaisPin(w).solde = w.solde
                 /\ VerrouLeve(w).solde = w.solde
      BY <2>1 DEF BonPin, MauvaisPin, VerrouLeve, LignesCoffre
    <2>2. VerrouLeve(pf) \in LignesCoffre
      BY <1>4, Leve DEF CoffreIInv, CoffreFormes, Deverrouiller
    <2>3. pf' \in {BonPin(VerrouLeve(pf)), MauvaisPin(VerrouLeve(pf))} /\ UNCHANGED livre
      BY <1>4 DEF Deverrouiller
    <2> QED BY <1>1, <2>1, <2>2, <2>3
  <1>5. ASSUME Verrouiller \/ \E champ \in {"bloqueJusqua", "ouvertJusqua"} : DateArrive(champ)
        PROVE  pf'.solde = pf.solde /\ UNCHANGED livre
    BY <1>1, <1>5 DEF Verrouiller, DateArrive, LignesCoffre
  <1>6. ASSUME NEW r \in Requetes,
               LireOuverture(r) \/ DemanderDepot(r) \/ DemanderRetrait(r)
                 \/ TraiterDepot(r) \/ LireRecharge(r)
        PROVE  pf'.solde = pf.solde /\ UNCHANGED livre
    BY <1>6 DEF LireOuverture, DemanderDepot, DemanderRetrait, TraiterDepot, LireRecharge,
                LireCle, Recevoir
  <1>7. ASSUME NEW r \in Requetes,
               VerrouAuto(r) \/ MouvementEchoue(r) \/ RechargeSansEffet(r)
        PROVE  pf'.solde = pf.solde /\ UNCHANGED livre
    BY <1>1, <1>7 DEF VerrouAuto, MouvementEchoue, RechargeSansEffet, LignesCoffre
  <1>8. CASE UNCHANGED coffreVars
    BY <1>8 DEF coffreVars
  <1> QED BY <1>2, <1>3, <1>4, <1>5, <1>6, <1>7, <1>8 DEF CoffreNext

\* crediter, debiter, recharger_demo, the webhook and the credit of a new
\* wallet: whatever calls are repeated or overlap, the balance is the sum of the
\* entries of the ledger.  Clients and webhooks have sent finitely many keys.
THEOREM SoldeSelonLivre ==
    ASSUME IsFiniteSet(Cles), IsFiniteSet(Depots)
    PROVE  CoffreSpec => []SoldeEstLeGrandLivre
  <1>1. IsFiniteSet(ClesDuLivre)
    BY FS_Union, FS_Singleton DEF ClesDuLivre
  <1>2. CoffreInit => Equilibre(livre, pf.solde)
    BY <1>1, EquilibreInitial
  <1>3. ASSUME CoffreIInv, Equilibre(livre, pf.solde), [CoffreNext]_coffreVars
        PROVE  Equilibre(livre, pf.solde)'
    <2>1. CASE \E r \in Requetes : Crediter(r) \/ Debiter(r) \/ Recharger(r)
      BY <1>1, <1>3, <2>1, MouvementEquilibre
    <2>2. CASE \A r \in Requetes : ~ (Crediter(r) \/ Debiter(r) \/ Recharger(r))
      BY <1>3, <2>2, AutresEquilibre DEF Equilibre
    <2> QED BY <2>1, <2>2
  <1>4. CoffreIInv /\ Equilibre(livre, pf.solde) => SoldeEstLeGrandLivre
    <2> SUFFICES ASSUME CoffreIInv, Equilibre(livre, pf.solde) PROVE SoldeEstLeGrandLivre
      OBVIOUS
    <2>1. livre \in Livres
      BY DEF CoffreIInv, CoffreFormes, Livres
    <2> QED BY <1>1, <2>1, LivreSomme DEF Equilibre, SoldeEstLeGrandLivre
  <1> QED BY <1>2, <1>3, <1>4, CoffreTenu, PTL DEF CoffreSpec

-----------------------------------------------------------------------------
(* Comptes *)

Jeton == [etat : EtatsJeton, parent : Nat]

Etapes ==
         [op : {"fini", "inscription", "connexion", "deconnexion", "revocation"}]
    \cup [op : {"jeton"}, parent : Nat]
    \cup [op : {"rotation"}, jeton : Nat]
    \cup [op : {"code"}, usage : Usages, rang : Nat]
    \cup [op : {"effet"}, usage : {"email_verify", "password_reset"}]

ComptesFormes ==
    /\ compte \in [inscrit : BOOLEAN, emailVerifie : BOOLEAN, enLigne : BOOLEAN,
                   change : BOOLEAN]
    /\ jetons \in Seq(Jeton)
    /\ codes \in [Usages -> Seq(EtatsCode)]
    /\ appelsA \in [Appareils -> Etapes]

(* The token n is there and revoked *)
Revoque(n) == n \in DOMAIN jetons /\ jetons[n].etat = "revoque"

JetonsJustes ==
    \A j \in DOMAIN jetons : jetons[j].parent # 0 => Revoque(jetons[j].parent)

(* What the call c relies on when it writes next *)
AppelJuste(c) ==
    /\ c.op = "jeton" => c.parent = 0 \/ Revoque(c.parent)
    /\ c.op = "rotation" => c.jeton \in DOMAIN jetons
    /\ c.op = "code" => c.rang \in DOMAIN codes[c.usage]
    /\ c.op = "effet" => CodesUtilises(c.usage) # {}

AppelsJustes == \A a \in Appareils : AppelJuste(appelsA[a])

ComptesIInv == ComptesFormes /\ JetonsJustes /\ AppelsJustes /\ EffetsParCode

(* No row disappears, a revoked token stays revoked and keeps the one it was *)
(* exchanged for, and a used code stays used.                                *)
Progres ==
    /\ \A j \in DOMAIN jetons :
         /\ j \in DOMAIN jetons'
         /\ jetons'[j].parent = jetons[j].parent
         /\ jetons[j].etat = "revoque" => jetons'[j].etat = "revoque"
    /\ \A u \in Usages : \A n \in DOMAIN codes[u] :
         /\ n \in DOMAIN codes'[u]
         /\ codes[u][n] = "utilise" => codes'[u][n] = "utilise"

-----------------------------------------------------------------------------
\* What a row of the tokens looks like after it is given a new state.
LEMMA JetonChange ==
    ASSUME NEW s \in Seq(Jeton), NEW j \in DOMAIN s, NEW e \in EtatsJeton,
           NEW t, t = [s EXCEPT ![j].etat = e]
    PROVE  /\ t \in Seq(Jeton)
           /\ DOMAIN t = DOMAIN s
           /\ \A n \in DOMAIN s : /\ t[n].parent = s[n].parent
                                  /\ t[n].etat = IF n = j THEN e ELSE s[n].etat
  <1>1. s[j] \in Jeton
    OBVIOUS
  <1>2. [s[j] EXCEPT !.etat = e] \in Jeton
    BY <1>1 DEF Jeton
  <1>3. t = [s EXCEPT ![j] = [s[j] EXCEPT !.etat = e]]
    OBVIOUS
  <1>4. t \in Seq(Jeton) /\ DOMAIN t = DOMAIN s
    BY <1>2, <1>3
  <1>5. ASSUME NEW n \in DOMAIN s
        PROVE  /\ t[n].parent = s[n].parent
               /\ t[n].etat = IF n = j THEN e ELSE s[n].etat
    <2>1. s[n] \in Jeton
      OBVIOUS
    <2>2. CASE n = j
      BY <2>1, <2>2, <1>3 DEF Jeton
    <2>3. CASE n # j
      BY <2>3, <1>3
    <2> QED BY <2>2, <2>3
  <1> QED BY <1>4, <1>5

\* What the codes of a usage look like after one of them changes.
LEMMA CodeChange ==
    ASSUME NEW s \in Seq(EtatsCode), NEW j \in DOMAIN s, NEW e \in EtatsCode,
           NEW t, t = [s EXCEPT ![j] = e]
    PROVE  /\ t \in Seq(EtatsCode)
           /\ DOMAIN t = DOMAIN s
           /\ \A n \in DOMAIN s : t[n] = IF n = j THEN e ELSE s[n]
  OBVIOUS

\* A new row comes last and leaves the older ones alone.
LEMMA Ajout ==
    ASSUME NEW S, NEW s \in Seq(S), NEW x \in S, NEW t, t = Append(s, x)
    PROVE  /\ t \in Seq(S)
           /\ DOMAIN t = DOMAIN s \cup {Len(s) + 1}
           /\ \A n \in DOMAIN s : t[n] = s[n]
           /\ t[Len(s) + 1] = x
  OBVIOUS

-----------------------------------------------------------------------------
(* The steps that leave the rows alone *)
SansLigne == UNCHANGED <<jetons, codes>>

\* Steps that write no token and no code.
LEMMA Immobile ==
    ASSUME SansLigne
    PROVE  Progres
  BY DEF SansLigne, Progres

(* The steps that change the state of one token, from j to e *)
Marque(j, e) ==
    /\ j \in DOMAIN jetons
    /\ jetons' = [jetons EXCEPT ![j].etat = e]
    /\ UNCHANGED codes

\* A token that was not revoked may change, and one that was is revoked again.
LEMMA MarqueProgres ==
    ASSUME ComptesFormes, NEW j, NEW e \in EtatsJeton, Marque(j, e),
           jetons[j].etat = "revoque" => e = "revoque"
    PROVE  /\ Progres
           /\ jetons' \in Seq(Jeton)
           /\ DOMAIN jetons' = DOMAIN jetons
           /\ e = "revoque" => Revoque(j)'
  <1>1. jetons \in Seq(Jeton) /\ j \in DOMAIN jetons
    BY DEF ComptesFormes, Marque
  <1>2. /\ jetons' \in Seq(Jeton)
        /\ DOMAIN jetons' = DOMAIN jetons
        /\ \A n \in DOMAIN jetons :
             /\ jetons'[n].parent = jetons[n].parent
             /\ jetons'[n].etat = IF n = j THEN e ELSE jetons[n].etat
    BY <1>1, JetonChange DEF Marque
  <1> QED BY <1>1, <1>2 DEF Progres, Marque, Revoque

(* The steps that change one code *)
MarqueCode(u, n, e) ==
    /\ u \in Usages
    /\ n \in DOMAIN codes[u]
    /\ codes' = [codes EXCEPT ![u][n] = e]
    /\ UNCHANGED jetons

\* A code that was not used may change, and one that was is used again.
LEMMA MarqueCodeProgres ==
    ASSUME ComptesFormes, NEW u, NEW n, NEW e \in EtatsCode, MarqueCode(u, n, e),
           codes[u][n] = "utilise" => e = "utilise"
    PROVE  /\ Progres
           /\ codes' \in [Usages -> Seq(EtatsCode)]
           /\ e = "utilise" => CodesUtilises(u)' # {}
  <1> DEFINE t == [codes[u] EXCEPT ![n] = e]
  <1>1. codes \in [Usages -> Seq(EtatsCode)] /\ u \in Usages /\ n \in DOMAIN codes[u]
    BY DEF ComptesFormes, MarqueCode
  <1>2. codes[u] \in Seq(EtatsCode)
    BY <1>1
  <1>3. /\ t \in Seq(EtatsCode)
        /\ DOMAIN t = DOMAIN codes[u]
        /\ \A m \in DOMAIN codes[u] : t[m] = IF m = n THEN e ELSE codes[u][m]
    BY <1>1, <1>2, CodeChange
  <1> HIDE DEF t
  <1>4. codes' = [codes EXCEPT ![u] = t]
    BY <1>1 DEF MarqueCode, t
  <1>5. codes' \in [Usages -> Seq(EtatsCode)] /\ codes'[u] = t
    BY <1>1, <1>3, <1>4
  <1>6. \A v \in Usages : v # u => codes'[v] = codes[v]
    BY <1>1, <1>4
  <1>7. Progres
    BY <1>3, <1>5, <1>6 DEF Progres, MarqueCode
  <1>8. e = "utilise" => CodesUtilises(u)' # {}
    BY <1>1, <1>3, <1>5 DEF CodesUtilises
  <1> QED BY <1>5, <1>7, <1>8

-----------------------------------------------------------------------------
\* No step of a call moves another call.
LEMMA Suite ==
    ASSUME ComptesFormes, NEW a \in Appareils, NEW suite \in Etapes, Continuer(a, suite)
    PROVE  /\ appelsA' \in [Appareils -> Etapes]
           /\ appelsA'[a] = suite
           /\ \A b \in Appareils : b # a => appelsA'[b] = appelsA[b]
  BY DEF ComptesFormes, Continuer

\* What a call relies on stays true while the rows only move on.
LEMMA AppelReste ==
    ASSUME Progres, ComptesFormes, NEW c \in Etapes, AppelJuste(c)
    PROVE  AppelJuste(c)'
  <1>1. \A n : Revoque(n) => Revoque(n)'
    BY DEF Progres, Revoque
  <1>2. \A u \in Usages : CodesUtilises(u) # {} => CodesUtilises(u)' # {}
    BY DEF Progres, CodesUtilises
  <1>3. c.op = "code" => c.usage \in Usages
    BY DEF Etapes
  <1>4. c.op = "effet" => c.usage \in Usages
    BY DEF Etapes
  <1>5. c.op = "jeton" => c.parent = 0 \/ Revoque(c.parent)'
    BY <1>1 DEF AppelJuste
  <1>6. c.op = "rotation" => c.jeton \in DOMAIN jetons'
    BY DEF AppelJuste, Progres
  <1>7. c.op = "code" => c.rang \in DOMAIN codes'[c.usage]
    BY <1>3 DEF AppelJuste, Progres
  <1>8. c.op = "effet" => CodesUtilises(c.usage)' # {}
    BY <1>2, <1>4 DEF AppelJuste
  <1> QED BY <1>5, <1>6, <1>7, <1>8 DEF AppelJuste

\* If the rows only move on and the call of one device goes on with a step it
\* may take, every call may still take its step.
LEMMA AppelsSuivent ==
    ASSUME ComptesIInv, Progres, NEW a \in Appareils, NEW suite \in Etapes,
           Continuer(a, suite), AppelJuste(suite)'
    PROVE  AppelsJustes'
  <1>1. ASSUME NEW b \in Appareils, NEW c, c = appelsA'[b]
        PROVE  AppelJuste(c)'
    <2>1. CASE b = a
      <3>1. c = suite
        BY <1>1, <2>1, Suite DEF ComptesIInv
      <3> QED BY <3>1
    <2>2. CASE b # a
      <3>1. c = appelsA[b]
        BY <1>1, <2>2, Suite DEF ComptesIInv
      <3>2. c \in Etapes
        BY <3>1 DEF ComptesIInv, ComptesFormes
      <3>3. AppelJuste(c)
        BY <3>1 DEF ComptesIInv, AppelsJustes, AppelJuste
      <3> QED BY <3>2, <3>3, AppelReste DEF ComptesIInv
    <2> QED BY <2>1, <2>2
  <1> QED BY <1>1 DEF AppelsJustes, AppelJuste

-----------------------------------------------------------------------------
\* No new token and none unrevoked: the rotation stays as it was.
LEMMA JetonsRestent ==
    ASSUME ComptesIInv, Progres, DOMAIN jetons' = DOMAIN jetons
    PROVE  JetonsJustes'
  BY DEF ComptesIInv, JetonsJustes, Revoque, Progres

\* Nothing is done without a code unless an effect is new.
LEMMA EffetsRestent ==
    ASSUME ComptesIInv, Progres,
           compte'.change => compte.change,
           compte'.emailVerifie => compte.emailVerifie
    PROVE  EffetsParCode'
  <1>1. \A u \in Usages : CodesUtilises(u) # {} => CodesUtilises(u)' # {}
    BY DEF Progres, CodesUtilises
  <1> QED BY <1>1 DEF ComptesIInv, EffetsParCode

\* The rows move on, no token is new, no effect is new.
LEMMA Routine ==
    ASSUME ComptesIInv, Progres, DOMAIN jetons' = DOMAIN jetons, UNCHANGED compte,
           jetons' \in Seq(Jeton), codes' \in [Usages -> Seq(EtatsCode)],
           NEW a \in Appareils, NEW suite \in Etapes, Continuer(a, suite),
           AppelJuste(suite)'
    PROVE  ComptesIInv'
  <1>1. ComptesFormes'
    BY Suite DEF ComptesIInv, ComptesFormes
  <1> QED BY <1>1, JetonsRestent, EffetsRestent, AppelsSuivent DEF ComptesIInv

\* The same for the steps of the account itself, which no call takes.
LEMMA RoutineSansAppel ==
    ASSUME ComptesIInv, Progres, DOMAIN jetons' = DOMAIN jetons, UNCHANGED <<compte, appelsA>>,
           jetons' \in Seq(Jeton), codes' \in [Usages -> Seq(EtatsCode)]
    PROVE  ComptesIInv'
  <1>1. ComptesFormes'
    BY DEF ComptesIInv, ComptesFormes
  <1>2. ASSUME NEW b \in Appareils, NEW c, c = appelsA[b]
        PROVE  AppelJuste(c)'
    <2>1. c \in Etapes /\ AppelJuste(c)
      BY <1>2 DEF ComptesIInv, ComptesFormes, AppelsJustes, AppelJuste
    <2> QED BY <2>1, AppelReste DEF ComptesIInv
  <1>3. AppelsJustes'
    BY <1>2 DEF AppelsJustes, AppelJuste
  <1> QED BY <1>1, <1>3, JetonsRestent, EffetsRestent DEF ComptesIInv

\* A call that begins changes nothing else.
LEMMA Debut ==
    ASSUME ComptesIInv, NEW a \in Appareils, NEW suite \in Etapes, Commencer(a, suite),
           AppelJuste(suite)
    PROVE  ComptesIInv'
  <1>1. Progres
    BY Immobile DEF Commencer, SansLigne
  <1>2. AppelJuste(suite)'
    BY DEF Commencer, AppelJuste, Revoque, CodesUtilises
  <1>3. Continuer(a, suite)
    BY DEF Commencer, Continuer
  <1> QED BY <1>1, <1>2, <1>3, Routine DEF Commencer, ComptesIInv, ComptesFormes

\* The steps a call may always take.
LEMMA SansAppel ==
    ASSUME NEW o \in {"fini", "inscription", "connexion", "deconnexion", "revocation"}
    PROVE  [op |-> o] \in Etapes /\ AppelJuste([op |-> o]) /\ AppelJuste([op |-> o])'
  BY DEF Etapes, AppelJuste

\* A call in flight is one of the steps.
LEMMA Appel ==
    ASSUME ComptesIInv, NEW a \in Appareils
    PROVE  appelsA[a] \in Etapes /\ AppelJuste(appelsA[a])
  BY DEF ComptesIInv, ComptesFormes, AppelsJustes

-----------------------------------------------------------------------------
\* The empty account.
LEMMA ComptesInitial == ComptesInit => ComptesIInv
  <1> SUFFICES ASSUME ComptesInit PROVE ComptesIInv
    OBVIOUS
  <1>1. Fini \in Etapes /\ AppelJuste(Fini)
    BY SansAppel DEF Fini
  <1>2. ComptesFormes
    BY <1>1 DEF ComptesInit, ComptesFormes
  <1>3. JetonsJustes /\ EffetsParCode
    BY DEF ComptesInit, JetonsJustes, EffetsParCode
  <1>4. AppelsJustes
    BY DEF ComptesInit, AppelsJustes, AppelJuste, Fini
  <1> QED BY <1>2, <1>3, <1>4 DEF ComptesIInv

\* Registration and login.
LEMMA EntreeInvariante ==
    ASSUME ComptesIInv, NEW a \in Appareils,
           Register(a) \/ Enregistrer(a) \/ Login(a) \/ MettreEnLigne(a)
             \/ MettreHorsLigne(a) \/ Mourir(a)
    PROVE  ComptesIInv' /\ Progres
  <1>1. Progres
    BY Immobile DEF SansLigne, Register, Enregistrer, Login, MettreEnLigne,
                    MettreHorsLigne, Mourir, Commencer
  <1>2. CASE Register(a) \/ Login(a)
    BY <1>1, <1>2, SansAppel, Debut DEF Register, Login
  <1>3. CASE ~ (Register(a) \/ Login(a))
    <2>1. PICK suite \in {Fini, Emettre(0)} : Continuer(a, suite)
      BY <1>3 DEF Enregistrer, MettreEnLigne, MettreHorsLigne, Mourir
    <2>2. suite \in Etapes /\ AppelJuste(suite)'
      BY SansAppel DEF Fini, Emettre, Etapes, AppelJuste
    <2>3. UNCHANGED <<jetons, codes>>
      BY <1>3 DEF Enregistrer, MettreEnLigne, MettreHorsLigne, Mourir
    <2>4. /\ compte' \in [inscrit : BOOLEAN, emailVerifie : BOOLEAN,
                          enLigne : BOOLEAN, change : BOOLEAN]
          /\ compte'.change = compte.change
          /\ compte'.emailVerifie = compte.emailVerifie
      BY <1>3 DEF Enregistrer, MettreEnLigne, MettreHorsLigne, Mourir, ComptesIInv, ComptesFormes
    <2>5. ComptesFormes'
      BY <2>1, <2>2, <2>3, <2>4, Suite DEF ComptesIInv, ComptesFormes
    <2> QED BY <1>1, <2>1, <2>2, <2>3, <2>4, <2>5, JetonsRestent, EffetsRestent,
               AppelsSuivent DEF ComptesIInv
  <1> QED BY <1>1, <1>2, <1>3

\* A new token is exchanged for one that is revoked by now, or for none.
LEMMA JetonInvariant ==
    ASSUME ComptesIInv, NEW a \in Appareils, GenerateRefreshToken(a)
    PROVE  ComptesIInv' /\ Progres
  <1> DEFINE p == appelsA[a].parent
  <1>1. p \in Nat /\ (p = 0 \/ Revoque(p))
    BY Appel DEF GenerateRefreshToken, Etapes, AppelJuste
  <1>2. [etat |-> "vivant", parent |-> p] \in Jeton
    BY <1>1 DEF Jeton
  <1>3. jetons \in Seq(Jeton)
    BY DEF ComptesIInv, ComptesFormes
  <1>4. /\ jetons' \in Seq(Jeton)
        /\ DOMAIN jetons' = DOMAIN jetons \cup {Len(jetons) + 1}
        /\ \A n \in DOMAIN jetons : jetons'[n] = jetons[n]
        /\ jetons'[Len(jetons) + 1] = [etat |-> "vivant", parent |-> p]
    BY <1>2, <1>3, Ajout DEF GenerateRefreshToken
  <1>5. Progres
    BY <1>4 DEF Progres, GenerateRefreshToken
  <1>6. \A n : Revoque(n) => Revoque(n)'
    BY <1>5 DEF Progres, Revoque
  <1>7. JetonsJustes'
    BY <1>1, <1>4, <1>6 DEF JetonsJustes, ComptesIInv
  <1>8. Continuer(a, Fini) /\ Fini \in Etapes /\ AppelJuste(Fini)'
    BY SansAppel DEF GenerateRefreshToken, Fini
  <1>9. ComptesFormes'
    BY <1>4, <1>8, Suite DEF ComptesIInv, ComptesFormes, GenerateRefreshToken
  <1> QED BY <1>5, <1>7, <1>8, <1>9, EffetsRestent, AppelsSuivent
          DEF ComptesIInv, GenerateRefreshToken

\* A call of refresh remembers a token that is there.
LEMMA RefreshInvariant ==
    ASSUME ComptesIInv, NEW a \in Appareils, NEW j \in DOMAIN jetons, Refresh(a, j)
    PROVE  ComptesIInv' /\ Progres
  <1>1. j \in Nat
    BY DEF ComptesIInv, ComptesFormes
  <1>2. [op |-> "rotation", jeton |-> j] \in Etapes
    BY <1>1 DEF Etapes
  <1>3. AppelJuste([op |-> "rotation", jeton |-> j])
    BY DEF AppelJuste
  <1>4. Progres
    BY Immobile DEF Refresh, Commencer, SansLigne
  <1> QED BY <1>2, <1>3, <1>4, Debut DEF Refresh

\* The exchanged token is revoked before the new one is issued.
LEMMA RotationInvariante ==
    ASSUME ComptesIInv, NEW a \in Appareils, Rotation(a)
    PROVE  ComptesIInv' /\ Progres
  <1>1. PICK j \in DOMAIN jetons : j = appelsA[a].jeton
    BY Appel DEF Rotation, AppelJuste
  <1>2. Marque(j, "revoque")
    BY <1>1 DEF Rotation, Marque
  <1>3. /\ Progres
        /\ jetons' \in Seq(Jeton)
        /\ DOMAIN jetons' = DOMAIN jetons
        /\ Revoque(j)'
    BY <1>2, MarqueProgres DEF ComptesIInv
  <1>4. j \in Nat
    BY <1>1 DEF ComptesIInv, ComptesFormes
  <1>5. Emettre(j) \in Etapes
    BY <1>4 DEF Emettre, Etapes
  <1>6. AppelJuste(Emettre(j))'
    BY <1>3 DEF AppelJuste, Emettre
  <1>7. Continuer(a, Emettre(j))
    BY <1>1 DEF Rotation
  <1> QED BY <1>3, <1>5, <1>6, <1>7, Routine DEF Rotation, ComptesIInv, ComptesFormes

\* A token expires unless it is revoked.
LEMMA ExpirerJetonInvariant ==
    ASSUME ComptesIInv, NEW j \in DOMAIN jetons, ExpirerJeton(j)
    PROVE  ComptesIInv' /\ Progres
  <1>1. Marque(j, "perime")
    BY DEF ExpirerJeton, Marque
  <1>2. /\ Progres
        /\ jetons' \in Seq(Jeton)
        /\ DOMAIN jetons' = DOMAIN jetons
    BY <1>1, MarqueProgres DEF ComptesIInv, ExpirerJeton
  <1> QED BY <1>2, RoutineSansAppel DEF ExpirerJeton, ComptesIInv, ComptesFormes

\* Logging out revokes.
LEMMA LogoutInvariant ==
    ASSUME ComptesIInv, NEW a \in Appareils, NEW j \in DOMAIN jetons, Logout(a, j)
    PROVE  ComptesIInv' /\ Progres
  <1>1. Marque(j, "revoque")
    BY DEF Logout, Marque
  <1>2. /\ Progres
        /\ jetons' \in Seq(Jeton)
        /\ DOMAIN jetons' = DOMAIN jetons
    BY <1>1, MarqueProgres DEF ComptesIInv
  <1> QED BY <1>2, SansAppel, Routine DEF Logout, ComptesIInv, ComptesFormes

\* A reset revokes every token.
LEMMA RevoquerTousInvariant ==
    ASSUME ComptesIInv, NEW a \in Appareils, RevoquerTous(a)
    PROVE  ComptesIInv' /\ Progres
  <1>1. jetons \in Seq(Jeton)
    BY DEF ComptesIInv, ComptesFormes
  <1>2. ASSUME NEW j \in DOMAIN jetons
        PROVE  /\ [jetons[j] EXCEPT !.etat = "revoque"] \in Jeton
               /\ [jetons[j] EXCEPT !.etat = "revoque"].parent = jetons[j].parent
               /\ [jetons[j] EXCEPT !.etat = "revoque"].etat = "revoque"
    <2>1. jetons[j] \in Jeton
      BY <1>1
    <2> QED BY <2>1 DEF Jeton
  <1>3. DOMAIN jetons = 1 .. Len(jetons) /\ Len(jetons) \in Nat
    BY <1>1
  <1>4. /\ jetons' \in Seq(Jeton)
        /\ DOMAIN jetons' = DOMAIN jetons
    BY <1>2, <1>3 DEF RevoquerTous
  <1>5. \A j \in DOMAIN jetons : /\ jetons'[j].parent = jetons[j].parent
                                 /\ jetons'[j].etat = "revoque"
    BY <1>2 DEF RevoquerTous
  <1>6. Progres
    BY <1>4, <1>5 DEF Progres, RevoquerTous
  <1> QED BY <1>4, <1>6, SansAppel, Routine DEF RevoquerTous, Fini, ComptesIInv, ComptesFormes

\* A new code is the latest one.
LEMMA DemanderCodeInvariant ==
    ASSUME ComptesIInv, NEW u \in Usages, DemanderCode(u)
    PROVE  ComptesIInv' /\ Progres
  <1> DEFINE t == Append(codes[u], "vivant")
  <1>1. codes \in [Usages -> Seq(EtatsCode)] /\ codes[u] \in Seq(EtatsCode)
    BY DEF ComptesIInv, ComptesFormes
  <1>2. /\ t \in Seq(EtatsCode)
        /\ DOMAIN t = DOMAIN codes[u] \cup {Len(codes[u]) + 1}
        /\ \A n \in DOMAIN codes[u] : t[n] = codes[u][n]
    BY <1>1, Ajout
  <1>3. codes' = [codes EXCEPT ![u] = t] /\ UNCHANGED <<compte, jetons, appelsA>>
    BY DEF DemanderCode
  <1> HIDE DEF t
  <1>4. codes' \in [Usages -> Seq(EtatsCode)]
    BY <1>1, <1>2, <1>3
  <1>5. \A v \in Usages : codes'[v] = IF v = u THEN t ELSE codes[v]
    BY <1>1, <1>3
  <1>6. Progres
    BY <1>2, <1>3, <1>5 DEF Progres
  <1> QED BY <1>3, <1>4, <1>6, RoutineSansAppel DEF ComptesIInv, ComptesFormes

\* A code expires unless it is used.
LEMMA ExpirerCodeInvariant ==
    ASSUME ComptesIInv, NEW u \in Usages, ExpirerCode(u)
    PROVE  ComptesIInv' /\ Progres
  <1> DEFINE n == Len(codes[u])
  <1>1. codes[u] \in Seq(EtatsCode)
    BY DEF ComptesIInv, ComptesFormes
  <1>2. n \in DOMAIN codes[u]
    BY <1>1 DEF ExpirerCode
  <1>3. MarqueCode(u, n, "perime")
    BY <1>2 DEF ExpirerCode, MarqueCode
  <1>4. codes[u][n] # "utilise"
    BY DEF ExpirerCode
  <1>5. Progres /\ codes' \in [Usages -> Seq(EtatsCode)]
    BY <1>3, <1>4, MarqueCodeProgres DEF ComptesIInv
  <1> QED BY <1>5, RoutineSansAppel DEF ExpirerCode, ComptesIInv, ComptesFormes

\* A call that was given a right code remembers its row.
LEMMA LireCodeInvariant ==
    ASSUME ComptesIInv, NEW a \in Appareils, NEW u \in Usages, LireCode(a, u)
    PROVE  ComptesIInv' /\ Progres
  <1>1. PICK n \in DOMAIN codes[u] :
            Commencer(a, [op |-> "code", usage |-> u, rang |-> n])
    BY DEF LireCode
  <1>2. n \in Nat
    BY DEF ComptesIInv, ComptesFormes
  <1>3. [op |-> "code", usage |-> u, rang |-> n] \in Etapes
    BY <1>2 DEF Etapes
  <1>4. AppelJuste([op |-> "code", usage |-> u, rang |-> n])
    BY DEF AppelJuste
  <1>5. Progres
    BY <1>1, Immobile DEF Commencer, SansLigne
  <1> QED BY <1>1, <1>3, <1>4, <1>5, Debut

\* The code is used up before what it is for is done.
LEMMA UtiliserCodeInvariant ==
    ASSUME ComptesIInv, NEW a \in Appareils, UtiliserCode(a)
    PROVE  ComptesIInv' /\ Progres
  <1> DEFINE u == appelsA[a].usage
             n == appelsA[a].rang
             suite == IF u = "step_up" THEN Fini ELSE [op |-> "effet", usage |-> u]
  <1>1. u \in Usages /\ n \in DOMAIN codes[u]
    BY Appel DEF UtiliserCode, AppelJuste, Etapes
  <1>2. MarqueCode(u, n, "utilise")
    BY <1>1 DEF UtiliserCode, MarqueCode
  <1>3. /\ Progres
        /\ codes' \in [Usages -> Seq(EtatsCode)]
    BY <1>2, MarqueCodeProgres DEF ComptesIInv
  <1>4. ASSUME NEW v, v = u PROVE CodesUtilises(v)' # {}
    <2>1. MarqueCode(v, n, "utilise")
      BY <1>2, <1>4
    <2> QED BY <2>1, MarqueCodeProgres DEF ComptesIInv
  <1>5. suite \in Etapes /\ Continuer(a, suite)
    BY <1>1, SansAppel DEF Etapes, UtiliserCode, Fini
  <1>6. ASSUME NEW c, c = suite PROVE AppelJuste(c)'
    BY <1>4, <1>6 DEF AppelJuste, Fini
  <1>7. UNCHANGED <<compte, jetons>>
    BY DEF UtiliserCode
  <1> HIDE DEF suite
  <1> QED BY <1>3, <1>5, <1>6, <1>7, Routine DEF ComptesIInv, ComptesFormes

\* What a code is for is done with a code that is used up.
LEMMA EffetInvariant ==
    ASSUME ComptesIInv, NEW a \in Appareils, VerifierEmail(a) \/ ChangerMotDePasse(a)
    PROVE  ComptesIInv' /\ Progres
  <1>1. Progres
    BY Immobile DEF VerifierEmail, ChangerMotDePasse, SansLigne
  <1>2. CodesUtilises(appelsA[a].usage) # {}
    BY Appel DEF VerifierEmail, ChangerMotDePasse, AppelJuste
  <1>3. \A v : CodesUtilises(v)' = CodesUtilises(v)
    BY DEF VerifierEmail, ChangerMotDePasse, CodesUtilises
  <1>4. EffetsParCode'
    BY <1>2, <1>3 DEF VerifierEmail, ChangerMotDePasse, EffetsParCode, ComptesIInv, ComptesFormes
  <1>5. PICK suite \in {Fini, [op |-> "revocation"]} : Continuer(a, suite)
    BY DEF VerifierEmail, ChangerMotDePasse
  <1>6. suite \in Etapes /\ AppelJuste(suite)'
    BY SansAppel DEF Fini
  <1>7. /\ UNCHANGED <<jetons, codes>>
        /\ compte' \in [inscrit : BOOLEAN, emailVerifie : BOOLEAN,
                        enLigne : BOOLEAN, change : BOOLEAN]
    BY DEF VerifierEmail, ChangerMotDePasse, ComptesIInv, ComptesFormes
  <1>8. ComptesFormes'
    BY <1>5, <1>6, <1>7, Suite DEF ComptesIInv, ComptesFormes
  <1> QED BY <1>1, <1>4, <1>5, <1>6, <1>7, <1>8, JetonsRestent, AppelsSuivent DEF ComptesIInv

-----------------------------------------------------------------------------
\* Every step of the account keeps the invariant.
LEMMA ComptesInvariant ==
    ComptesIInv /\ [ComptesNext]_comptesVars => ComptesIInv' /\ Progres
  <1> SUFFICES ASSUME ComptesIInv, [ComptesNext]_comptesVars PROVE ComptesIInv' /\ Progres
    OBVIOUS
  <1>1. ASSUME NEW a \in Appareils,
               Register(a) \/ Enregistrer(a) \/ Login(a) \/ MettreEnLigne(a)
                 \/ MettreHorsLigne(a) \/ Mourir(a)
        PROVE  ComptesIInv' /\ Progres
    BY <1>1, EntreeInvariante
  <1>2. ASSUME NEW a \in Appareils, GenerateRefreshToken(a) PROVE ComptesIInv' /\ Progres
    BY <1>2, JetonInvariant
  <1>3. ASSUME NEW a \in Appareils, NEW j \in DOMAIN jetons, Refresh(a, j)
        PROVE  ComptesIInv' /\ Progres
    BY <1>3, RefreshInvariant
  <1>4. ASSUME NEW a \in Appareils, Rotation(a) PROVE ComptesIInv' /\ Progres
    BY <1>4, RotationInvariante
  <1>5. ASSUME NEW a \in Appareils, NEW j \in DOMAIN jetons, Logout(a, j)
        PROVE  ComptesIInv' /\ Progres
    BY <1>5, LogoutInvariant
  <1>6. ASSUME NEW j \in DOMAIN jetons, ExpirerJeton(j) PROVE ComptesIInv' /\ Progres
    BY <1>6, ExpirerJetonInvariant
  <1>7. ASSUME NEW a \in Appareils, RevoquerTous(a) PROVE ComptesIInv' /\ Progres
    BY <1>7, RevoquerTousInvariant
  <1>8. ASSUME NEW u \in Usages, DemanderCode(u) PROVE ComptesIInv' /\ Progres
    BY <1>8, DemanderCodeInvariant
  <1>9. ASSUME NEW u \in Usages, ExpirerCode(u) PROVE ComptesIInv' /\ Progres
    BY <1>9, ExpirerCodeInvariant
  <1>10. ASSUME NEW a \in Appareils, NEW u \in Usages, LireCode(a, u)
         PROVE  ComptesIInv' /\ Progres
    BY <1>10, LireCodeInvariant
  <1>11. ASSUME NEW a \in Appareils, UtiliserCode(a) PROVE ComptesIInv' /\ Progres
    BY <1>11, UtiliserCodeInvariant
  <1>12. ASSUME NEW a \in Appareils, VerifierEmail(a) \/ ChangerMotDePasse(a)
         PROVE  ComptesIInv' /\ Progres
    BY <1>12, EffetInvariant
  <1>13. CASE UNCHANGED comptesVars
    <2>1. Progres
      BY <1>13, Immobile DEF comptesVars, SansLigne
    <2> QED BY <1>13, <2>1, RoutineSansAppel DEF comptesVars, ComptesIInv, ComptesFormes
  <1> QED BY <1>1, <1>2, <1>3, <1>4, <1>5, <1>6, <1>7, <1>8, <1>9, <1>10, <1>11,
             <1>12, <1>13 DEF ComptesNext

\* The inductive invariant, for any number of devices, tokens and codes.
THEOREM ComptesTenus == ComptesSpec => []ComptesIInv
  <1> QED BY ComptesInitial, ComptesInvariant, PTL DEF ComptesSpec

\* resolve_refresh: the token a new one was exchanged for is revoked and stays
\* so, however calls overlap and wherever one dies.
THEOREM EchangeUnique == ComptesSpec => []JetonEchange
  <1>1. ComptesIInv => JetonEchange
    BY DEF ComptesIInv, JetonsJustes, Revoque, JetonEchange
  <1> QED BY <1>1, ComptesTenus, PTL

\* resolve_verify_email and resolve_reset_password: an address is verified and
\* a password changed only by a code sent for it that is used up by then (a
\* reset verifies the address too).
THEOREM CodeAvantEffet == ComptesSpec => []EffetsParCode
  <1>1. ComptesIInv => EffetsParCode
    BY DEF ComptesIInv
  <1> QED BY <1>1, ComptesTenus, PTL

\* What est_valide refuses once it refuses for ever: no step brings a revoked
\* token or a used code back, or removes a row.
THEOREM RienNeRevient == ComptesSpec => [][Progres]_comptesVars
  <1>1. ComptesIInv /\ [ComptesNext]_comptesVars => [Progres]_comptesVars
    BY ComptesInvariant
  <1> QED BY <1>1, ComptesTenus, PTL DEF ComptesSpec

-----------------------------------------------------------------------------
(* The four machines on one stage *)

\* Only the issue of a token adds a row, and only below the limit.
LEMMA JetonsBornes ==
    ASSUME ComptesIInv, Len(jetons) <= JetonsMax, [ComptesNext]_comptesVars
    PROVE  Len(jetons') <= JetonsMax
  <1>1. /\ jetons \in Seq(Jeton) /\ jetons' \in Seq(Jeton)
        /\ JetonsMax \in Nat
    BY ComptesInvariant, BornesHypothese DEF ComptesIInv, ComptesFormes
  <1>2. DOMAIN jetons' = DOMAIN jetons => Len(jetons') = Len(jetons)
    BY <1>1
  <1>3. ASSUME NEW a \in Appareils, GenerateRefreshToken(a)
        PROVE  Len(jetons') <= JetonsMax
    BY <1>1, <1>3 DEF GenerateRefreshToken
  <1>4. ASSUME NEW a \in Appareils,
               \/ Rotation(a) \/ RevoquerTous(a)
               \/ \E j \in DOMAIN jetons : Logout(a, j) \/ ExpirerJeton(j)
        PROVE  DOMAIN jetons' = DOMAIN jetons
    BY <1>4 DEF Rotation, RevoquerTous, Logout, ExpirerJeton
  <1>5. ASSUME NEW a \in Appareils,
               \/ Mourir(a) \/ Register(a) \/ Enregistrer(a) \/ Login(a)
               \/ MettreEnLigne(a) \/ MettreHorsLigne(a) \/ UtiliserCode(a)
               \/ VerifierEmail(a) \/ ChangerMotDePasse(a)
               \/ \E j \in DOMAIN jetons : Refresh(a, j)
               \/ \E u \in Usages : LireCode(a, u)
        PROVE  UNCHANGED jetons
    BY <1>5 DEF Mourir, Register, Enregistrer, Login, MettreEnLigne, MettreHorsLigne,
                UtiliserCode, VerifierEmail, ChangerMotDePasse, Refresh, LireCode,
                Commencer
  <1>6. ASSUME NEW j \in DOMAIN jetons, ExpirerJeton(j)
        PROVE  DOMAIN jetons' = DOMAIN jetons
    BY <1>6 DEF ExpirerJeton
  <1>7. ASSUME NEW u \in Usages, DemanderCode(u) \/ ExpirerCode(u)
        PROVE  UNCHANGED jetons
    BY <1>7 DEF DemanderCode, ExpirerCode
  <1>8. CASE UNCHANGED comptesVars
    BY <1>8 DEF comptesVars
  <1>9. CASE ComptesNext
    BY <1>2, <1>3, <1>4, <1>5, <1>6, <1>7, <1>9 DEF ComptesNext
  <1> QED BY <1>8, <1>9

\* A sequence is of the set its elements are of.
LEMMA SuiteDe ==
    ASSUME NEW S, NEW T, NEW s \in Seq(S), \A j \in DOMAIN s : s[j] \in T
    PROVE  s \in Seq(T)
  OBVIOUS

ServicesIInv ==
    /\ RpsIInv
    /\ PenaltyIInv
    /\ CoffreIInv
    /\ ComptesIInv
    /\ Len(jetons) <= JetonsMax

\* A step of the stage is a step of every machine, or leaves it alone.
LEMMA EnScene ==
    ASSUME [Next]_<<scene, rpsVars, penaltyVars, coffreVars, comptesVars>>
    PROVE  /\ [RpsNext]_rpsVars
           /\ [PenaltyNext]_penaltyVars
           /\ [CoffreNext]_coffreVars
           /\ [ComptesNext]_comptesVars
  <1> QED BY Zenon DEF Next

\* Every row, every copy of a match and every call of the four machines keeps
\* legal values, whichever of them runs.
THEOREM ServicesTypes == Spec => []TypeOK
  <1>1. Init => ServicesIInv
    <2> SUFFICES ASSUME Init PROVE ServicesIInv
      OBVIOUS
    <2>1. Len(jetons) <= JetonsMax
      BY BornesHypothese DEF Init, ComptesInit
    <2> QED BY <2>1, RpsInitial, PenaltyInitial, CoffreInitial, ComptesInitial
            DEF Init, ServicesIInv
  <1>2. ServicesIInv /\ [Next]_<<scene, rpsVars, penaltyVars, coffreVars, comptesVars>>
          => ServicesIInv'
    BY EnScene, RpsInvariant, PenaltyInvariant, CoffreInvariant, ComptesInvariant,
       JetonsBornes DEF ServicesIInv
  <1>3. ServicesIInv => TypeOK
    <2> SUFFICES ASSUME ServicesIInv PROVE TypeOK
      OBVIOUS
    <2>1. CoffreTypeOK
      BY DEF ServicesIInv, CoffreIInv, CoffreFormes, LignesCoffre, AppelsPossibles,
             CoffreTypeOK
    <2>2. jetons \in Seq(Jeton) /\ Len(jetons) <= JetonsMax /\ JetonsMax \in Nat
      BY BornesHypothese DEF ServicesIInv, ComptesIInv, ComptesFormes
    <2>3. ASSUME NEW j \in DOMAIN jetons
          PROVE  jetons[j] \in [etat : EtatsJeton, parent : 0 .. JetonsMax]
      <3>1. jetons[j] \in Jeton
        BY <2>2
      <3>2. jetons[j].parent # 0 => jetons[j].parent \in DOMAIN jetons
        BY DEF ServicesIInv, ComptesIInv, JetonsJustes, Revoque
      <3>3. jetons[j].parent \in 0 .. JetonsMax
        BY <2>2, <3>1, <3>2 DEF Jeton
      <3> QED BY <3>1, <3>3 DEF Jeton
    <2>4. jetons \in Seq([etat : EtatsJeton, parent : 0 .. JetonsMax])
      <3>1. jetons \in Seq(Jeton)
        BY <2>2
      <3> HIDE DEF EtatsJeton
      <3> QED BY <2>3, <3>1, SuiteDe, Zenon
    <2>5. ComptesTypeOK
      BY <2>4 DEF ServicesIInv, ComptesIInv, ComptesFormes, ComptesTypeOK
    <2> QED BY <2>1, <2>5 DEF ServicesIInv, RpsIInv, PenaltyIInv, TypeOK
  <1> QED BY <1>1, <1>2, <1>3, PTL DEF Spec
=============================================================================
