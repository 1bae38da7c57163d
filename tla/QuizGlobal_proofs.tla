--------------------------- MODULE QuizGlobal_proofs ---------------------------
(***************************************************************************)
(* Theorems about QuizGlobal, for every set of players and games, every    *)
(* set of stakes and every initial balance, with or without the sweep of   *)
(* stuck games.                                                            *)
(*                                                                         *)
(* First the structure: types, seats and the table of active players.      *)
(* Then the stakes: what is blocked of a wallet covers the stake of the    *)
(* game its owner plays, and is nothing more than that as long as the      *)
(* sweep of stuck games does not run.  The difference between the two,     *)
(* which is 0 at first, is the same before and after every step but that   *)
(* of the sweep (Excedent): a service moves exactly what it is asked to    *)
(* because its key is new (ClesFraiches) and because the balance covers it *)
(* (Couvert).  Last the invitations, which only need the types.            *)
(***************************************************************************)
EXTENDS QuizGlobal, Portefeuille_proofs

USE DEF places, salons

-----------------------------------------------------------------------------
(* The steps of the game that move money, on a well typed state *)

LEMMA EffectiveType ==
    ASSUME NEW m \in Nat, NEW p \in Nat
    PROVE  Effective(m, p) \in Nat /\ Effective(m, p) <= m /\ (p > 0 => Effective(m, p) <= p)
  BY MoindreType DEF Effective

LEMMA CloturesType ==
    ASSUME TypeOK, NEW g \in Parties, NEW s \in EtatsInvitation
    PROVE  Closes(g, s) \in [Joueurs -> EtatsInvitation]
  BY DEF TypeOK, Closes, Pendantes

LEMMA LiberesType ==
    ASSUME TypeOK, NEW G
    PROVE  Liberes(G) \in [Joueurs -> Parties \cup {Aucune}]
  BY DEF TypeOK, Liberes

LEMMA MisesEngageesType ==
    ASSUME TypeOK, NEW g \in Parties, NEW u \in Joueurs, NEW p \in Nat,
           siegeA[g] \in Joueurs,
           PeutBloquer(banque, u, p, CleDe("reserve", g, u))
    PROVE  MisesEngagees(u, g, p) \in Banques
  <1> DEFINE h   == siegeA[g]
             eff == Effective(mise[g], p)
             kr  == CleDe("reserve", g, u)
             b1  == BloquerMise(banque, u, p, kr)
             b2  == IF mise[g] > eff
                    THEN LibererMise(b1, h, mise[g] - eff, CleDe("surplus", g, h))
                    ELSE b1
  <1>1. /\ kr \in Cles /\ CleDe("surplus", g, h) \in Cles
        /\ CleDe("surplus", g, u) \in Cles
    BY CleType DEF Operations
  <1>2. mise[g] \in Nat /\ eff \in Nat /\ banque \in Banques
    BY EffectiveType DEF TypeOK
  <1>3. b1 \in Banques
    BY <1>1, <1>2, BloquerType DEF PeutBloquer
  <1> HIDE DEF b1, eff
  <1>4. mise[g] > eff => mise[g] - eff \in Nat
    BY <1>2
  <1>5. b2 \in Banques
    BY <1>1, <1>3, <1>4, LibererType
  <1> HIDE DEF b2
  <1>6. p > eff => p - eff \in Nat
    BY <1>2
  <1>7. (IF p > eff THEN LibererMise(b2, u, p - eff, CleDe("surplus", g, u)) ELSE b2)
          \in Banques
    BY <1>1, <1>5, <1>6, LibererType
  <1>8. QED
    BY <1>7 DEF MisesEngagees, b2, b1, eff

LEMMA RembourserType ==
    ASSUME TypeOK, NEW g \in Parties, siegeA[g] \in Joueurs,
           NEW motif \in Operations
    PROVE  RembourserMises(g, motif) \in Banques
  <1> DEFINE m  == MiseEffective(g)
             b1 == LibererMise(banque, siegeA[g], m, CleDe(motif, g, siegeA[g]))
  <1>1. CleDe(motif, g, siegeA[g]) \in Cles
    BY CleType
  <1>2. m \in Nat /\ banque \in Banques
    BY EffectiveType DEF TypeOK, MiseEffective
  <1> HIDE DEF m
  <1>3. b1 \in Banques
    BY <1>1, <1>2, LibererType
  <1> HIDE DEF b1
  <1>4. siegeB[g] # Personne =>
          LibererMise(b1, siegeB[g], m, CleDe(motif, g, siegeB[g])) \in Banques
    <2> SUFFICES ASSUME siegeB[g] # Personne
                 PROVE  LibererMise(b1, siegeB[g], m, CleDe(motif, g, siegeB[g])) \in Banques
      OBVIOUS
    <2>1. siegeB[g] \in Joueurs
      BY DEF TypeOK
    <2>2. CleDe(motif, g, siegeB[g]) \in Cles
      BY <2>1, CleType
    <2>3. QED
      BY <1>2, <1>3, <2>1, <2>2, LibererType
  <1>5. QED
    BY <1>2, <1>3, <1>4 DEF RembourserMises, m, b1

LEMMA LibererMiseHoteType ==
    ASSUME TypeOK, NEW g \in Parties, siegeA[g] \in Joueurs,
           NEW motif \in Operations
    PROVE  LibererMiseHote(g, motif) \in Banques
  <1>1. CleDe(motif, g, siegeA[g]) \in Cles
    BY CleType
  <1>2. QED
    BY <1>1, LibererType DEF LibererMiseHote, TypeOK

-----------------------------------------------------------------------------
(* Every step keeps the types *)

LEMMA FermerSalonType ==
    ASSUME TypeOK, Sieges, NEW g \in Parties, statut[g] = "WAITING",
           NEW nouveau \in {"CANCELLED", "EXPIRED"},
           NEW s \in {"CANCELLED", "EXPIRED"},
           NEW motif \in {"refus", "expiration"},
           FermerSalon(g, nouveau, s, motif)
    PROVE  TypeOK'
  <1>1. LibererMiseHote(g, motif) \in Banques
    BY LibererMiseHoteType DEF Operations, Sieges, TypeOK
  <1>2. Closes(g, s) \in [Joueurs -> EtatsInvitation]
    BY CloturesType DEF EtatsInvitation
  <1>3. Liberes({g}) \in [Joueurs -> Parties \cup {Aucune}]
    BY LiberesType
  <1>4. QED
    BY <1>1, <1>2, <1>3 DEF FermerSalon, TypeOK, Statuts, Inactives

LEMMA AvancerType ==
    ASSUME TypeOK, NEW g \in Parties, NEW s \in EnJeu, Avancer(g, s)
    PROVE  TypeOK'
  BY DEF Avancer, TypeOK, Statuts, Actives

LEMMA TypePas == TypeOK /\ Sieges /\ [Next]_vars => TypeOK'
  <1> SUFFICES ASSUME TypeOK, Sieges, [Next]_vars
               PROVE  TypeOK'
    OBVIOUS
  <1>1. ASSUME NEW u \in Joueurs, NEW g \in Parties,
               NEW i \in Joueurs \cup {Personne}, NEW m \in Mises,
               CreateGame(u, g, i, m)
        PROVE  TypeOK'
    <2>1. m \in Nat /\ banque \in Banques
      BY MisesHypothese DEF TypeOK
    <2>2. CleDe("reserve", g, u) \in Cles
      BY CleType DEF Operations
    <2>3. m <= banque.dispo[u]
      BY <1>1 DEF CreateGame
    <2>4. BloquerMise(banque, u, m, CleDe("reserve", g, u)) \in Banques
      BY <2>1, <2>2, <2>3, BloquerType
    <2>5. banque' \in Banques
      BY <1>1, <2>1, <2>4 DEF CreateGame
    <2>6. [v \in Joueurs |-> IF v = i THEN "PENDING" ELSE "AUCUNE"]
            \in [Joueurs -> EtatsInvitation]
      BY DEF EtatsInvitation
    <2>7. QED
      BY <1>1, <2>1, <2>5, <2>6 DEF CreateGame, TypeOK, Statuts, Actives
  <1>2. ASSUME NEW u \in Joueurs, NEW g \in Parties, NEW r \in Joueurs,
               InviterJoueur(u, g, r)
        PROVE  TypeOK'
    BY <1>2 DEF InviterJoueur, TypeOK, EtatsInvitation
  <1>3. ASSUME NEW u \in Joueurs, NEW g \in Parties, NEW r \in Joueurs,
               AnnulerInvitation(u, g, r)
        PROVE  TypeOK'
    <2>1. invite' \in [Parties -> Joueurs \cup {Personne}]
      BY <1>3 DEF AnnulerInvitation, Realigner, Pendantes, TypeOK
    <2>2. QED
      BY <1>3, <2>1 DEF AnnulerInvitation, TypeOK, EtatsInvitation
  <1>4. ASSUME NEW u \in Joueurs, NEW g \in Parties, NEW p \in Mises,
               JoinGame(u, g, p)
        PROVE  TypeOK'
    <2>1. p \in Nat
      BY MisesHypothese
    <2>2. siegeA[g] \in Joueurs
      BY <1>4 DEF JoinGame, PeutRejoindre, Sieges, TypeOK
    <2>3. banque' \in Banques
      <3>1. CASE mise[g] = 0
        BY <1>4, <3>1 DEF JoinGame, TypeOK
      <3>2. CASE mise[g] # 0
        <4>1. PeutBloquer(banque, u, p, CleDe("reserve", g, u))
          BY <1>4, <3>2 DEF JoinGame, PeutProposer
        <4>2. MisesEngagees(u, g, p) \in Banques
          BY <2>1, <2>2, <4>1, MisesEngageesType
        <4>3. QED
          BY <1>4, <3>2, <4>2 DEF JoinGame
      <3>3. QED
        BY <3>1, <3>2
    <2>4. Closes(g, "EXPIRED") \in [Joueurs -> EtatsInvitation]
      BY CloturesType DEF EtatsInvitation
    <2>5. [Closes(g, "EXPIRED") EXCEPT ![u] = "ACCEPTED"]
            \in [Joueurs -> EtatsInvitation]
      BY <2>4 DEF EtatsInvitation
    <2>6. QED
      BY <1>4, <2>1, <2>3, <2>5 DEF JoinGame, TypeOK, Statuts, Actives, EnJeu
  <1>5. ASSUME NEW u \in Joueurs, NEW g \in Parties, NEW n \in Parties,
               Revanche(u, g, n)
        PROVE  TypeOK'
    <2> DEFINE adversaire == IF u = siegeA[g] THEN siegeB[g] ELSE siegeA[g]
               m  == mise[g]
               ku == CleDe("reserve", n, u)
               ka == CleDe("reserve", n, adversaire)
               b1 == BloquerMise(banque, u, m, ku)
    <2>1. adversaire \in Joueurs
      BY <1>5 DEF Revanche, TypeOK
    <2>2. m \in Nat /\ banque \in Banques
      BY DEF TypeOK
    <2>3. ku \in Cles /\ ka \in Cles
      BY <2>1, CleType DEF Operations
    <2>4. m > 0 => PeutBloquer(banque, u, m, ku) /\ PeutBloquer(b1, adversaire, m, ka)
      BY <1>5 DEF Revanche
    <2>5. banque' = IF m > 0 THEN BloquerMise(b1, adversaire, m, ka) ELSE banque
      BY <1>5 DEF Revanche
    <2>6. /\ statut' = [statut EXCEPT ![n] = "THEME_SELECTION"]
          /\ siegeA' = [siegeA EXCEPT ![n] = u]
          /\ siegeB' = [siegeB EXCEPT ![n] = adversaire]
          /\ mise' = [mise EXCEPT ![n] = m]
          /\ actif' = [Liberes({g}) EXCEPT ![u] = n, ![adversaire] = n]
          /\ UNCHANGED <<invite, invitation, proposee, vieux, perimee, balayage>>
      BY <1>5 DEF Revanche
    <2> HIDE DEF adversaire, m, ku, ka
    <2>7. m > 0 => b1 \in Banques
      BY <2>2, <2>3, <2>4, BloquerType DEF PeutBloquer
    <2> HIDE DEF b1
    <2>8. m > 0 => BloquerMise(b1, adversaire, m, ka) \in Banques
      BY <2>1, <2>2, <2>3, <2>4, <2>7, BloquerType DEF PeutBloquer
    <2>9. banque' \in Banques
      BY <2>2, <2>5, <2>8
    <2>10. Liberes({g}) \in [Joueurs -> Parties \cup {Aucune}]
      BY LiberesType
    <2>11. QED
      BY <2>1, <2>2, <2>6, <2>9, <2>10 DEF TypeOK, Statuts, Actives, EnJeu
  <1>6. ASSUME NEW u \in Joueurs, NEW g \in Parties, RefuserEtGarder(u, g)
        PROVE  TypeOK'
    <2>1. invite' \in [Parties -> Joueurs \cup {Personne}]
      BY <1>6 DEF RefuserEtGarder, Realigner, Pendantes, TypeOK
    <2>2. QED
      BY <1>6, <2>1 DEF RefuserEtGarder, TypeOK, EtatsInvitation
  <1>7. ASSUME NEW u \in Joueurs, NEW g \in Parties, RefuserEtFermer(u, g)
        PROVE  TypeOK'
    BY <1>7, FermerSalonType DEF RefuserEtFermer, PeutRefuser
  <1>8. ASSUME NEW g \in Parties, ExpirerSalon(g)
        PROVE  TypeOK'
    BY <1>8, FermerSalonType DEF ExpirerSalon
  <1>9. ASSUME NEW u \in Joueurs, NEW g \in Parties, AnnulerGame(u, g)
        PROVE  TypeOK'
    <2>1. statut[g] # "ABSENTE" /\ siegeA[g] \in Joueurs
      BY <1>9, PersonneHypothese
      DEF AnnulerGame, Participants, Sieges, TypeOK, Statuts, Actives
    <2>2. RembourserMises(g, "annulation") \in Banques
          /\ RembourserMises(g, "abandon") \in Banques
      BY <2>1, RembourserType DEF Operations
    <2>3. Closes(g, "CANCELLED") \in [Joueurs -> EtatsInvitation]
      BY CloturesType DEF EtatsInvitation
    <2>4. Liberes({g}) \in [Joueurs -> Parties \cup {Aucune}]
      BY LiberesType
    <2>5. QED
      BY <1>9, <2>2, <2>3, <2>4 DEF AnnulerGame, TypeOK, Statuts, Inactives
  <1>10. ASSUME NEW g \in Parties, Vieillir(g) \/ Stagner(g)
         PROVE  TypeOK'
    BY <1>10 DEF Vieillir, Stagner, TypeOK
  <1>11. ASSUME NEW g \in Parties,
                SelectTheme(g) \/ StartAnswering(g) \/ FinishQuestion(g)
                  \/ AdvanceAfterResult(g)
         PROVE  TypeOK'
    BY <1>11, AvancerType
    DEF SelectTheme, StartAnswering, FinishQuestion, AdvanceAfterResult, EnJeu
  <1>12. ASSUME NEW g \in Parties, FinishDraw(g)
         PROVE  TypeOK'
    <2>1. siegeA[g] \in Joueurs
      BY <1>12 DEF FinishDraw, Sieges, TypeOK, EnJeu
    <2>2. RembourserMises(g, "egalite") \in Banques
      BY <2>1, RembourserType DEF Operations
    <2>3. Closes(g, "EXPIRED") \in [Joueurs -> EtatsInvitation]
      BY CloturesType DEF EtatsInvitation
    <2>4. Liberes({g}) \in [Joueurs -> Parties \cup {Aucune}]
      BY LiberesType
    <2>5. QED
      BY <1>12, <2>2, <2>3, <2>4 DEF FinishDraw, TypeOK, Statuts, Inactives
  <1>13. ASSUME NEW g \in Parties, NEW w \in Joueurs, FinishGame(g, w)
         PROVE  TypeOK'
    <2> DEFINE l == IF w = siegeA[g] THEN siegeB[g] ELSE siegeA[g]
    <2>1. l \in Joueurs
      BY <1>13 DEF FinishGame, Sieges, TypeOK, EnJeu
    <2>2. MiseEffective(g) \in Nat /\ banque \in Banques
      BY EffectiveType DEF TypeOK, MiseEffective
    <2>3. ReglerDuel(banque, w, l, MiseEffective(g), g) \in Banques
      BY <2>1, <2>2, ReglerPoint
    <2>4. banque' \in Banques
      BY <1>13, <2>2, <2>3 DEF FinishGame
    <2>5. Closes(g, "EXPIRED") \in [Joueurs -> EtatsInvitation]
      BY CloturesType DEF EtatsInvitation
    <2>6. Liberes({g}) \in [Joueurs -> Parties \cup {Aucune}]
      BY LiberesType
    <2>7. QED
      BY <1>13, <2>4, <2>5, <2>6 DEF FinishGame, TypeOK, Statuts, Inactives
  <1>14. CASE ListerBloquees
    BY <1>14 DEF ListerBloquees, TypeOK
  <1>15. CASE AbandonnerBloquees
    <2>1. \A g \in Parties : Closes(g, "EXPIRED") \in [Joueurs -> EtatsInvitation]
      BY CloturesType DEF EtatsInvitation
    <2>2. Liberes(balayage) \in [Joueurs -> Parties \cup {Aucune}]
      BY LiberesType
    <2>3. statut' \in [Parties -> Statuts] /\ perimee' \in [Parties -> BOOLEAN]
      BY <1>15 DEF AbandonnerBloquees, TypeOK, Statuts, Inactives
    <2>4. invitation' \in [Parties -> [Joueurs -> EtatsInvitation]]
      <3>1. CASE UNCHANGED invitation
        BY <3>1 DEF TypeOK
      <3>2. CASE invitation' = [g \in Parties |-> IF g \in balayage
                                                 THEN Closes(g, "EXPIRED")
                                                 ELSE invitation[g]]
        <4>1. \A g \in Parties : invitation[g] \in [Joueurs -> EtatsInvitation]
          BY DEF TypeOK
        <4>2. QED
          BY <2>1, <3>2, <4>1
      <3>3. QED
        BY <1>15, <3>1, <3>2 DEF AbandonnerBloquees
    <2>5. actif' \in [Joueurs -> Parties \cup {Aucune}]
      BY <1>15, <2>2 DEF AbandonnerBloquees, TypeOK
    <2>6. QED
      BY <1>15, <2>3, <2>4, <2>5 DEF AbandonnerBloquees, TypeOK
  <1>16. CASE UNCHANGED vars
    BY <1>16 DEF vars, TypeOK
  <1>17. QED
    BY <1>1, <1>2, <1>3, <1>4, <1>5, <1>6, <1>7, <1>8, <1>9, <1>10, <1>11,
       <1>12, <1>13, <1>14, <1>15, <1>16
    DEF Next, Jouer

-----------------------------------------------------------------------------
(* Every step keeps the seats *)

\* Only a game that was started can be abandoned.
LEMMA AbandonEnJeu ==
    ASSUME NEW s, "ABANDONED" \in Transitions(s)
    PROVE  s \in EnJeu
  BY DEF Transitions, EnJeu

LEMMA SiegesPas == TypeOK /\ Sieges /\ [Next]_vars => Sieges'
  <1> SUFFICES ASSUME TypeOK, Sieges, [Next]_vars
               PROVE  Sieges'
    OBVIOUS
  <1> USE DEF TypeOK, Sieges, EnJeu, Participants
  <1>1. ASSUME NEW u \in Joueurs, NEW g \in Parties,
               NEW i \in Joueurs \cup {Personne}, NEW m \in Mises,
               CreateGame(u, g, i, m)
        PROVE  Sieges'
    BY <1>1, PersonneHypothese DEF CreateGame
  <1>2. ASSUME NEW u \in Joueurs, NEW g \in Parties, NEW r \in Joueurs,
               InviterJoueur(u, g, r) \/ AnnulerInvitation(u, g, r)
        PROVE  Sieges'
    BY <1>2 DEF InviterJoueur, AnnulerInvitation
  <1>3. ASSUME NEW u \in Joueurs, NEW g \in Parties, NEW p \in Mises,
               JoinGame(u, g, p)
        PROVE  Sieges'
    BY <1>3, PersonneHypothese DEF JoinGame, PeutRejoindre
  <1>4. ASSUME NEW u \in Joueurs, NEW g \in Parties, NEW n \in Parties,
               Revanche(u, g, n)
        PROVE  Sieges'
    <2> DEFINE adversaire == IF u = siegeA[g] THEN siegeB[g] ELSE siegeA[g]
    <2>1. adversaire # Personne /\ u # Personne /\ u # adversaire
      BY <1>4, PersonneHypothese DEF Revanche
    <2>2. /\ statut' = [statut EXCEPT ![n] = "THEME_SELECTION"]
          /\ siegeA' = [siegeA EXCEPT ![n] = u]
          /\ siegeB' = [siegeB EXCEPT ![n] = adversaire]
      BY <1>4 DEF Revanche
    <2> HIDE DEF adversaire
    <2>3. QED
      BY <2>1, <2>2
  <1>5. ASSUME NEW u \in Joueurs, NEW g \in Parties, RefuserEtGarder(u, g)
        PROVE  Sieges'
    BY <1>5 DEF RefuserEtGarder
  <1>6. ASSUME NEW g \in Parties,
               ExpirerSalon(g) \/ \E u \in Joueurs : RefuserEtFermer(u, g)
        PROVE  Sieges'
    <2>1. /\ statut[g] = "WAITING"
          /\ \E s \in {"CANCELLED", "EXPIRED"} : statut' = [statut EXCEPT ![g] = s]
          /\ UNCHANGED places
      BY <1>6 DEF RefuserEtFermer, PeutRefuser, ExpirerSalon, FermerSalon
    <2>2. QED
      BY <2>1
  <1>7. ASSUME NEW u \in Joueurs, NEW g \in Parties, AnnulerGame(u, g)
        PROVE  Sieges'
    <2>1. statut[g] = "WAITING" \/ statut[g] \in EnJeu
      BY <1>7, AbandonEnJeu DEF AnnulerGame
    <2>2. QED
      BY <1>7, <2>1 DEF AnnulerGame
  <1>8. ASSUME NEW g \in Parties, Vieillir(g) \/ Stagner(g)
        PROVE  Sieges'
    BY <1>8 DEF Vieillir, Stagner
  <1>9. ASSUME NEW g \in Parties,
               SelectTheme(g) \/ StartAnswering(g) \/ FinishQuestion(g)
                 \/ AdvanceAfterResult(g)
        PROVE  Sieges'
    BY <1>9
    DEF SelectTheme, StartAnswering, FinishQuestion, AdvanceAfterResult, Avancer
  <1>10. ASSUME NEW g \in Parties, NEW w \in Joueurs, FinishGame(g, w)
         PROVE  Sieges'
    <2>1. /\ statut[g] = "QUESTION_FINISHED"
          /\ statut' = [statut EXCEPT ![g] = "FINISHED"]
          /\ UNCHANGED places
      BY <1>10 DEF FinishGame
    <2>2. QED
      BY <2>1
  <1>11. ASSUME NEW g \in Parties, FinishDraw(g)
         PROVE  Sieges'
    BY <1>11 DEF FinishDraw
  <1>12. CASE ListerBloquees
    BY <1>12 DEF ListerBloquees
  <1>13. CASE AbandonnerBloquees
    <2>1. \A g \in Parties : \/ statut'[g] = statut[g]
                             \/ statut'[g] = "ABANDONED" /\ statut[g] \in EnJeu
      BY <1>13, AbandonEnJeu DEF AbandonnerBloquees, BalayageLeve
    <2>2. UNCHANGED places
      BY <1>13 DEF AbandonnerBloquees
    <2>3. QED
      BY <2>1, <2>2
  <1>14. CASE UNCHANGED vars
    BY <1>14 DEF vars
  <1>15. QED
    BY <1>1, <1>2, <1>3, <1>4, <1>5, <1>6, <1>7, <1>8, <1>9, <1>10, <1>11,
       <1>12, <1>13, <1>14
    DEF Next, Jouer

-----------------------------------------------------------------------------
(* Every step keeps the table of active players *)

\* A game that closes frees its players and nobody else.
LEMMA ClotureActif ==
    ASSUME TypeOK, UnePartieActive, NEW G \in SUBSET Parties,
           NEW s \in Inactives,
           statut' = [g \in Parties |-> IF g \in G THEN s ELSE statut[g]],
           actif' = Liberes(G),
           UNCHANGED <<siegeA, siegeB>>
    PROVE  UnePartieActive'
  <1>1. \A u \in Joueurs, g \in Parties : actif'[u] = g <=> actif[u] = g /\ g \notin G
    BY AucuneHypothese DEF Liberes, TypeOK
  <1>2. \A g \in Parties : statut'[g] \in Actives <=> statut[g] \in Actives /\ g \notin G
    BY DEF TypeOK, Actives, Inactives, EnJeu
  <1>3. QED
    BY <1>1, <1>2 DEF UnePartieActive, Participants

LEMMA ClotureSeule ==
    ASSUME TypeOK, UnePartieActive, NEW g \in Parties, NEW s \in Inactives,
           statut' = [statut EXCEPT ![g] = s],
           actif' = Liberes({g}),
           UNCHANGED <<siegeA, siegeB>>
    PROVE  UnePartieActive'
  <1>1. statut' = [h \in Parties |-> IF h \in {g} THEN s ELSE statut[h]]
    BY DEF TypeOK
  <1>2. QED
    BY <1>1, ClotureActif

\* A game that stays active keeps its players.
LEMMA AvancerActif ==
    ASSUME TypeOK, UnePartieActive, NEW g \in Parties, statut[g] \in Actives,
           NEW s \in Actives, Avancer(g, s)
    PROVE  UnePartieActive'
  BY DEF TypeOK, UnePartieActive, Avancer, Participants

LEMMA ActifPas == TypeOK /\ Sieges /\ UnePartieActive /\ [Next]_vars => UnePartieActive'
  <1> SUFFICES ASSUME TypeOK, Sieges, UnePartieActive, [Next]_vars
               PROVE  UnePartieActive'
    OBVIOUS
  <1>1. ASSUME NEW u \in Joueurs, NEW g \in Parties,
               NEW i \in Joueurs \cup {Personne}, NEW m \in Mises,
               CreateGame(u, g, i, m)
        PROVE  UnePartieActive'
    BY <1>1, PersonneHypothese, AucuneHypothese
    DEF CreateGame, TypeOK, Sieges, UnePartieActive, Participants, Actives, EnJeu
  <1>2. ASSUME NEW u \in Joueurs, NEW g \in Parties, NEW r \in Joueurs,
               InviterJoueur(u, g, r) \/ AnnulerInvitation(u, g, r)
        PROVE  UnePartieActive'
    BY <1>2 DEF InviterJoueur, AnnulerInvitation, UnePartieActive, Participants
  <1>3. ASSUME NEW u \in Joueurs, NEW g \in Parties, NEW p \in Mises,
               JoinGame(u, g, p)
        PROVE  UnePartieActive'
    BY <1>3, PersonneHypothese, AucuneHypothese
    DEF JoinGame, PeutRejoindre, LibreHors, TypeOK, Sieges, UnePartieActive,
        Participants, Actives, EnJeu
  <1>4. ASSUME NEW u \in Joueurs, NEW g \in Parties, NEW n \in Parties,
               Revanche(u, g, n)
        PROVE  UnePartieActive'
    <2> DEFINE adversaire == IF u = siegeA[g] THEN siegeB[g] ELSE siegeA[g]
    <2>1. /\ statut[g] = "FINISHED" /\ statut[n] = "ABSENTE"
          /\ Liberes({g})[u] = Aucune /\ Liberes({g})[adversaire] = Aucune
          /\ statut' = [statut EXCEPT ![n] = "THEME_SELECTION"]
          /\ siegeA' = [siegeA EXCEPT ![n] = u]
          /\ siegeB' = [siegeB EXCEPT ![n] = adversaire]
          /\ actif' = [Liberes({g}) EXCEPT ![u] = n, ![adversaire] = n]
      BY <1>4 DEF Revanche
    <2>2. adversaire \in Joueurs
      BY <1>4 DEF Revanche, TypeOK
    <2> HIDE DEF adversaire
    <2>3. \A v \in Joueurs : actif[v] # g /\ actif[v] # n
      BY <2>1 DEF UnePartieActive, Actives, EnJeu
    <2>4. Liberes({g}) = actif
      BY <2>3 DEF Liberes, TypeOK
    <2>5. \A v \in Joueurs : actif'[v] = IF v \in {u, adversaire} THEN n ELSE actif[v]
      BY <2>1, <2>2, <2>4 DEF TypeOK
    <2>6. Participants(n)' = {u, adversaire}
      BY <2>1, <2>2, PersonneHypothese DEF TypeOK, Participants
    <2>7. \A h \in Parties \ {n} :
             statut'[h] = statut[h] /\ Participants(h)' = Participants(h)
      BY <2>1 DEF TypeOK, Participants
    <2>8. statut'[n] \in Actives
      BY <2>1 DEF TypeOK, Actives, EnJeu
    <2>9. \A v \in {u, adversaire}, h \in Parties :
             ~(statut[h] \in Actives /\ v \in Participants(h))
      BY <2>1, <2>2, <2>4, AucuneHypothese DEF UnePartieActive
    <2>10. QED
      BY <2>3, <2>5, <2>6, <2>7, <2>8, <2>9 DEF UnePartieActive
  <1>5. ASSUME NEW u \in Joueurs, NEW g \in Parties, RefuserEtGarder(u, g)
        PROVE  UnePartieActive'
    BY <1>5 DEF RefuserEtGarder, UnePartieActive, Participants
  <1>6. ASSUME NEW g \in Parties,
               ExpirerSalon(g) \/ \E u \in Joueurs : RefuserEtFermer(u, g)
        PROVE  UnePartieActive'
    <2>1. /\ \E s \in Inactives : statut' = [statut EXCEPT ![g] = s]
          /\ actif' = Liberes({g})
          /\ UNCHANGED places
      BY <1>6 DEF RefuserEtFermer, ExpirerSalon, FermerSalon, Inactives
    <2>2. QED
      BY <2>1, ClotureSeule
  <1>7. ASSUME NEW u \in Joueurs, NEW g \in Parties, AnnulerGame(u, g)
        PROVE  UnePartieActive'
    <2>1. /\ \E s \in Inactives : statut' = [statut EXCEPT ![g] = s]
          /\ actif' = Liberes({g})
          /\ UNCHANGED places
      BY <1>7 DEF AnnulerGame, Inactives
    <2>2. QED
      BY <2>1, ClotureSeule
  <1>8. ASSUME NEW g \in Parties, Vieillir(g) \/ Stagner(g)
        PROVE  UnePartieActive'
    BY <1>8 DEF Vieillir, Stagner, UnePartieActive, Participants
  <1>9. ASSUME NEW g \in Parties,
               SelectTheme(g) \/ StartAnswering(g) \/ FinishQuestion(g)
                 \/ AdvanceAfterResult(g)
        PROVE  UnePartieActive'
    BY <1>9, AvancerActif
    DEF SelectTheme, StartAnswering, FinishQuestion, AdvanceAfterResult, Actives, EnJeu
  <1>10. ASSUME NEW g \in Parties,
                FinishDraw(g) \/ \E w \in Joueurs : FinishGame(g, w)
         PROVE  UnePartieActive'
    <2>1. /\ statut' = [statut EXCEPT ![g] = "FINISHED"]
          /\ actif' = Liberes({g})
          /\ UNCHANGED places
      BY <1>10 DEF FinishDraw, FinishGame
    <2>2. QED
      BY <2>1, ClotureSeule DEF Inactives
  <1>11. CASE ListerBloquees
    BY <1>11 DEF ListerBloquees, UnePartieActive, Participants
  <1>12. CASE AbandonnerBloquees
    <2>1. CASE UNCHANGED <<statut, perimee, invitation, actif>>
      BY <1>12, <2>1 DEF AbandonnerBloquees, UnePartieActive, Participants
    <2>2. CASE /\ statut' = [g \in Parties |-> IF g \in balayage THEN "ABANDONED"
                                                                ELSE statut[g]]
               /\ actif' = Liberes(balayage)
      BY <1>12, <2>2, ClotureActif DEF AbandonnerBloquees, TypeOK, Inactives
    <2>3. QED
      BY <1>12, <2>1, <2>2 DEF AbandonnerBloquees
  <1>13. CASE UNCHANGED vars
    BY <1>13 DEF vars, UnePartieActive, Participants
  <1>14. QED
    BY <1>1, <1>2, <1>3, <1>4, <1>5, <1>6, <1>7, <1>8, <1>9, <1>10, <1>11,
       <1>12, <1>13
    DEF Next, Jouer

-----------------------------------------------------------------------------
(* Invariance *)

\* The inductive invariant: none of the three parts is inductive alone.  The
\* types need the seats (a stake goes back to the host of the room), the table
\* of active players needs both.
Structure == TypeOK /\ Sieges /\ UnePartieActive

LEMMA StructureInit == Init => Structure
  <1> SUFFICES ASSUME Init PROVE Structure
    OBVIOUS
  <1>1. TypeOK
    BY SoldeHypothese
    DEF Init, TypeOK, Statuts, EtatsInvitation, Banques, Cles
  <1>2. Sieges
    BY DEF Init, Sieges, EnJeu
  <1>3. UnePartieActive
    BY AucuneHypothese DEF Init, UnePartieActive, Actives, EnJeu
  <1>4. QED
    BY <1>1, <1>2, <1>3 DEF Structure

LEMMA StructurePas == Structure /\ [Next]_vars => Structure'
  BY TypePas, SiegesPas, ActifPas DEF Structure

THEOREM StructureInvariante == Spec => []Structure
  <1>1. Init => Structure
    BY StructureInit
  <1>2. Structure /\ [Next]_vars => Structure'
    BY StructurePas
  <1>3. QED
    BY <1>1, <1>2, PTL DEF Spec

\* Type correctness: in particular no balance of a wallet is ever negative.
THEOREM TypesCorrects == Spec => []TypeOK
  <1>1. Structure => TypeOK
    BY DEF Structure
  <1>2. QED
    BY <1>1, StructureInvariante, PTL

\* Nobody plays two games, and nobody is locked out by a game that is over
\* (active_game_service.py), however many players and games there are.
THEOREM UnePartieActiveInvariante == Spec => []UnePartieActive
  <1>1. Structure => UnePartieActive
    BY DEF Structure
  <1>2. QED
    BY <1>1, StructureInvariante, PTL

\* A game that was started has two different players, a room has only a host.
THEOREM SiegesInvariants == Spec => []Sieges
  <1>1. Structure => Sieges
    BY DEF Structure
  <1>2. QED
    BY <1>1, StructureInvariante, PTL

-----------------------------------------------------------------------------
(* What is at stake *)

\* What u has at stake, read in the table of active players
EnjeuDe(u) == IF actif[u] = Aucune THEN 0 ELSE MiseEffective(actif[u])

Couvert == \A u \in Joueurs : EnjeuDe(u) <= banque.bloque[u]

\* A room has no proposal yet
PropositionVide ==
    \A g \in Parties : statut[g] \in {"ABSENTE", "WAITING"} => proposee[g] = 0

\* The difference does not change in this step
ExcedentStable ==
    \A u \in Joueurs : banque'.bloque[u] - EnjeuDe(u)' = banque.bloque[u] - EnjeuDe(u)

LEMMA EnjeuDeType ==
    ASSUME TypeOK, NEW u \in Joueurs
    PROVE  EnjeuDe(u) \in Nat /\ banque.bloque[u] \in Nat
  <1>1. banque.bloque[u] \in Nat
    BY Champs DEF TypeOK
  <1>2. \A g \in Parties : MiseEffective(g) \in Nat
    BY EffectiveType DEF TypeOK, MiseEffective
  <1>3. QED
    BY <1>1, <1>2 DEF EnjeuDe, TypeOK

\* EnjeuDe and Enjeu agree, because the table of active players is right.
LEMMA EnjeuLu ==
    ASSUME Structure, NEW u \in Joueurs, NEW g \in Parties
    PROVE  /\ Enjeu(g, u) = IF actif[u] = g THEN MiseEffective(g) ELSE 0
           /\ actif[u] # Aucune => Enjeu(actif[u], u) = EnjeuDe(u)
  BY AucuneHypothese DEF Structure, TypeOK, UnePartieActive, Enjeu, EnjeuDe

\* The keys a closing game is going to write are not in the ledger yet.
LEMMA CleFraiche ==
    ASSUME ClesFraiches, NEW g \in Parties, statut[g] \in Actives,
           NEW op \in Operations \ {"reserve", "surplus"}, NEW x
    PROVE  CleDe(op, g, x) \notin banque.cles
  BY DEF ClesFraiches, CleValide, CleDe, Operations, Actives, Inactives, EnJeu

-----------------------------------------------------------------------------
(* What the steps do to the bank *)

LEMMA EngagementEffet ==
    ASSUME TypeOK, NEW g \in Parties, NEW u \in Joueurs, NEW p \in Nat,
           siegeA[g] \in Joueurs, siegeA[g] # u,
           PeutBloquer(banque, u, p, CleDe("reserve", g, u)),
           NEW r, r = MisesEngagees(u, g, p),
           NEW h, h = siegeA[g],
           NEW eff, eff = Effective(mise[g], p)
    PROVE  /\ banque.cles \subseteq r.cles
           /\ r.cles \subseteq banque.cles \cup {CleDe("reserve", g, u),
                                                 CleDe("surplus", g, h),
                                                 CleDe("surplus", g, u)}
           /\ \A v \in Joueurs \ {u, h} : r.bloque[v] = banque.bloque[v]
           /\ (/\ CleDe("reserve", g, u) \notin banque.cles
               /\ CleDe("surplus", g, h) \notin banque.cles
               /\ CleDe("surplus", g, u) \notin banque.cles
               /\ mise[g] <= banque.bloque[h])
              => /\ r.bloque[u] = banque.bloque[u] + eff
                 /\ r.bloque[h] = banque.bloque[h] - (mise[g] - eff)
  <1> DEFINE kr == CleDe("reserve", g, u)
             kh == CleDe("surplus", g, h)
             ku == CleDe("surplus", g, u)
             m  == mise[g]
             b1 == BloquerMise(banque, u, p, kr)
             b2 == IF m > eff THEN LibererMise(b1, h, m - eff, kh) ELSE b1
  <1>1. /\ kr \in Cles /\ kh \in Cles /\ ku \in Cles
        /\ kr # kh /\ kr # ku /\ kh # ku
    BY CleType DEF Operations, CleDe
  <1>2. /\ m \in Nat /\ eff \in Nat /\ eff <= m /\ (p > 0 => eff <= p)
        /\ banque \in Banques /\ h \in Joueurs /\ h # u /\ p > 0
    BY EffectiveType DEF TypeOK, PeutBloquer
  <1>3. kr \in banque.cles \/ p <= banque.dispo[u]
    BY DEF PeutBloquer
  <1>4. r = IF p > eff THEN LibererMise(b2, u, p - eff, ku) ELSE b2
    BY DEF MisesEngagees
  <1> HIDE DEF kr, kh, ku, m
  <1>5. Ajoute(banque, b1, u, p, kr)
    BY <1>1, <1>2, <1>3, BloquerPoint
  <1> HIDE DEF b1
  <1>6. Preleve(b1, b2, h, m - eff, kh, {kh})
    <2>1. b1 \in Banques /\ m - eff \in Nat
      BY <1>2, <1>5 DEF Ajoute
    <2>2. CASE m > eff
      BY <1>1, <1>2, <2>1, <2>2, LibererPoint
    <2>3. CASE ~(m > eff)
      BY <1>2, <2>1, <2>3, Champs DEF Preleve
    <2>4. QED
      BY <2>2, <2>3
  <1> HIDE DEF b2
  <1>7. Preleve(b2, r, u, p - eff, ku, {ku})
    <2>1. b2 \in Banques /\ p - eff \in Nat
      BY <1>2, <1>6 DEF Preleve
    <2>2. CASE p > eff
      BY <1>1, <1>4, <2>1, <2>2, LibererPoint
    <2>3. CASE ~(p > eff)
      BY <1>2, <1>4, <2>1, <2>3, Champs DEF Preleve
    <2>4. QED
      BY <2>2, <2>3
  <1>8. /\ banque.cles \subseteq r.cles /\ r.cles \subseteq banque.cles \cup {kr, kh, ku}
        /\ \A v \in Joueurs \ {u, h} : r.bloque[v] = banque.bloque[v]
    BY <1>5, <1>6, <1>7 DEF Ajoute, Preleve
  <1>9. ASSUME kr \notin banque.cles, kh \notin banque.cles, ku \notin banque.cles,
               m <= banque.bloque[h]
        PROVE  /\ r.bloque[u] = banque.bloque[u] + eff
               /\ r.bloque[h] = banque.bloque[h] - (m - eff)
    <2>1. banque.bloque[u] \in Nat /\ banque.bloque[h] \in Nat
      BY <1>2, Champs
    <2>2. b1.bloque[u] = banque.bloque[u] + p /\ b1.bloque[h] = banque.bloque[h]
      BY <1>2, <1>5, <1>9 DEF Ajoute
    <2>3. b2.bloque[u] = b1.bloque[u] /\ b2.bloque[h] = b1.bloque[h] - (m - eff)
      BY <1>1, <1>2, <1>5, <1>6, <1>9, <2>1, <2>2 DEF Ajoute, Preleve
    <2>4. r.bloque[h] = b2.bloque[h] /\ r.bloque[u] = b2.bloque[u] - (p - eff)
      BY <1>1, <1>2, <1>5, <1>6, <1>7, <1>9, <2>1, <2>2, <2>3 DEF Ajoute, Preleve
    <2>5. QED
      BY <1>2, <2>1, <2>2, <2>3, <2>4
  <1>10. QED
    BY <1>8, <1>9 DEF kr, kh, ku, m

\* The keys that only a step that closes g writes
ClesCloture(g) ==
    {CleDe(op, g, x) : op \in Operations \ {"reserve", "surplus"},
                       x \in Joueurs \cup {Personne}}

\* r is the bank after the effective stake left the blocked balance of every
\* participant of g, if no key of the closing was there before.
Solde(g, r) ==
    /\ banque.cles \subseteq r.cles
    /\ r.cles \subseteq banque.cles \cup ClesCloture(g)
    /\ \A v \in Joueurs \ Participants(g) : r.bloque[v] = banque.bloque[v]
    /\ (/\ banque.cles \cap ClesCloture(g) = {}
        /\ \A v \in Participants(g) : MiseEffective(g) <= banque.bloque[v])
       => \A v \in Participants(g) : r.bloque[v] = banque.bloque[v] - MiseEffective(g)

LEMMA ClesClotureDe ==
    ASSUME NEW g, NEW op \in Operations \ {"reserve", "surplus"},
           NEW x \in Joueurs \cup {Personne}
    PROVE  CleDe(op, g, x) \in ClesCloture(g)
  BY DEF ClesCloture

\* _rembourser_mises, and the draw of _finish_game
LEMMA RembourserSolde ==
    ASSUME TypeOK, NEW g \in Parties, siegeA[g] \in Joueurs, siegeA[g] # siegeB[g],
           NEW motif \in Operations \ {"reserve", "surplus"}
    PROVE  Solde(g, RembourserMises(g, motif))
  <1> DEFINE a  == siegeA[g]
             b  == siegeB[g]
             m  == MiseEffective(g)
             ka == CleDe(motif, g, a)
             kb == CleDe(motif, g, b)
             b1 == LibererMise(banque, a, m, ka)
             b2 == LibererMise(b1, b, m, kb)
             r  == RembourserMises(g, motif)
  <1>1. /\ b \in Joueurs \cup {Personne} /\ a # b /\ a \in Joueurs
        /\ Participants(g) = IF b = Personne THEN {a} ELSE {a, b}
    BY PersonneHypothese DEF TypeOK, Participants
  <1>2. /\ ka \in Cles /\ kb \in Cles /\ ka # kb
        /\ ka \in ClesCloture(g) /\ kb \in ClesCloture(g)
    BY <1>1, CleType, ClesClotureDe DEF CleDe
  <1>3. /\ m \in Nat /\ banque \in Banques /\ mise[g] \in Nat
        /\ mise[g] = 0 => m = 0
    BY EffectiveType DEF TypeOK, MiseEffective
  <1>4. r = IF mise[g] = 0 THEN banque ELSE IF b = Personne THEN b1 ELSE b2
    BY DEF RembourserMises
  <1>5. banque.bloque \in [Joueurs -> Nat]
    BY <1>3, Champs
  <1> HIDE DEF a, b, m, ka, kb, r
  <1>6. Preleve(banque, b1, a, m, ka, {ka})
    BY <1>1, <1>2, <1>3, LibererPoint
  <1> HIDE DEF b1
  <1>7. b \in Joueurs => Preleve(b1, b2, b, m, kb, {kb})
    <2>1. b1 \in Banques
      BY <1>6 DEF Preleve
    <2>2. QED
      BY <1>2, <1>3, <2>1, LibererPoint
  <1> HIDE DEF b2
  <1>8. CASE mise[g] = 0
    BY <1>1, <1>3, <1>4, <1>5, <1>8 DEF Solde, m, r
  <1>9. CASE mise[g] # 0 /\ b = Personne
    <2>1. Participants(g) = {a} /\ r = b1
      BY <1>1, <1>4, <1>9
    <2>2. QED
      BY <1>1, <1>2, <1>6, <2>1 DEF Solde, Preleve, m, r
  <1>10. CASE mise[g] # 0 /\ b # Personne
    <2>1. Participants(g) = {a, b} /\ r = b2 /\ b \in Joueurs
      BY <1>1, <1>4, <1>10
    <2>2. /\ banque.cles \subseteq r.cles /\ r.cles \subseteq banque.cles \cup {ka, kb}
          /\ \A v \in Joueurs \ {a, b} : r.bloque[v] = banque.bloque[v]
      BY <1>6, <1>7, <2>1 DEF Preleve
    <2>3. ASSUME banque.cles \cap ClesCloture(g) = {},
                 m <= banque.bloque[a], m <= banque.bloque[b]
          PROVE  /\ r.bloque[a] = banque.bloque[a] - m
                 /\ r.bloque[b] = banque.bloque[b] - m
      BY <1>1, <1>2, <1>6, <1>7, <2>1, <2>3 DEF Preleve
    <2>4. r.cles \subseteq banque.cles \cup ClesCloture(g)
      BY <1>2, <2>2
    <2>5. QED
      BY <2>1, <2>2, <2>3, <2>4 DEF Solde, m, r
  <1>11. QED
    BY <1>8, <1>9, <1>10

\* _liberer_mise_hote
LEMMA HoteSolde ==
    ASSUME TypeOK, Sieges, PropositionVide, NEW g \in Parties, statut[g] = "WAITING",
           NEW motif \in Operations \ {"reserve", "surplus"}
    PROVE  Solde(g, LibererMiseHote(g, motif))
  <1> DEFINE a == siegeA[g]
             m == mise[g]
             k == CleDe(motif, g, a)
             r == LibererMiseHote(g, motif)
  <1>1. a \in Joueurs /\ Participants(g) = {a}
    BY PersonneHypothese DEF TypeOK, Sieges, Participants
  <1>2. k \in Cles /\ k \in ClesCloture(g)
    BY <1>1, CleType, ClesClotureDe
  <1>3. m \in Nat /\ MiseEffective(g) = m /\ banque \in Banques
    BY DEF TypeOK, PropositionVide, MiseEffective, Effective
  <1>4. r = IF m = 0 THEN banque ELSE LibererMise(banque, a, m, k)
    BY DEF LibererMiseHote
  <1>5. banque.bloque \in [Joueurs -> Nat]
    BY <1>3, Champs
  <1> HIDE DEF a, m, k, r
  <1>6. Preleve(banque, LibererMise(banque, a, m, k), a, m, k, {k})
    BY <1>1, <1>2, <1>3, LibererPoint
  <1>7. CASE m = 0
    BY <1>1, <1>3, <1>4, <1>5, <1>7 DEF Solde, r
  <1>8. CASE m # 0
    BY <1>1, <1>2, <1>3, <1>4, <1>6, <1>8 DEF Solde, Preleve, r
  <1>9. QED
    BY <1>7, <1>8

\* regler_duel
LEMMA ReglerSolde ==
    ASSUME TypeOK, Sieges, NEW g \in Parties, NEW w \in Joueurs, FinishGame(g, w)
    PROVE  Solde(g, banque')
  <1> DEFINE l  == IF w = siegeA[g] THEN siegeB[g] ELSE siegeA[g]
             m  == MiseEffective(g)
             r  == ReglerDuel(banque, w, l, m, g)
             kp == CleDe("perdant", g, Personne)
             kg == CleDe("gagnant", g, Personne)
             kc == CleDe("gagnant:commission", g, Personne)
  <1>1. l \in Joueurs /\ l # w /\ Participants(g) = {w, l}
    BY PersonneHypothese DEF FinishGame, Sieges, EnJeu, TypeOK, Participants
  <1>2. /\ m \in Nat /\ banque \in Banques /\ mise[g] \in Nat
        /\ mise[g] = 0 => m = 0
    BY EffectiveType DEF TypeOK, MiseEffective
  <1>3. kp \in ClesCloture(g) /\ kg \in ClesCloture(g) /\ kc \in ClesCloture(g)
    BY ClesClotureDe DEF Operations
  <1>4. banque' = IF mise[g] > 0 THEN r ELSE banque
    BY DEF FinishGame
  <1>5. banque.bloque \in [Joueurs -> Nat]
    BY <1>2, Champs
  <1> HIDE DEF l, m
  <1>6. /\ banque.cles \subseteq r.cles
        /\ r.cles \subseteq banque.cles \cup {kp, kg, kc}
        /\ \A v \in Joueurs \ {w, l} : r.bloque[v] = banque.bloque[v]
        /\ (/\ w # l
            /\ kp \notin banque.cles /\ kg \notin banque.cles
            /\ m <= banque.bloque[w] /\ m <= banque.bloque[l])
           => /\ r.bloque[w] = banque.bloque[w] - m
              /\ r.bloque[l] = banque.bloque[l] - m
    BY <1>1, <1>2, ReglerPoint
  <1> HIDE DEF r, kp, kg, kc
  <1>7. CASE mise[g] > 0
    <2>1. banque' = r
      BY <1>4, <1>7
    <2>2. r.cles \subseteq banque.cles \cup ClesCloture(g)
      BY <1>3, <1>6
    <2>3. ASSUME banque.cles \cap ClesCloture(g) = {},
                 m <= banque.bloque[w], m <= banque.bloque[l]
          PROVE  /\ r.bloque[w] = banque.bloque[w] - m
                 /\ r.bloque[l] = banque.bloque[l] - m
      BY <1>1, <1>3, <1>6, <2>3
    <2>4. QED
      BY <1>1, <1>6, <2>1, <2>2, <2>3 DEF Solde, m
  <1>8. CASE ~(mise[g] > 0)
    BY <1>1, <1>2, <1>4, <1>5, <1>8 DEF Solde, m
  <1>9. QED
    BY <1>7, <1>8

-----------------------------------------------------------------------------
(* How the games progress *)

\* Players never leave their seats, a game that is over stays as it is, and a
\* game that was started does not become a room again.
Progres ==
    \A g \in Parties :
        /\ Participants(g) \subseteq Participants(g)'
        /\ statut[g] \in Inactives => statut'[g] = statut[g]
        /\ statut[g] \notin {"ABSENTE", "WAITING"} =>
             statut'[g] \notin {"ABSENTE", "WAITING"}

\* A step that moves g, which is not over, to status s and leaves the seats
LEMMA ProgresDe ==
    ASSUME TypeOK, NEW g \in Parties, statut[g] \notin Inactives,
           NEW s, s \notin {"ABSENTE", "WAITING"},
           statut' = [statut EXCEPT ![g] = s],
           UNCHANGED <<siegeA, siegeB>>
    PROVE  Progres
  BY DEF TypeOK, Progres, Participants

LEMMA ProgresNul ==
    ASSUME UNCHANGED <<statut, siegeA, siegeB>>
    PROVE  Progres
  BY DEF Progres, Participants

LEMMA ProgresPas == TypeOK /\ Sieges /\ [Next]_vars => Progres /\ (PropositionVide => PropositionVide')
  <1> SUFFICES ASSUME TypeOK, Sieges, [Next]_vars
               PROVE  Progres /\ (PropositionVide => PropositionVide')
    OBVIOUS
  <1> DEFINE But == Progres /\ (PropositionVide => PropositionVide')
  <1>1. ASSUME NEW u \in Joueurs, NEW g \in Parties,
               NEW i \in Joueurs \cup {Personne}, NEW m \in Mises,
               CreateGame(u, g, i, m)
        PROVE  But
    <2>1. Progres
      BY <1>1 DEF CreateGame, TypeOK, Sieges, Progres, Participants, Inactives
    <2>2. PropositionVide => PropositionVide'
      BY <1>1 DEF CreateGame, TypeOK, PropositionVide
    <2>3. QED
      BY <2>1, <2>2
  <1>2. ASSUME NEW u \in Joueurs, NEW g \in Parties, NEW r \in Joueurs,
               InviterJoueur(u, g, r) \/ AnnulerInvitation(u, g, r)
        PROVE  But
    BY <1>2, ProgresNul DEF InviterJoueur, AnnulerInvitation, PropositionVide
  <1>3. ASSUME NEW u \in Joueurs, NEW g \in Parties, NEW p \in Mises,
               JoinGame(u, g, p)
        PROVE  But
    <2>1. Progres
      BY <1>3 DEF JoinGame, PeutRejoindre, TypeOK, Progres, Participants, Inactives
    <2>2. PropositionVide => PropositionVide'
      BY <1>3 DEF JoinGame, TypeOK, PropositionVide
    <2>3. QED
      BY <2>1, <2>2
  <1>4. ASSUME NEW u \in Joueurs, NEW g \in Parties, NEW n \in Parties,
               Revanche(u, g, n)
        PROVE  But
    <2>1. /\ statut[n] = "ABSENTE" /\ UNCHANGED proposee
          /\ statut' = [statut EXCEPT ![n] = "THEME_SELECTION"]
          /\ \A h \in Parties \ {n} : siegeA'[h] = siegeA[h] /\ siegeB'[h] = siegeB[h]
      BY <1>4 DEF Revanche, TypeOK
    <2>2. Participants(n) = {}
      BY <2>1 DEF Sieges, Participants
    <2>3. Progres
      BY <2>1, <2>2 DEF TypeOK, Progres, Participants, Inactives
    <2>4. PropositionVide => PropositionVide'
      BY <2>1 DEF TypeOK, PropositionVide
    <2>5. QED
      BY <2>3, <2>4
  <1>5. ASSUME NEW u \in Joueurs, NEW g \in Parties, RefuserEtGarder(u, g)
        PROVE  But
    BY <1>5, ProgresNul DEF RefuserEtGarder, PropositionVide
  <1>6. ASSUME NEW g \in Parties,
               \/ ExpirerSalon(g) \/ FinishDraw(g)
               \/ SelectTheme(g) \/ StartAnswering(g) \/ FinishQuestion(g)
               \/ AdvanceAfterResult(g)
               \/ \E u \in Joueurs : \/ RefuserEtFermer(u, g) \/ AnnulerGame(u, g)
                                     \/ FinishGame(g, u)
        PROVE  But
    <2>1. /\ statut[g] \notin Inactives
          /\ \E s \in Statuts \ {"ABSENTE", "WAITING"} :
                statut' = [statut EXCEPT ![g] = s]
          /\ UNCHANGED <<siegeA, siegeB, proposee>>
      <3>1. CASE \/ ExpirerSalon(g) \/ FinishDraw(g)
                 \/ \E u \in Joueurs : \/ RefuserEtFermer(u, g) \/ AnnulerGame(u, g)
                                       \/ FinishGame(g, u)
        BY <3>1
        DEF ExpirerSalon, RefuserEtFermer, PeutRefuser, FermerSalon, AnnulerGame,
            FinishDraw, FinishGame, Statuts, Inactives
      <3>2. CASE SelectTheme(g) \/ StartAnswering(g) \/ FinishQuestion(g)
                   \/ AdvanceAfterResult(g)
        BY <3>2
        DEF SelectTheme, StartAnswering, FinishQuestion, AdvanceAfterResult,
            Avancer, Statuts, Actives, EnJeu, Inactives
      <3>3. QED
        BY <1>6, <3>1, <3>2
    <2>2. Progres
      BY <2>1, ProgresDe
    <2>3. PropositionVide => PropositionVide'
      BY <2>1 DEF TypeOK, PropositionVide
    <2>4. QED
      BY <2>2, <2>3
  <1>7. ASSUME NEW g \in Parties, Vieillir(g) \/ Stagner(g)
        PROVE  But
    BY <1>7, ProgresNul DEF Vieillir, Stagner, PropositionVide
  <1>8. CASE ListerBloquees
    BY <1>8, ProgresNul DEF ListerBloquees, PropositionVide
  <1>9. CASE AbandonnerBloquees
    <2>1. \A g \in Parties : \/ statut'[g] = statut[g]
                             \/ statut'[g] = "ABANDONED" /\ statut[g] \in EnJeu
      BY <1>9, AbandonEnJeu DEF AbandonnerBloquees, BalayageLeve
    <2>2. UNCHANGED places
      BY <1>9 DEF AbandonnerBloquees
    <2>3. Progres
      BY <2>1, <2>2 DEF Progres, Participants, EnJeu, Inactives
    <2>4. PropositionVide => PropositionVide'
      BY <2>1, <2>2 DEF PropositionVide
    <2>5. QED
      BY <2>3, <2>4
  <1>10. CASE UNCHANGED vars
    BY <1>10, ProgresNul DEF vars, PropositionVide
  <1>11. QED
    BY <1>1, <1>2, <1>3, <1>4, <1>5, <1>6, <1>7, <1>8, <1>9, <1>10
    DEF Next, Jouer

-----------------------------------------------------------------------------
(* The ledger keys *)

\* No key is ever removed, and every new key is one of a game that was not over
\* and is valid in the new state.
NouvellesCles ==
    /\ banque.cles \subseteq banque'.cles
    /\ \A k \in banque'.cles \ banque.cles :
          CleValide(k)' /\ k.partie \in Parties /\ statut[k.partie] \notin Inactives

LEMMA NouvellesClesCloture ==
    ASSUME TypeOK, NEW g \in Parties, statut[g] \notin Inactives,
           NEW s \in Inactives, statut' = [statut EXCEPT ![g] = s],
           Solde(g, banque')
    PROVE  NouvellesCles
  <1>1. statut'[g] \in Inactives
    BY DEF TypeOK
  <1>2. ASSUME NEW k \in banque'.cles \ banque.cles
        PROVE  CleValide(k)' /\ k.partie = g
    <2>1. k \in ClesCloture(g)
      BY DEF Solde
    <2>2. k.op \notin {"reserve", "surplus"} /\ k.partie = g
      BY <2>1 DEF ClesCloture, CleDe
    <2>3. QED
      BY <1>1, <2>2 DEF CleValide
  <1>3. QED
    BY <1>2 DEF NouvellesCles, Solde

LEMMA NouvellesClesNul ==
    ASSUME UNCHANGED banque
    PROVE  NouvellesCles
  BY DEF NouvellesCles

LEMMA ClesPas == Structure /\ PropositionVide /\ [Next]_vars => NouvellesCles
  <1> SUFFICES ASSUME Structure, PropositionVide, [Next]_vars
               PROVE  NouvellesCles
    OBVIOUS
  <1> USE DEF Structure
  <1>1. ASSUME NEW u \in Joueurs, NEW g \in Parties,
               NEW i \in Joueurs \cup {Personne}, NEW m \in Mises,
               CreateGame(u, g, i, m)
        PROVE  NouvellesCles
    <2> DEFINE k == CleDe("reserve", g, u)
    <2>1. m \in Nat /\ banque \in Banques /\ k \in Cles /\ m <= banque.dispo[u]
      BY <1>1, MisesHypothese, CleType DEF TypeOK, Operations, CreateGame
    <2>2. banque.cles \subseteq banque'.cles /\ banque'.cles \subseteq banque.cles \cup {k}
      <3>1. Ajoute(banque, BloquerMise(banque, u, m, k), u, m, k)
        BY <2>1, BloquerPoint
      <3>2. banque' = IF m > 0 THEN BloquerMise(banque, u, m, k) ELSE banque
        BY <1>1 DEF CreateGame
      <3>3. QED
        BY <3>1, <3>2 DEF Ajoute
    <2>3. u \in Participants(g)' /\ statut[g] = "ABSENTE"
      BY <1>1, PersonneHypothese DEF CreateGame, Participants, TypeOK
    <2>4. k.op = "reserve" /\ k.partie = g /\ k.qui = u
      BY DEF CleDe
    <2> HIDE DEF k
    <2>5. CleValide(k)'
      BY <2>3, <2>4 DEF CleValide
    <2>6. QED
      BY <2>2, <2>3, <2>4, <2>5 DEF NouvellesCles, Inactives
  <1>2. ASSUME NEW u \in Joueurs, NEW g \in Parties, NEW p \in Mises,
               JoinGame(u, g, p)
        PROVE  NouvellesCles
    <2> DEFINE h  == siegeA[g]
               kr == CleDe("reserve", g, u)
               kh == CleDe("surplus", g, h)
               ku == CleDe("surplus", g, u)
    <2>1. /\ p \in Nat /\ h \in Joueurs /\ h # u /\ statut[g] = "WAITING"
          /\ statut'[g] = "THEME_SELECTION" /\ u \in Participants(g)'
      BY <1>2, MisesHypothese, PersonneHypothese
      DEF JoinGame, PeutRejoindre, Participants, Sieges, TypeOK
    <2>2. banque.cles \subseteq banque'.cles
          /\ banque'.cles \subseteq banque.cles \cup {kr, kh, ku}
      <3>1. CASE mise[g] = 0
        BY <1>2, <3>1 DEF JoinGame
      <3>2. CASE mise[g] # 0
        <4>1. PeutBloquer(banque, u, p, kr) /\ banque' = MisesEngagees(u, g, p)
          BY <1>2, <3>2 DEF JoinGame, PeutProposer
        <4>2. QED
          BY <2>1, <4>1, EngagementEffet
      <3>3. QED
        BY <3>1, <3>2
    <2>3. /\ kr.op = "reserve" /\ kr.partie = g /\ kr.qui = u
          /\ kh.op = "surplus" /\ kh.partie = g
          /\ ku.op = "surplus" /\ ku.partie = g
      BY DEF CleDe
    <2> HIDE DEF kr, kh, ku
    <2>4. ASSUME NEW k, k \in {kr, kh, ku}
          PROVE  CleValide(k)' /\ k.partie = g
      BY <2>1, <2>3, <2>4 DEF CleValide
    <2>5. QED
      BY <2>1, <2>2, <2>4 DEF NouvellesCles, Inactives
  <1>3. ASSUME NEW u \in Joueurs, NEW g \in Parties, NEW n \in Parties,
               Revanche(u, g, n)
        PROVE  NouvellesCles
    <2> DEFINE adversaire == IF u = siegeA[g] THEN siegeB[g] ELSE siegeA[g]
               m  == mise[g]
               ku == CleDe("reserve", n, u)
               ka == CleDe("reserve", n, adversaire)
               b1 == BloquerMise(banque, u, m, ku)
               b2 == BloquerMise(b1, adversaire, m, ka)
    <2>1. /\ adversaire \in Joueurs /\ statut[n] = "ABSENTE"
          /\ siegeA' = [siegeA EXCEPT ![n] = u]
          /\ siegeB' = [siegeB EXCEPT ![n] = adversaire]
          /\ m > 0 => PeutBloquer(banque, u, m, ku) /\ PeutBloquer(b1, adversaire, m, ka)
          /\ banque' = IF m > 0 THEN b2 ELSE banque
      BY <1>3 DEF Revanche, TypeOK
    <2>2. m \in Nat /\ banque \in Banques
      BY DEF TypeOK
    <2>3. ku \in Cles /\ ka \in Cles
      BY <2>1, CleType DEF Operations
    <2>4. /\ ku.op = "reserve" /\ ku.partie = n /\ ku.qui = u
          /\ ka.op = "reserve" /\ ka.partie = n /\ ka.qui = adversaire
      BY DEF CleDe
    <2> HIDE DEF adversaire, m, ku, ka
    <2>5. m > 0 => Ajoute(banque, b1, u, m, ku)
      BY <2>1, <2>2, <2>3, BloquerPoint DEF PeutBloquer
    <2> HIDE DEF b1
    <2>6. m > 0 => Ajoute(b1, b2, adversaire, m, ka)
      <3>1. m > 0 => b1 \in Banques
        BY <2>5 DEF Ajoute
      <3>2. QED
        BY <2>1, <2>2, <2>3, <3>1, BloquerPoint DEF PeutBloquer
    <2> HIDE DEF b2
    <2>7. banque.cles \subseteq banque'.cles
          /\ banque'.cles \subseteq banque.cles \cup {ku, ka}
      BY <2>1, <2>2, <2>5, <2>6 DEF Ajoute
    <2>8. Participants(n)' = {u, adversaire}
      BY <2>1, PersonneHypothese DEF Participants, TypeOK
    <2>9. ASSUME NEW k, k \in {ku, ka}
          PROVE  CleValide(k)' /\ k.partie = n
      BY <2>4, <2>8, <2>9 DEF CleValide
    <2>10. QED
      BY <2>1, <2>7, <2>9 DEF NouvellesCles, Inactives
  <1>4. ASSUME NEW g \in Parties,
               ExpirerSalon(g) \/ \E u \in Joueurs : RefuserEtFermer(u, g)
        PROVE  NouvellesCles
    <2>1. /\ statut[g] = "WAITING"
          /\ \E s \in Inactives : statut' = [statut EXCEPT ![g] = s]
          /\ \E motif \in {"refus", "expiration"} : banque' = LibererMiseHote(g, motif)
      BY <1>4 DEF ExpirerSalon, RefuserEtFermer, PeutRefuser, FermerSalon, Inactives
    <2>2. Solde(g, banque')
      BY <2>1, HoteSolde DEF Operations
    <2>3. QED
      BY <2>1, <2>2, NouvellesClesCloture DEF Inactives
  <1>5. ASSUME NEW g \in Parties,
               FinishDraw(g) \/ \E u \in Joueurs : AnnulerGame(u, g)
        PROVE  NouvellesCles
    <2>1. /\ statut[g] \notin Inactives \cup {"ABSENTE"}
          /\ \E s \in Inactives : statut' = [statut EXCEPT ![g] = s]
          /\ \E motif \in {"egalite", "annulation", "abandon"} :
                banque' = RembourserMises(g, motif)
      BY <1>5, PersonneHypothese
      DEF FinishDraw, AnnulerGame, Inactives, Sieges, Participants
    <2>2. siegeA[g] \in Joueurs /\ siegeA[g] # siegeB[g]
      BY <2>1 DEF Sieges, TypeOK, Statuts, Actives, Inactives
    <2>3. Solde(g, banque')
      BY <2>1, <2>2, RembourserSolde DEF Operations
    <2>4. QED
      BY <2>1, <2>3, NouvellesClesCloture
  <1>6. ASSUME NEW g \in Parties, NEW w \in Joueurs, FinishGame(g, w)
        PROVE  NouvellesCles
    <2>1. /\ statut[g] \notin Inactives
          /\ statut' = [statut EXCEPT ![g] = "FINISHED"]
      BY <1>6 DEF FinishGame, Inactives
    <2>2. Solde(g, banque')
      BY <1>6, ReglerSolde
    <2>3. QED
      BY <2>1, <2>2, NouvellesClesCloture DEF Inactives
  <1>7. CASE UNCHANGED banque
    BY <1>7, NouvellesClesNul
  <1>8. ASSUME NEW g \in Parties, NEW u \in Joueurs, NEW r \in Joueurs,
               \/ InviterJoueur(u, g, r) \/ AnnulerInvitation(u, g, r)
               \/ RefuserEtGarder(u, g)
        PROVE  UNCHANGED banque
    BY <1>8 DEF InviterJoueur, AnnulerInvitation, RefuserEtGarder
  <1>9. ASSUME NEW g \in Parties,
               \/ Vieillir(g) \/ Stagner(g)
               \/ SelectTheme(g) \/ StartAnswering(g) \/ FinishQuestion(g)
               \/ AdvanceAfterResult(g)
        PROVE  UNCHANGED banque
    BY <1>9
    DEF Vieillir, Stagner, SelectTheme, StartAnswering, FinishQuestion,
        AdvanceAfterResult, Avancer
  <1>10. ASSUME ListerBloquees \/ AbandonnerBloquees \/ UNCHANGED vars
         PROVE  UNCHANGED banque
    BY <1>10 DEF ListerBloquees, AbandonnerBloquees, vars
  <1>11. QED
    BY <1>1, <1>2, <1>3, <1>4, <1>5, <1>6, <1>7, <1>8, <1>9, <1>10
    DEF Next, Jouer

-----------------------------------------------------------------------------
(* What is blocked beyond the stake *)

LEMMA ExcedentNul ==
    ASSUME UNCHANGED <<actif, mise, proposee, banque>>
    PROVE  ExcedentStable
  BY DEF ExcedentStable, EnjeuDe, MiseEffective

\* Closing g takes its effective stake from exactly those who had it at stake.
LEMMA ExcedentCloture ==
    ASSUME Structure, ClesFraiches, Couvert,
           NEW g \in Parties, statut[g] \in Actives,
           Solde(g, banque'), actif' = Liberes({g}), UNCHANGED <<mise, proposee>>
    PROVE  ExcedentStable
  <1> USE DEF Structure
  <1>1. banque.cles \cap ClesCloture(g) = {}
    BY CleFraiche DEF ClesCloture
  <1>2. \A v \in Joueurs : v \in Participants(g) <=> actif[v] = g
    BY DEF UnePartieActive
  <1>3. \A v \in Participants(g) : v \in Joueurs /\ EnjeuDe(v) = MiseEffective(g)
    BY <1>2, AucuneHypothese DEF Participants, TypeOK, EnjeuDe
  <1>4. \A v \in Participants(g) : MiseEffective(g) <= banque.bloque[v]
    BY <1>3 DEF Couvert
  <1>5. \A v \in Participants(g) : banque'.bloque[v] = banque.bloque[v] - MiseEffective(g)
    BY <1>1, <1>4 DEF Solde
  <1>6. ASSUME NEW v \in Joueurs, v \in Participants(g)
        PROVE  banque'.bloque[v] - EnjeuDe(v)' = banque.bloque[v] - EnjeuDe(v)
    <2>1. actif'[v] = Aucune
      BY <1>2, <1>6 DEF Liberes
    <2>2. EnjeuDe(v)' = 0
      BY <2>1 DEF EnjeuDe
    <2>3. EnjeuDe(v) = MiseEffective(g) /\ banque.bloque[v] \in Nat /\ EnjeuDe(v) \in Nat
      BY <1>3, <1>6, EnjeuDeType
    <2>4. QED
      BY <1>5, <1>6, <2>2, <2>3
  <1>7. ASSUME NEW v \in Joueurs, v \notin Participants(g)
        PROVE  banque'.bloque[v] - EnjeuDe(v)' = banque.bloque[v] - EnjeuDe(v)
    <2>1. actif'[v] = actif[v]
      BY <1>2, <1>7 DEF Liberes
    <2>2. EnjeuDe(v)' = EnjeuDe(v)
      BY <2>1 DEF EnjeuDe, MiseEffective
    <2>3. banque'.bloque[v] = banque.bloque[v]
      BY <1>7 DEF Solde
    <2>4. QED
      BY <2>2, <2>3
  <1>8. QED
    BY <1>6, <1>7 DEF ExcedentStable

LEMMA ExcedentCreation ==
    ASSUME Structure, ClesFraiches, PropositionVide,
           NEW u \in Joueurs, NEW g \in Parties, NEW i \in Joueurs \cup {Personne},
           NEW m \in Mises, CreateGame(u, g, i, m)
    PROVE  ExcedentStable
  <1> USE DEF Structure
  <1> DEFINE k == CleDe("reserve", g, u)
  <1>1. /\ m \in Nat /\ banque \in Banques /\ k \in Cles /\ m <= banque.dispo[u]
    BY MisesHypothese, CleType DEF TypeOK, Operations, CreateGame
  <1>2. /\ statut[g] = "ABSENTE" /\ actif[u] = Aucune
        /\ actif' = [actif EXCEPT ![u] = g]
        /\ mise' = [mise EXCEPT ![g] = m] /\ UNCHANGED proposee
        /\ banque' = IF m > 0 THEN BloquerMise(banque, u, m, k) ELSE banque
    BY DEF CreateGame
  <1>3. k \notin banque.cles
    BY <1>2 DEF ClesFraiches, CleValide, CleDe, Sieges, Participants
  <1> HIDE DEF k
  <1>4. banque.bloque \in [Joueurs -> Nat]
    BY <1>1, Champs
  <1>5. /\ banque'.bloque[u] = banque.bloque[u] + m
        /\ \A v \in Joueurs \ {u} : banque'.bloque[v] = banque.bloque[v]
    <2>1. Ajoute(banque, BloquerMise(banque, u, m, k), u, m, k)
      BY <1>1, BloquerPoint
    <2>2. QED
      BY <1>1, <1>2, <1>3, <1>4, <2>1 DEF Ajoute
  <1>6. EnjeuDe(u) = 0 /\ EnjeuDe(u)' = m
    <2>1. actif'[u] = g /\ mise'[g] = m /\ proposee'[g] = 0
      BY <1>2 DEF TypeOK, PropositionVide
    <2>2. QED
      BY <1>2, <2>1, AucuneHypothese DEF EnjeuDe, MiseEffective, Effective
  <1>7. ASSUME NEW v \in Joueurs \ {u}
        PROVE  EnjeuDe(v)' = EnjeuDe(v)
    <2>1. actif'[v] = actif[v] /\ actif[v] # g
      BY <1>2 DEF TypeOK, UnePartieActive, Actives, EnJeu
    <2>2. actif[v] # Aucune => mise'[actif[v]] = mise[actif[v]]
      BY <1>2, <2>1 DEF TypeOK
    <2>3. QED
      BY <1>2, <2>1, <2>2 DEF EnjeuDe, MiseEffective
  <1>8. QED
    BY <1>1, <1>4, <1>5, <1>6, <1>7 DEF ExcedentStable

LEMMA ExcedentJonction ==
    ASSUME Structure, ClesFraiches, PropositionVide, Couvert,
           NEW u \in Joueurs, NEW g \in Parties, NEW p \in Mises, JoinGame(u, g, p),
           NEW h, h = siegeA[g],
           NEW eff, eff = Effective(mise[g], p)
    PROVE  ExcedentStable
  <1> USE DEF Structure
  <1>1. /\ p \in Nat /\ h \in Joueurs /\ h # u /\ statut[g] = "WAITING"
        /\ u \notin Participants(g) /\ h \in Participants(g)
    BY MisesHypothese, PersonneHypothese
    DEF JoinGame, PeutRejoindre, Participants, Sieges, TypeOK
  <1>2. actif[h] = g /\ actif[u] = Aucune
    BY <1>1 DEF JoinGame, PeutRejoindre, LibreHors, UnePartieActive, Actives, EnJeu
  <1>3. /\ actif' = [actif EXCEPT ![u] = g]
        /\ proposee' = [proposee EXCEPT ![g] = p] /\ UNCHANGED mise
    BY DEF JoinGame
  <1>4. /\ mise[g] \in Nat /\ eff \in Nat /\ eff <= mise[g]
        /\ MiseEffective(g) = mise[g]
    BY <1>1, EffectiveType DEF TypeOK, PropositionVide, MiseEffective, Effective
  <1>5. banque.bloque \in [Joueurs -> Nat] /\ mise[g] <= banque.bloque[h]
    BY <1>1, <1>2, <1>4, Champs, AucuneHypothese DEF TypeOK, Couvert, EnjeuDe
  <1>6. /\ CleDe("reserve", g, u) \notin banque.cles
        /\ CleDe("surplus", g, h) \notin banque.cles
        /\ CleDe("surplus", g, u) \notin banque.cles
    BY <1>1 DEF ClesFraiches, CleValide, CleDe
  <1>7. /\ banque'.bloque[u] = banque.bloque[u] + eff
        /\ banque'.bloque[h] = banque.bloque[h] - (mise[g] - eff)
        /\ \A v \in Joueurs \ {u, h} : banque'.bloque[v] = banque.bloque[v]
    <2>1. CASE mise[g] = 0
      BY <1>1, <1>4, <1>5, <2>1 DEF JoinGame
    <2>2. CASE mise[g] # 0
      <3>1. PeutBloquer(banque, u, p, CleDe("reserve", g, u))
            /\ banque' = MisesEngagees(u, g, p)
        BY <2>2 DEF JoinGame, PeutProposer
      <3>2. QED
        BY <1>1, <1>5, <1>6, <3>1, EngagementEffet
    <2>3. QED
      BY <2>1, <2>2
  <1>8. MiseEffective(g)' = eff
    BY <1>3 DEF TypeOK, MiseEffective
  <1>9. /\ EnjeuDe(u) = 0 /\ EnjeuDe(u)' = eff
        /\ EnjeuDe(h) = mise[g] /\ EnjeuDe(h)' = eff
    <2>1. actif'[u] = g /\ actif'[h] = g
      BY <1>1, <1>2, <1>3 DEF TypeOK
    <2>2. QED
      BY <1>2, <1>4, <1>8, <2>1, AucuneHypothese DEF EnjeuDe, MiseEffective
  <1>10. ASSUME NEW v \in Joueurs \ {u, h}
         PROVE  EnjeuDe(v)' = EnjeuDe(v)
    <2>1. v \notin Participants(g)
      BY <1>1, <1>10 DEF Participants, Sieges
    <2>2. actif'[v] = actif[v] /\ actif[v] # g
      BY <1>3, <2>1 DEF TypeOK, UnePartieActive
    <2>3. actif[v] # Aucune => proposee'[actif[v]] = proposee[actif[v]]
      BY <1>3, <2>2 DEF TypeOK
    <2>4. QED
      BY <1>3, <2>2, <2>3 DEF EnjeuDe, MiseEffective
  <1>11. QED
    BY <1>1, <1>4, <1>5, <1>7, <1>9, <1>10 DEF ExcedentStable

LEMMA ExcedentRevanche ==
    ASSUME Structure, ClesFraiches, PropositionVide,
           NEW u \in Joueurs, NEW g \in Parties, NEW n \in Parties, Revanche(u, g, n),
           NEW a, a = (IF u = siegeA[g] THEN siegeB[g] ELSE siegeA[g])
    PROVE  ExcedentStable
  <1> USE DEF Structure
  <1> DEFINE m  == mise[g]
             ku == CleDe("reserve", n, u)
             ka == CleDe("reserve", n, a)
             b1 == BloquerMise(banque, u, m, ku)
             b2 == BloquerMise(b1, a, m, ka)
  <1>1. /\ statut[g] = "FINISHED" /\ statut[n] = "ABSENTE"
        /\ u \in Joueurs /\ a \in Joueurs /\ a # u
        /\ m \in Nat /\ banque \in Banques
    BY PersonneHypothese DEF Revanche, TypeOK, Sieges, Participants
  <1>2. Liberes({g}) = actif
    BY <1>1, AucuneHypothese
    DEF Liberes, TypeOK, UnePartieActive, Actives, EnJeu
  <1>3. /\ actif[u] = Aucune /\ actif[a] = Aucune
        /\ actif' = [actif EXCEPT ![u] = n, ![a] = n]
        /\ mise' = [mise EXCEPT ![n] = m] /\ UNCHANGED proposee
        /\ m > 0 => PeutBloquer(banque, u, m, ku) /\ PeutBloquer(b1, a, m, ka)
        /\ banque' = IF m > 0 THEN b2 ELSE banque
    BY <1>2 DEF Revanche
  <1>4. /\ ku \in Cles /\ ka \in Cles /\ ku # ka
        /\ ku \notin banque.cles /\ ka \notin banque.cles
    <2>1. ku \in Cles /\ ka \in Cles /\ ku # ka
      BY <1>1, CleType DEF Operations, CleDe
    <2>2. Participants(n) = {}
      BY <1>1 DEF Sieges, Participants
    <2>3. ku \notin banque.cles /\ ka \notin banque.cles
      BY <1>1, <2>2 DEF ClesFraiches, CleValide, CleDe
    <2>4. QED
      BY <2>1, <2>3
  <1>5. banque.bloque \in [Joueurs -> Nat]
    BY <1>1, Champs
  <1>6. mise'[n] = m /\ proposee'[n] = 0 /\ MiseEffective(n)' = m
    BY <1>1, <1>3 DEF TypeOK, PropositionVide, MiseEffective, Effective
  <1> HIDE DEF m, ku, ka
  <1>7. m > 0 => Ajoute(banque, b1, u, m, ku)
    BY <1>1, <1>3, <1>4, BloquerPoint DEF PeutBloquer
  <1> HIDE DEF b1
  <1>8. m > 0 => Ajoute(b1, b2, a, m, ka)
    <2>1. m > 0 => b1 \in Banques
      BY <1>7 DEF Ajoute
    <2>2. QED
      BY <1>1, <1>3, <1>4, <2>1, BloquerPoint DEF PeutBloquer
  <1> HIDE DEF b2
  <1>9. /\ banque'.bloque[u] = banque.bloque[u] + m
        /\ banque'.bloque[a] = banque.bloque[a] + m
        /\ \A v \in Joueurs \ {u, a} : banque'.bloque[v] = banque.bloque[v]
    <2>1. CASE m > 0
      <3>1. Ajoute(banque, b1, u, m, ku) /\ Ajoute(b1, b2, a, m, ka) /\ banque' = b2
        BY <1>3, <1>7, <1>8, <2>1
      <3>2. ka \notin b1.cles
        BY <1>4, <3>1 DEF Ajoute
      <3>3. QED
        BY <1>1, <1>4, <1>5, <3>1, <3>2 DEF Ajoute
    <2>2. CASE ~(m > 0)
      BY <1>1, <1>3, <1>5, <2>2
    <2>3. QED
      BY <2>1, <2>2
  <1>10. ASSUME NEW v \in {u, a}
         PROVE  EnjeuDe(v) = 0 /\ EnjeuDe(v)' = m
    <2>1. actif[v] = Aucune /\ actif'[v] = n
      BY <1>1, <1>3, <1>10 DEF TypeOK
    <2>2. QED
      BY <1>6, <2>1, AucuneHypothese DEF EnjeuDe, MiseEffective
  <1>11. ASSUME NEW v \in Joueurs \ {u, a}
         PROVE  EnjeuDe(v)' = EnjeuDe(v)
    <2>1. actif'[v] = actif[v] /\ actif[v] # n
      BY <1>1, <1>3, <1>11 DEF TypeOK, UnePartieActive, Actives, EnJeu
    <2>2. actif[v] # Aucune => mise'[actif[v]] = mise[actif[v]]
      BY <1>3, <2>1 DEF TypeOK
    <2>3. QED
      BY <1>3, <2>1, <2>2 DEF EnjeuDe, MiseEffective
  <1>12. QED
    BY <1>1, <1>5, <1>9, <1>10, <1>11 DEF ExcedentStable

\* Every step but the sweep moves what is blocked as much as what is at stake.
LEMMA ExcedentPas ==
    ASSUME Structure, ClesFraiches, PropositionVide, Couvert, [Next]_vars,
           ~AbandonnerBloquees
    PROVE  ExcedentStable
  <1> USE DEF Structure
  <1>1. ASSUME NEW u \in Joueurs, NEW g \in Parties,
               NEW i \in Joueurs \cup {Personne}, NEW m \in Mises,
               CreateGame(u, g, i, m)
        PROVE  ExcedentStable
    BY <1>1, ExcedentCreation
  <1>2. ASSUME NEW u \in Joueurs, NEW g \in Parties, NEW p \in Mises, JoinGame(u, g, p)
        PROVE  ExcedentStable
    BY <1>2, ExcedentJonction
  <1>3. ASSUME NEW u \in Joueurs, NEW g \in Parties, NEW n \in Parties, Revanche(u, g, n)
        PROVE  ExcedentStable
    BY <1>3, ExcedentRevanche
  <1>4. ASSUME NEW g \in Parties,
               ExpirerSalon(g) \/ \E u \in Joueurs : RefuserEtFermer(u, g)
        PROVE  ExcedentStable
    <2>1. /\ statut[g] = "WAITING" /\ actif' = Liberes({g})
          /\ UNCHANGED <<mise, proposee>>
          /\ \E motif \in {"refus", "expiration"} : banque' = LibererMiseHote(g, motif)
      BY <1>4 DEF ExpirerSalon, RefuserEtFermer, PeutRefuser, FermerSalon
    <2>2. Solde(g, banque')
      BY <2>1, HoteSolde DEF Operations
    <2>3. QED
      BY <2>1, <2>2, ExcedentCloture DEF Actives
  <1>5. ASSUME NEW g \in Parties,
               FinishDraw(g) \/ \E u \in Joueurs : AnnulerGame(u, g)
        PROVE  ExcedentStable
    <2>1. /\ statut[g] \in Actives /\ actif' = Liberes({g})
          /\ UNCHANGED <<mise, proposee>>
          /\ \E motif \in {"egalite", "annulation", "abandon"} :
                banque' = RembourserMises(g, motif)
      BY <1>5, PersonneHypothese
      DEF FinishDraw, AnnulerGame, Actives, EnJeu, Inactives, Statuts, Sieges,
          Participants, TypeOK
    <2>2. siegeA[g] \in Joueurs /\ siegeA[g] # siegeB[g]
      BY <2>1 DEF Sieges, TypeOK, Statuts, Actives, Inactives
    <2>3. Solde(g, banque')
      BY <2>1, <2>2, RembourserSolde DEF Operations
    <2>4. QED
      BY <2>1, <2>3, ExcedentCloture
  <1>6. ASSUME NEW g \in Parties, NEW w \in Joueurs, FinishGame(g, w)
        PROVE  ExcedentStable
    <2>1. /\ statut[g] \in Actives /\ actif' = Liberes({g})
          /\ UNCHANGED <<mise, proposee>>
      BY <1>6 DEF FinishGame, Actives, EnJeu
    <2>2. Solde(g, banque')
      BY <1>6, ReglerSolde
    <2>3. QED
      BY <2>1, <2>2, ExcedentCloture
  <1>7. CASE UNCHANGED <<actif, mise, proposee, banque>>
    BY <1>7, ExcedentNul
  <1>8. ASSUME NEW g \in Parties, NEW u \in Joueurs, NEW r \in Joueurs,
               \/ InviterJoueur(u, g, r) \/ AnnulerInvitation(u, g, r)
               \/ RefuserEtGarder(u, g)
        PROVE  UNCHANGED <<actif, mise, proposee, banque>>
    BY <1>8 DEF InviterJoueur, AnnulerInvitation, RefuserEtGarder
  <1>9. ASSUME NEW g \in Parties,
               \/ Vieillir(g) \/ Stagner(g)
               \/ SelectTheme(g) \/ StartAnswering(g) \/ FinishQuestion(g)
               \/ AdvanceAfterResult(g)
        PROVE  UNCHANGED <<actif, mise, proposee, banque>>
    BY <1>9
    DEF Vieillir, Stagner, SelectTheme, StartAnswering, FinishQuestion,
        AdvanceAfterResult, Avancer
  <1>10. ASSUME ListerBloquees \/ UNCHANGED vars
         PROVE  UNCHANGED <<actif, mise, proposee, banque>>
    BY <1>10 DEF ListerBloquees, vars
  <1>11. QED
    BY <1>1, <1>2, <1>3, <1>4, <1>5, <1>6, <1>7, <1>8, <1>9, <1>10
    DEF Next, Jouer

-----------------------------------------------------------------------------
(* The inductive invariant *)

(* What is at stake is covered only if each key does its work (ClesFraiches), *)
(* a new key is valid only if the seats follow the status (Structure), and    *)
(* the stake of a room is the whole stake of its host (PropositionVide).      *)
Engagements == Structure /\ ClesFraiches /\ PropositionVide /\ Couvert

LEMMA EngagementsInit == Init => Engagements
  <1> SUFFICES ASSUME Init PROVE Engagements
    OBVIOUS
  <1>1. Structure
    BY StructureInit
  <1>2. ClesFraiches /\ PropositionVide
    BY DEF Init, ClesFraiches, PropositionVide
  <1>3. Couvert
    <2>1. \A u \in Joueurs : actif[u] = Aucune /\ banque.bloque[u] = 0
      BY DEF Init
    <2>2. QED
      <3> SUFFICES ASSUME NEW u \in Joueurs PROVE EnjeuDe(u) <= banque.bloque[u]
        BY DEF Couvert
      <3>1. EnjeuDe(u) = 0 /\ banque.bloque[u] = 0
        BY <2>1 DEF EnjeuDe
      <3>2. QED
        BY <3>1
  <1>4. QED
    BY <1>1, <1>2, <1>3 DEF Engagements

LEMMA ClesFraichesPas ==
    ASSUME Structure, PropositionVide, ClesFraiches, [Next]_vars
    PROVE  ClesFraiches'
  <1>1. Progres /\ NouvellesCles
    BY ProgresPas, ClesPas DEF Structure
  <1>2. ASSUME NEW k \in banque.cles
        PROVE  CleValide(k)'
    <2>1. CleValide(k) /\ k.partie \in Parties
      BY <1>2 DEF ClesFraiches, Structure, TypeOK, Banques, Cles
    <2>2. QED
      BY <1>1, <2>1 DEF Progres, CleValide
  <1>3. QED
    BY <1>1, <1>2 DEF NouvellesCles, ClesFraiches

\* The sweep frees players and leaves every stake where it is.
LEMMA BalayageCouvre ==
    ASSUME Structure, Couvert, AbandonnerBloquees
    PROVE  Couvert'
  <1> SUFFICES ASSUME NEW u \in Joueurs
               PROVE  EnjeuDe(u)' <= banque'.bloque[u]
    BY DEF Couvert
  <1>1. EnjeuDe(u) \in Nat /\ banque.bloque[u] \in Nat /\ EnjeuDe(u) <= banque.bloque[u]
    BY EnjeuDeType DEF Structure, Couvert
  <1>2. UNCHANGED <<mise, proposee, banque>> /\ actif'[u] \in {actif[u], Aucune}
    BY DEF AbandonnerBloquees, Liberes
  <1>3. EnjeuDe(u)' \in {EnjeuDe(u), 0}
    BY <1>2 DEF EnjeuDe, MiseEffective
  <1>4. QED
    BY <1>1, <1>2, <1>3

EnjeuxEntiers == \A u \in Joueurs : EnjeuDe(u) \in Nat /\ banque.bloque[u] \in Nat

LEMMA EnjeuxTypes == TypeOK => EnjeuxEntiers
  BY EnjeuDeType DEF EnjeuxEntiers

LEMMA EnjeuxTypesSuivants == TypeOK' => EnjeuxEntiers'
  BY EnjeuxTypes, PTL

LEMMA EngagementsPas == Engagements /\ [Next]_vars => Engagements'
  <1> SUFFICES ASSUME Engagements, [Next]_vars PROVE Engagements'
    OBVIOUS
  <1> USE DEF Engagements
  <1>1. Structure' /\ PropositionVide'
    BY StructurePas, ProgresPas DEF Structure
  <1>2. ClesFraiches'
    BY ClesFraichesPas
  <1>3. Couvert'
    <2>1. CASE AbandonnerBloquees
      BY <2>1, BalayageCouvre
    <2>2. CASE ~AbandonnerBloquees
      <3>1. ExcedentStable
        BY <2>2, ExcedentPas
      <3>2. \A u \in Joueurs : EnjeuDe(u) \in Nat /\ banque.bloque[u] \in Nat
        BY EnjeuDeType DEF Structure
      <3>3. \A u \in Joueurs : EnjeuDe(u)' \in Nat /\ banque'.bloque[u] \in Nat
        BY <1>1, EnjeuxTypesSuivants DEF Structure, EnjeuxEntiers
      <3>4. QED
        BY <3>1, <3>2, <3>3 DEF ExcedentStable, Couvert
    <2>3. QED
      BY <2>1, <2>2
  <1>4. QED
    BY <1>1, <1>2, <1>3

THEOREM EngagementsInvariants == Spec => []Engagements
  <1>1. Init => Engagements
    BY EngagementsInit
  <1>2. Engagements /\ [Next]_vars => Engagements'
    BY EngagementsPas
  <1>3. QED
    BY <1>1, <1>2, PTL DEF Spec

\* No key of the ledger swallows a move of money that is still to come
\* (_entree_existe of wallet/services.py never answers yes by accident).
THEOREM ClesFraichesInvariante == Spec => []ClesFraiches
  <1>1. Engagements => ClesFraiches
    BY DEF Engagements
  <1>2. QED
    BY <1>1, EngagementsInvariants, PTL

\* Whoever plays has the stake of his game blocked: the min() of liberer_mise,
\* consommer_mise and payer_gain never cuts an amount, sweep or no sweep.
THEOREM SolvabiliteInvariante == Spec => []Solvabilite
  <1>1. Engagements => Solvabilite
    <2> SUFFICES ASSUME Engagements, NEW g \in Parties, NEW u \in Joueurs
                 PROVE  Enjeu(g, u) <= banque.bloque[u]
      BY DEF Solvabilite
    <2>1. /\ Enjeu(g, u) = IF actif[u] = g THEN MiseEffective(g) ELSE 0
          /\ EnjeuDe(u) <= banque.bloque[u] /\ banque.bloque[u] \in Nat
      BY EnjeuLu, EnjeuDeType DEF Engagements, Structure, Couvert
    <2>2. CASE actif[u] = g
      BY <2>1, <2>2, AucuneHypothese DEF EnjeuDe
    <2>3. CASE actif[u] # g
      BY <2>1, <2>3
    <2>4. QED
      BY <2>2, <2>3
  <1>2. QED
    BY <1>1, EngagementsInvariants, PTL

\* Wallets are settled once: a game that is over keeps its status and its keys
\* (regler_duel, _rembourser_mises and the refund of a room).
THEOREM ReglementUniqueTheoreme == Spec => ReglementUnique
  <1>1. ASSUME Engagements, [Next]_vars
        PROVE  \A g \in Parties :
                 statut[g] \in Inactives =>
                   /\ statut'[g] = statut[g]
                   /\ {k \in banque'.cles : k.partie = g}
                        = {k \in banque.cles : k.partie = g}
    <2>1. Progres /\ NouvellesCles
      BY <1>1, ProgresPas, ClesPas DEF Engagements, Structure
    <2>2. QED
      BY <2>1 DEF Progres, NouvellesCles
  <1>2. QED
    BY <1>1, EngagementsInvariants, PTL DEF Spec, ReglementUnique

-----------------------------------------------------------------------------
(* Without the sweep of stuck games *)

\* The sweep never runs, and nothing is blocked beyond the stakes.
Exact ==
    /\ balayage = {}
    /\ \A u \in Joueurs : banque.bloque[u] = EnjeuDe(u)

LEMMA ExactPas ==
    ASSUME ~BalayageAbandon, Engagements, Exact, [Next]_vars, Engagements'
    PROVE  Exact'
  <1>1. ~AbandonnerBloquees
    BY DEF Exact, AbandonnerBloquees
  <1>2. balayage' = {}
    <2>1. CASE UNCHANGED balayage
      BY <2>1 DEF Exact
    <2>2. CASE ListerBloquees
      BY <2>2 DEF ListerBloquees
    <2>3. CASE [\E g \in Parties : Jouer(g)]_vars
      BY <2>3, <2>1
      DEF vars, Jouer, SelectTheme, StartAnswering, FinishQuestion,
          AdvanceAfterResult, Avancer, FinishGame, FinishDraw, Stagner
    <2>4. CASE \E g \in Parties : Vieillir(g) \/ ExpirerSalon(g)
      BY <2>1, <2>4 DEF Vieillir, ExpirerSalon, FermerSalon
    <2>5. ASSUME NEW u \in Joueurs, NEW g \in Parties,
                 \/ \E i \in Joueurs \cup {Personne}, m \in Mises : CreateGame(u, g, i, m)
                 \/ \E r \in Joueurs : InviterJoueur(u, g, r) \/ AnnulerInvitation(u, g, r)
                 \/ \E p \in Mises : JoinGame(u, g, p)
                 \/ \E n \in Parties : Revanche(u, g, n)
                 \/ RefuserEtGarder(u, g)
                 \/ RefuserEtFermer(u, g)
                 \/ AnnulerGame(u, g)
          PROVE  UNCHANGED balayage
      BY <2>5
      DEF CreateGame, InviterJoueur, AnnulerInvitation, JoinGame, Revanche,
          RefuserEtGarder, RefuserEtFermer, FermerSalon, AnnulerGame
    <2>6. QED
      BY <1>1, <2>1, <2>2, <2>3, <2>4, <2>5 DEF Next
  <1>3. ExcedentStable
    BY <1>1, ExcedentPas DEF Engagements
  <1>4. \A u \in Joueurs : EnjeuDe(u) \in Nat /\ banque.bloque[u] \in Nat
    BY EnjeuDeType DEF Engagements, Structure
  <1>5. \A u \in Joueurs : EnjeuDe(u)' \in Nat /\ banque'.bloque[u] \in Nat
    BY EnjeuxTypesSuivants DEF Engagements, Structure, EnjeuxEntiers
  <1>6. QED
    BY <1>2, <1>3, <1>4, <1>5 DEF ExcedentStable, Exact

\* Without the sweep, the blocked balance of a player is his stake, to the cent.
THEOREM ExactInvariant ==
    ASSUME ~BalayageAbandon
    PROVE  Spec => []Exact
  <1>1. Init => Exact
    <2> SUFFICES ASSUME Init PROVE Exact
      OBVIOUS
    <2>1. \A u \in Joueurs : actif[u] = Aucune /\ banque.bloque[u] = 0
      BY DEF Init
    <2>2. balayage = {}
      BY DEF Init
    <2>3. QED
      BY <2>1, <2>2 DEF Exact, EnjeuDe
  <1>2. ASSUME Engagements, Engagements', Exact, [Next]_vars
        PROVE  Exact'
    BY <1>2, ExactPas
  <1>3. QED
    BY <1>1, <1>2, EngagementsInvariants, PTL DEF Spec

\* Nothing stays blocked for nothing, as long as the sweep of stuck games is
\* not scheduled, which it is not (CELERY_BEAT_SCHEDULE of config/settings).
THEOREM AucuneMiseOublieeInvariante ==
    ASSUME ~BalayageAbandon
    PROVE  Spec => []AucuneMiseOubliee
  <1>1. ASSUME Engagements, Exact
        PROVE  AucuneMiseOubliee
    <2>1. \A u \in Joueurs : actif[u] # Aucune => Enjeu(actif[u], u) = EnjeuDe(u)
      BY <1>1, EnjeuLu DEF Engagements, Structure, TypeOK
    <2>2. QED
      BY <1>1, <2>1 DEF Exact, EnjeuDe, AucuneMiseOubliee
  <1>2. QED
    BY <1>1, EngagementsInvariants, ExactInvariant, PTL
-----------------------------------------------------------------------------
(* Invitations *)

LEMMA InvitationsNul ==
    ASSUME UNCHANGED <<invite, invitation>>,
           \A h \in Parties : statut[h] = "WAITING" <=> statut'[h] = "WAITING"
    PROVE  InvitationsCoherentes => InvitationsCoherentes'
  BY DEF InvitationsCoherentes, Pendantes

\* A step that takes g out of WAITING, or leaves it out, and closes its
\* invitations, those of the other games staying as they are
LEMMA InvitationsFermees ==
    ASSUME TypeOK, InvitationsCoherentes, NEW g \in Parties,
           statut'[g] # "WAITING", Pendantes(g)' = {},
           \A h \in Parties \ {g} : /\ statut'[h] = statut[h] /\ invite'[h] = invite[h]
                                    /\ Pendantes(h)' = Pendantes(h)
    PROVE  InvitationsCoherentes'
  BY DEF InvitationsCoherentes

\* A step on the room g that leaves every other game alone
LEMMA InvitationsOuvertes ==
    ASSUME TypeOK, InvitationsCoherentes, NEW g \in Parties, statut'[g] = "WAITING",
           IF Pendantes(g)' = {} THEN invite'[g] = Personne
                                 ELSE invite'[g] \in Pendantes(g)',
           \A h \in Parties \ {g} : /\ statut'[h] = statut[h] /\ invite'[h] = invite[h]
                                    /\ Pendantes(h)' = Pendantes(h)
    PROVE  InvitationsCoherentes'
  BY DEF InvitationsCoherentes

LEMMA ClosesSansPendante ==
    ASSUME NEW g \in Parties, NEW s, s # "PENDING"
    PROVE  \A u \in Joueurs : Closes(g, s)[u] # "PENDING"
  BY DEF Closes, Pendantes

LEMMA InvitationsPas ==
    ASSUME TypeOK, InvitationsCoherentes, [Next]_vars
    PROVE  InvitationsCoherentes'
  <1>1. ASSUME NEW u \in Joueurs, NEW g \in Parties,
               NEW i \in Joueurs \cup {Personne}, NEW m \in Mises,
               CreateGame(u, g, i, m)
        PROVE  InvitationsCoherentes'
    <2>1. /\ statut' = [statut EXCEPT ![g] = "WAITING"]
          /\ invite' = [invite EXCEPT ![g] = i]
          /\ invitation' = [invitation EXCEPT ![g] =
                              [v \in Joueurs |-> IF v = i THEN "PENDING" ELSE "AUCUNE"]]
      BY <1>1 DEF CreateGame
    <2>2. Pendantes(g)' = {i} \ {Personne} /\ statut'[g] = "WAITING" /\ invite'[g] = i
      BY <2>1, PersonneHypothese DEF TypeOK, Pendantes
    <2>3. \A h \in Parties \ {g} : /\ statut'[h] = statut[h] /\ invite'[h] = invite[h]
                                   /\ Pendantes(h)' = Pendantes(h)
      BY <2>1 DEF TypeOK, Pendantes
    <2> QED BY <2>2, <2>3, InvitationsOuvertes
  <1>2. ASSUME NEW u \in Joueurs, NEW g \in Parties, NEW r \in Joueurs,
               InviterJoueur(u, g, r)
        PROVE  InvitationsCoherentes'
    <2>1. /\ statut[g] = "WAITING" /\ UNCHANGED statut
          /\ invitation' = [invitation EXCEPT ![g][r] = "PENDING"]
          /\ invite' = [invite EXCEPT ![g] = IF @ = Personne THEN r ELSE @]
      BY <1>2 DEF InviterJoueur
    <2>2. Pendantes(g)' = Pendantes(g) \cup {r}
      BY <2>1 DEF TypeOK, Pendantes
    <2>3. invite'[g] = IF invite[g] = Personne THEN r ELSE invite[g]
      BY <2>1 DEF TypeOK
    <2>4. invite[g] # Personne => invite[g] \in Pendantes(g)
      BY <2>1 DEF InvitationsCoherentes
    <2>5. \A h \in Parties \ {g} : /\ statut'[h] = statut[h] /\ invite'[h] = invite[h]
                                   /\ Pendantes(h)' = Pendantes(h)
      BY <2>1 DEF TypeOK, Pendantes
    <2> QED BY <2>1, <2>2, <2>3, <2>4, <2>5, InvitationsOuvertes
  <1>3. ASSUME NEW g \in Parties, NEW r \in Joueurs,
               \E u \in Joueurs : AnnulerInvitation(u, g, r) \/ RefuserEtGarder(r, g)
        PROVE  InvitationsCoherentes'
    <2>1. /\ statut[g] = "WAITING" /\ UNCHANGED statut
          /\ invitation' = [invitation EXCEPT ![g][r] =
                              IF r \in Pendantes(g) THEN "CANCELLED" ELSE @]
          /\ Realigner(g, Pendantes(g) \ {r})
      BY <1>3 DEF AnnulerInvitation, RefuserEtGarder, PeutRefuser
    <2>2. Pendantes(g)' = Pendantes(g) \ {r}
      BY <2>1 DEF TypeOK, Pendantes
    <2>3. /\ invite'[g] \in (IF Pendantes(g) \ {r} = {} THEN {Personne}
                                                       ELSE Pendantes(g) \ {r})
          /\ \A h \in Parties \ {g} : invite'[h] = invite[h]
      BY <2>1 DEF TypeOK, Realigner
    <2>4. \A h \in Parties \ {g} : statut'[h] = statut[h] /\ Pendantes(h)' = Pendantes(h)
      BY <2>1 DEF TypeOK, Pendantes
    <2> QED BY <2>1, <2>2, <2>3, <2>4, InvitationsOuvertes
  <1>4. ASSUME NEW g \in Parties, NEW s \in EtatsInvitation \ {"PENDING"},
               NEW t \in Statuts \ {"WAITING"},
               statut' = [statut EXCEPT ![g] = t],
               invitation' = [invitation EXCEPT ![g] = Closes(g, s)],
               \A h \in Parties \ {g} : invite'[h] = invite[h]
        PROVE  InvitationsCoherentes'
    <2>1. statut'[g] # "WAITING" /\ Pendantes(g)' = {}
      BY <1>4, ClosesSansPendante DEF TypeOK, Pendantes
    <2>2. \A h \in Parties \ {g} : statut'[h] = statut[h] /\ Pendantes(h)' = Pendantes(h)
      BY <1>4 DEF TypeOK, Pendantes
    <2> QED BY <1>4, <2>1, <2>2, InvitationsFermees
  <1>5. ASSUME NEW g \in Parties,
               \/ ExpirerSalon(g) \/ FinishDraw(g)
               \/ \E u \in Joueurs : \/ RefuserEtFermer(u, g) \/ AnnulerGame(u, g)
                                     \/ FinishGame(g, u)
        PROVE  InvitationsCoherentes'
    <2>1. \E s \in EtatsInvitation \ {"PENDING"}, t \in Statuts \ {"WAITING"} :
             /\ statut' = [statut EXCEPT ![g] = t]
             /\ invitation' = [invitation EXCEPT ![g] = Closes(g, s)]
             /\ \A h \in Parties \ {g} : invite'[h] = invite[h]
      <3>1. CASE ExpirerSalon(g) \/ \E u \in Joueurs : RefuserEtFermer(u, g)
        BY <3>1
        DEF ExpirerSalon, RefuserEtFermer, FermerSalon, EtatsInvitation, Statuts,
            Inactives, TypeOK
      <3>2. CASE FinishDraw(g) \/ \E u \in Joueurs : FinishGame(g, u)
        BY <3>2 DEF FinishDraw, FinishGame, EtatsInvitation, Statuts, Inactives
      <3>3. CASE \E u \in Joueurs : AnnulerGame(u, g)
        BY <3>3 DEF AnnulerGame, EtatsInvitation, Statuts, Inactives, TypeOK
      <3> QED BY <1>5, <3>1, <3>2, <3>3
    <2> QED BY <1>4, <2>1
  <1>6. ASSUME NEW u \in Joueurs, NEW g \in Parties, NEW p \in Mises, JoinGame(u, g, p)
        PROVE  InvitationsCoherentes'
    <2>1. /\ statut' = [statut EXCEPT ![g] = "THEME_SELECTION"]
          /\ invitation' = [invitation EXCEPT ![g] =
                              [Closes(g, "EXPIRED") EXCEPT ![u] = "ACCEPTED"]]
          /\ UNCHANGED invite
      BY <1>6 DEF JoinGame
    <2>2. Closes(g, "EXPIRED") \in [Joueurs -> EtatsInvitation]
      BY CloturesType DEF EtatsInvitation
    <2>3. statut'[g] # "WAITING" /\ Pendantes(g)' = {}
      BY <2>1, <2>2, ClosesSansPendante DEF TypeOK, Pendantes
    <2>4. \A h \in Parties \ {g} : /\ statut'[h] = statut[h] /\ invite'[h] = invite[h]
                                   /\ Pendantes(h)' = Pendantes(h)
      BY <2>1 DEF TypeOK, Pendantes
    <2> QED BY <2>3, <2>4, InvitationsFermees
  <1>7. ASSUME NEW u \in Joueurs, NEW g \in Parties, NEW n \in Parties, Revanche(u, g, n)
        PROVE  InvitationsCoherentes'
    <2>1. /\ statut[n] = "ABSENTE" /\ statut' = [statut EXCEPT ![n] = "THEME_SELECTION"]
          /\ UNCHANGED <<invite, invitation>>
      BY <1>7 DEF Revanche
    <2> QED BY <2>1, InvitationsNul DEF TypeOK
  <1>8. ASSUME NEW g \in Parties,
               \/ SelectTheme(g) \/ StartAnswering(g) \/ FinishQuestion(g)
               \/ AdvanceAfterResult(g)
        PROVE  InvitationsCoherentes'
    <2>1. /\ statut[g] \in EnJeu /\ \E s \in EnJeu : statut' = [statut EXCEPT ![g] = s]
          /\ UNCHANGED <<invite, invitation>>
      BY <1>8
      DEF SelectTheme, StartAnswering, FinishQuestion, AdvanceAfterResult,
          Avancer, EnJeu
    <2>2. \A h \in Parties : statut[h] = "WAITING" <=> statut'[h] = "WAITING"
      BY <2>1 DEF TypeOK, EnJeu
    <2> QED BY <2>1, <2>2, InvitationsNul
  <1>9. CASE UNCHANGED <<statut, invite, invitation>>
    BY <1>9, InvitationsNul
  <1>10. ASSUME NEW g \in Parties, Vieillir(g) \/ Stagner(g)
         PROVE  UNCHANGED <<statut, invite, invitation>>
    BY <1>10 DEF Vieillir, Stagner
  <1>11. ListerBloquees \/ UNCHANGED vars => UNCHANGED <<statut, invite, invitation>>
    BY DEF ListerBloquees, vars
  <1>12. CASE AbandonnerBloquees
    <2>1. CASE UNCHANGED statut /\ UNCHANGED invitation
      BY <1>12, <2>1, InvitationsNul DEF AbandonnerBloquees
    <2>2. CASE /\ ~BalayageLeve
               /\ statut' = [h \in Parties |-> IF h \in balayage THEN "ABANDONED"
                                                                 ELSE statut[h]]
               /\ invitation' = [h \in Parties |-> IF h \in balayage
                                                   THEN Closes(h, "EXPIRED")
                                                   ELSE invitation[h]]
      <3>1. UNCHANGED invite
        BY <1>12 DEF AbandonnerBloquees
      <3>2. ASSUME NEW h \in Parties
            PROVE  IF statut'[h] = "WAITING"
                   THEN IF Pendantes(h)' = {} THEN invite'[h] = Personne
                                              ELSE invite'[h] \in Pendantes(h)'
                   ELSE Pendantes(h)' = {}
        <4>1. CASE h \in balayage
          <5>1. statut'[h] # "WAITING" /\ Pendantes(h)' = {}
            BY <2>2, <4>1, ClosesSansPendante DEF Pendantes
          <5> QED BY <5>1
        <4>2. CASE h \notin balayage
          <5>1. statut'[h] = statut[h] /\ Pendantes(h)' = Pendantes(h)
            BY <2>2, <4>2 DEF Pendantes
          <5> QED BY <3>1, <5>1 DEF InvitationsCoherentes
        <4> QED BY <4>1, <4>2
      <3> QED BY <3>2 DEF InvitationsCoherentes
    <2> QED BY <1>12, <2>1, <2>2 DEF AbandonnerBloquees
  <1> QED
    BY <1>1, <1>2, <1>3, <1>5, <1>6, <1>7, <1>8, <1>9, <1>10, <1>11, <1>12
    DEF Next, Jouer

\* The guard of join_game can be trusted: a waiting room is private exactly
\* while an invitation is pending, invited_player is then one of those invited,
\* and no invitation outlives its room (_realigner_invitation_principale).
THEOREM InvitationsCoherentesInvariante == Spec => []InvitationsCoherentes
  <1>1. Init => InvitationsCoherentes
    BY DEF Init, InvitationsCoherentes, Pendantes
  <1>2. TypeOK /\ InvitationsCoherentes /\ [Next]_vars => InvitationsCoherentes'
    BY InvitationsPas
  <1>3. QED
    BY <1>1, <1>2, TypesCorrects, PTL DEF Spec
=============================================================================
