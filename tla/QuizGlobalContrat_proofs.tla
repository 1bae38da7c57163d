----------------------- MODULE QuizGlobalContrat_proofs -----------------------
(***************************************************************************)
(* What the stakes of the global quiz promise, proved of QuizGlobal: only  *)
(* the loser of a duel pays, no money appears or disappears, and the       *)
(* blocked balances with their ledger keys implement one escrow per duel   *)
(* (Sequestre).                                                            *)
(*                                                                         *)
(* Every step but the end of a duel moves money between the balances of    *)
(* one wallet only (Conserve).  The end of a duel moves exactly one        *)
(* effective stake, because its keys are new and both stakes are covered   *)
(* (Engagements).  As nothing else is blocked (Exact), what a wallet has   *)
(* outside its blocked balance is what its owner has outside every escrow. *)
(***************************************************************************)
EXTENDS QuizGlobal_proofs, MCQuizGlobal

USE DEF places, salons

-----------------------------------------------------------------------------
(* Who owns what *)

LEMMA ConserveNul ==
    ASSUME banque \in Banques, UNCHANGED banque
    PROVE  Conserve(banque, banque')
  BY DEF Conserve

LEMMA EngagementConserve ==
    ASSUME TypeOK, NEW g \in Parties, NEW u \in Joueurs, NEW p \in Nat,
           siegeA[g] \in Joueurs,
           PeutBloquer(banque, u, p, CleDe("reserve", g, u))
    PROVE  Conserve(banque, MisesEngagees(u, g, p))
  <1> DEFINE h   == siegeA[g]
             m   == mise[g]
             eff == Effective(m, p)
             kr  == CleDe("reserve", g, u)
             kh  == CleDe("surplus", g, h)
             ku  == CleDe("surplus", g, u)
             b1  == BloquerMise(banque, u, p, kr)
             b2  == IF m > eff THEN LibererMise(b1, h, m - eff, kh) ELSE b1
             b3  == IF p > eff THEN LibererMise(b2, u, p - eff, ku) ELSE b2
  <1>1. kr \in Cles /\ kh \in Cles /\ ku \in Cles
    BY CleType DEF Operations
  <1>2. m \in Nat /\ eff \in Nat /\ banque \in Banques
    BY EffectiveType DEF TypeOK
  <1>3. MisesEngagees(u, g, p) = b3
    BY DEF MisesEngagees
  <1>4. Conserve(banque, b1)
    BY <1>1, <1>2, BloquerConserve DEF PeutBloquer
  <1> HIDE DEF b1, eff, m
  <1>5. Conserve(b1, b2)
    <2>1. b1 \in Banques /\ Conserve(b1, b1)
      BY <1>4 DEF Conserve
    <2>2. m > eff => m - eff \in Nat
      BY <1>2
    <2> QED BY <1>1, <2>1, <2>2, LibererConserve
  <1> HIDE DEF b2
  <1>6. Conserve(b2, b3)
    <2>1. b2 \in Banques /\ Conserve(b2, b2)
      BY <1>5 DEF Conserve
    <2>2. p > eff => p - eff \in Nat
      BY <1>2
    <2> QED BY <1>1, <2>1, <2>2, LibererConserve
  <1> HIDE DEF b3
  <1>7. Conserve(banque, b2)
    BY <1>4, <1>5, ConserveTrans
  <1>8. Conserve(banque, b3)
    BY <1>6, <1>7, ConserveTrans
  <1> QED BY <1>3, <1>8

LEMMA RembourserConserve ==
    ASSUME TypeOK, NEW g \in Parties, siegeA[g] \in Joueurs,
           NEW motif \in Operations
    PROVE  Conserve(banque, RembourserMises(g, motif))
  <1> DEFINE a  == siegeA[g]
             b  == siegeB[g]
             m  == MiseEffective(g)
             b1 == LibererMise(banque, a, m, CleDe(motif, g, a))
             b2 == LibererMise(b1, b, m, CleDe(motif, g, b))
  <1>1. m \in Nat /\ banque \in Banques /\ b \in Joueurs \cup {Personne}
    BY EffectiveType DEF TypeOK, MiseEffective
  <1>2. RembourserMises(g, motif) =
          IF mise[g] = 0 THEN banque ELSE IF b = Personne THEN b1 ELSE b2
    BY DEF RembourserMises
  <1>3. CleDe(motif, g, a) \in Cles /\ CleDe(motif, g, b) \in Cles
    BY <1>1, CleType
  <1> HIDE DEF m, b
  <1>4. Conserve(banque, b1)
    BY <1>1, <1>3, LibererConserve
  <1> HIDE DEF b1
  <1>5. b # Personne => Conserve(b1, b2)
    <2>1. b1 \in Banques
      BY <1>4 DEF Conserve
    <2> QED BY <1>1, <1>3, <2>1, LibererConserve
  <1> HIDE DEF b2
  <1>6. b # Personne => Conserve(banque, b2)
    BY <1>4, <1>5, ConserveTrans
  <1>7. Conserve(banque, banque)
    BY <1>1 DEF Conserve
  <1> QED BY <1>2, <1>4, <1>6, <1>7

LEMMA HoteConserve ==
    ASSUME TypeOK, NEW g \in Parties, siegeA[g] \in Joueurs,
           NEW motif \in Operations
    PROVE  Conserve(banque, LibererMiseHote(g, motif))
  <1>1. CleDe(motif, g, siegeA[g]) \in Cles /\ mise[g] \in Nat /\ banque \in Banques
    BY CleType DEF TypeOK
  <1>2. Conserve(banque, LibererMise(banque, siegeA[g], mise[g],
                                     CleDe(motif, g, siegeA[g])))
    BY <1>1, LibererConserve
  <1>3. Conserve(banque, banque)
    BY <1>1 DEF Conserve
  <1> QED BY <1>2, <1>3 DEF LibererMiseHote

LEMMA RevancheConserve ==
    ASSUME Structure, NEW u \in Joueurs, NEW g \in Parties, NEW n \in Parties,
           Revanche(u, g, n)
    PROVE  Conserve(banque, banque')
  <1> DEFINE a  == IF u = siegeA[g] THEN siegeB[g] ELSE siegeA[g]
             m  == mise[g]
             ku == CleDe("reserve", n, u)
             ka == CleDe("reserve", n, a)
             b1 == BloquerMise(banque, u, m, ku)
             b2 == BloquerMise(b1, a, m, ka)
  <1>1. /\ a \in Joueurs /\ m \in Nat /\ banque \in Banques
        /\ m > 0 => PeutBloquer(banque, u, m, ku) /\ PeutBloquer(b1, a, m, ka)
        /\ banque' = IF m > 0 THEN b2 ELSE banque
    BY DEF Revanche, Structure, TypeOK
  <1>2. ku \in Cles /\ ka \in Cles
    BY <1>1, CleType DEF Operations
  <1> HIDE DEF a, m, ku, ka
  <1>3. m > 0 => Conserve(banque, b1)
    BY <1>1, <1>2, BloquerConserve DEF PeutBloquer
  <1> HIDE DEF b1
  <1>4. m > 0 => Conserve(b1, b2)
    <2>1. m > 0 => b1 \in Banques
      BY <1>3 DEF Conserve
    <2> QED BY <1>1, <1>2, <2>1, BloquerConserve DEF PeutBloquer
  <1> HIDE DEF b2
  <1>5. m > 0 => Conserve(banque, b2)
    BY <1>3, <1>4, ConserveTrans
  <1>6. Conserve(banque, banque)
    BY <1>1 DEF Conserve
  <1> QED BY <1>1, <1>5, <1>6

AvoirStable == Conserve(banque, banque')

\* Every step but the end of a duel leaves to everybody what he owns, and to
\* the platform its capital.
LEMMA AvoirPas ==
    ASSUME Structure, [Next]_vars,
           \A g \in Parties, w \in Joueurs : ~FinishGame(g, w)
    PROVE  AvoirStable
  <1>0. banque \in Banques
    BY DEF Structure, TypeOK
  <1>1. ASSUME NEW u \in Joueurs, NEW g \in Parties,
               NEW i \in Joueurs \cup {Personne}, NEW m \in Mises,
               CreateGame(u, g, i, m)
        PROVE  AvoirStable
    <2> DEFINE k == CleDe("reserve", g, u)
    <2>1. /\ m \in Nat /\ k \in Cles /\ m <= banque.dispo[u]
          /\ banque' = IF m > 0 THEN BloquerMise(banque, u, m, k) ELSE banque
      BY <1>1, MisesHypothese, CleType DEF Operations, CreateGame
    <2> HIDE DEF k
    <2>2. Conserve(banque, BloquerMise(banque, u, m, k)) /\ Conserve(banque, banque)
      BY <1>0, <2>1, BloquerConserve DEF Conserve
    <2> QED BY <2>1, <2>2 DEF AvoirStable
  <1>2. ASSUME NEW u \in Joueurs, NEW g \in Parties, NEW p \in Mises,
               JoinGame(u, g, p)
        PROVE  AvoirStable
    <2>1. p \in Nat /\ siegeA[g] \in Joueurs /\ TypeOK
      BY <1>2, MisesHypothese DEF JoinGame, PeutRejoindre, Structure, Sieges, TypeOK
    <2>2. CASE mise[g] = 0
      BY <1>0, <1>2, <2>2, ConserveNul DEF JoinGame, AvoirStable
    <2>3. CASE mise[g] # 0
      <3>1. PeutBloquer(banque, u, p, CleDe("reserve", g, u))
            /\ banque' = MisesEngagees(u, g, p)
        BY <1>2, <2>3 DEF JoinGame, PeutProposer
      <3> QED BY <2>1, <3>1, EngagementConserve DEF AvoirStable
    <2> QED BY <2>2, <2>3
  <1>3. ASSUME NEW u \in Joueurs, NEW g \in Parties, NEW n \in Parties,
               Revanche(u, g, n)
        PROVE  AvoirStable
    BY <1>3, RevancheConserve DEF AvoirStable
  <1>4. ASSUME NEW g \in Parties,
               ExpirerSalon(g) \/ \E u \in Joueurs : RefuserEtFermer(u, g)
        PROVE  AvoirStable
    <2>1. /\ statut[g] = "WAITING"
          /\ \E motif \in {"refus", "expiration"} : banque' = LibererMiseHote(g, motif)
      BY <1>4 DEF ExpirerSalon, RefuserEtFermer, PeutRefuser, FermerSalon
    <2>2. TypeOK /\ siegeA[g] \in Joueurs
      BY <2>1 DEF Structure, Sieges, TypeOK
    <2> QED BY <2>1, <2>2, HoteConserve DEF Operations, AvoirStable
  <1>5. ASSUME NEW g \in Parties,
               FinishDraw(g) \/ \E u \in Joueurs : AnnulerGame(u, g)
        PROVE  AvoirStable
    <2>1. /\ statut[g] \notin Inactives \cup {"ABSENTE"}
          /\ \E motif \in {"egalite", "annulation", "abandon"} :
                banque' = RembourserMises(g, motif)
      BY <1>5, PersonneHypothese
      DEF FinishDraw, AnnulerGame, Inactives, Structure, Sieges, Participants
    <2>2. TypeOK /\ siegeA[g] \in Joueurs
      BY <2>1 DEF Structure, Sieges, TypeOK, Statuts, Actives, Inactives
    <2> QED BY <2>1, <2>2, RembourserConserve DEF Operations, AvoirStable
  <1>6. CASE UNCHANGED banque
    BY <1>0, <1>6, ConserveNul DEF AvoirStable
  <1>7. ASSUME NEW g \in Parties, NEW u \in Joueurs, NEW r \in Joueurs,
               \/ InviterJoueur(u, g, r) \/ AnnulerInvitation(u, g, r)
               \/ RefuserEtGarder(u, g)
        PROVE  UNCHANGED banque
    BY <1>7 DEF InviterJoueur, AnnulerInvitation, RefuserEtGarder
  <1>8. ASSUME NEW g \in Parties,
               \/ Vieillir(g) \/ Stagner(g)
               \/ SelectTheme(g) \/ StartAnswering(g) \/ FinishQuestion(g)
               \/ AdvanceAfterResult(g)
        PROVE  UNCHANGED banque
    BY <1>8
    DEF Vieillir, Stagner, SelectTheme, StartAnswering, FinishQuestion,
        AdvanceAfterResult, Avancer
  <1>9. ASSUME ListerBloquees \/ AbandonnerBloquees \/ UNCHANGED vars
        PROVE  UNCHANGED banque
    BY <1>9 DEF ListerBloquees, AbandonnerBloquees, vars
  <1>10. UNCHANGED banque => AvoirStable
    BY <1>6
  <1> QED
    BY <1>1, <1>2, <1>3, <1>4, <1>5, <1>7, <1>8, <1>9, <1>10
    DEF Next, Jouer

\* The end of a duel: the loser loses the effective stake, the winner gains it
\* less the two commissions, which the platform gets.
LEMMA ReglementPas ==
    ASSUME Engagements, NEW g \in Parties, NEW w \in Joueurs, FinishGame(g, w),
           NEW l, l = (IF w = siegeA[g] THEN siegeB[g] ELSE siegeA[g]),
           NEW m, m = MiseEffective(g),
           NEW c, c = 2 * CommissionPour(m)
    PROVE  /\ l \in Joueurs /\ w # l /\ Participants(g) = {w, l}
           /\ m \in Nat /\ c \in Nat /\ c <= m
           /\ banque' \in Banques
           /\ banque'.capital = banque.capital + c
           /\ Avoir(banque', l) = Avoir(banque, l) - m
           /\ Avoir(banque', w) = (Avoir(banque, w) + m) - c
           /\ \A v \in Joueurs \ {w, l} : Avoir(banque', v) = Avoir(banque, v)
  <1>1. l \in Joueurs /\ w # l /\ Participants(g) = {w, l}
    BY PersonneHypothese
    DEF FinishGame, Engagements, Structure, Sieges, EnJeu, TypeOK, Participants
  <1>2. /\ m \in Nat /\ banque \in Banques /\ mise[g] \in Nat
        /\ mise[g] = 0 => m = 0
    BY EffectiveType DEF Engagements, Structure, TypeOK, MiseEffective
  <1>3. c \in Nat /\ c <= m
    BY <1>2, CommissionDouble
  <1>4. statut[g] \in Actives
    BY DEF FinishGame, Actives, EnJeu
  <1>5. CASE mise[g] > 0
    <2>1. banque' = ReglerDuel(banque, w, l, m, g)
      BY <1>5 DEF FinishGame
    <2>2. /\ CleDe("perdant", g, Personne) \notin banque.cles
          /\ CleDe("gagnant", g, Personne) \notin banque.cles
      BY <1>4, CleFraiche DEF Engagements, Operations
    <2>3. actif[w] = g /\ actif[l] = g
      BY <1>1, <1>4 DEF Engagements, Structure, UnePartieActive
    <2>4. m <= banque.bloque[w] /\ m <= banque.bloque[l]
      BY <1>1, <2>3, AucuneHypothese DEF Engagements, Couvert, EnjeuDe
    <2>5. /\ banque' \in Banques
          /\ banque'.capital = banque.capital + c
          /\ Avoir(banque', l) = Avoir(banque, l) - m
          /\ Avoir(banque', w) = (Avoir(banque, w) + m) - c
          /\ \A v \in Joueurs \ {w, l} : Avoir(banque', v) = Avoir(banque, v)
      BY <1>1, <1>2, <2>1, <2>2, <2>4, ReglerAvoir
    <2> QED BY <1>1, <1>2, <1>3, <2>5
  <1>6. CASE ~(mise[g] > 0)
    <2>1. m = 0 /\ c = 0 /\ banque' = banque
      BY <1>2, <1>3, <1>6 DEF FinishGame
    <2>2. banque.capital \in Nat /\ \A v \in Joueurs : Avoir(banque, v) \in Nat
      BY <1>2, Champs, AvoirType
    <2> QED BY <1>1, <1>2, <1>3, <2>1, <2>2
  <1> QED BY <1>5, <1>6

\* Only the loser of a duel loses money, in the step that finishes his game,
\* and he loses the effective stake of that game (regler_duel of
\* apps/wallet/services.py): no other handler takes anything from anybody.
THEOREM SeulLePerdantPaieTheoreme == Spec => SeulLePerdantPaie
  <1> DEFINE Paie(u) ==
               Avoir(banque', u) < Avoir(banque, u) =>
                 \E g \in Parties :
                    /\ statut[g] \in EnJeu /\ statut'[g] = "FINISHED"
                    /\ u \in Participants(g)
                    /\ Avoir(banque', u) + MiseEffective(g) = Avoir(banque, u)
  <1>1. ASSUME Engagements, [Next]_vars, NEW u \in Joueurs
        PROVE  Paie(u)
    <2>1. Avoir(banque, u) \in Nat
      BY <1>1, AvoirType DEF Engagements, Structure, TypeOK
    <2>2. CASE \A g \in Parties, w \in Joueurs : ~FinishGame(g, w)
      <3>1. Conserve(banque, banque')
        BY <1>1, <2>2, AvoirPas DEF Engagements, AvoirStable
      <3> QED BY <2>1, <3>1 DEF Conserve
    <2>3. ASSUME NEW g \in Parties, NEW w \in Joueurs, FinishGame(g, w)
          PROVE  Paie(u)
      <3>1. PICK l, m, c : /\ l = IF w = siegeA[g] THEN siegeB[g] ELSE siegeA[g]
                           /\ m = MiseEffective(g)
                           /\ c = 2 * CommissionPour(m)
        OBVIOUS
      <3>2. /\ l \in Joueurs /\ w # l /\ Participants(g) = {w, l}
            /\ m \in Nat /\ c \in Nat /\ c <= m
            /\ Avoir(banque', l) = Avoir(banque, l) - m
            /\ Avoir(banque', w) = (Avoir(banque, w) + m) - c
            /\ \A v \in Joueurs \ {w, l} : Avoir(banque', v) = Avoir(banque, v)
        BY <1>1, <2>3, <3>1, ReglementPas
      <3>3. statut[g] \in EnJeu /\ statut'[g] = "FINISHED"
        BY <1>1, <2>3 DEF FinishGame, EnJeu, Engagements, Structure, TypeOK
      <3>4. CASE u = l
        BY <2>1, <3>1, <3>2, <3>3, <3>4
      <3>5. CASE u # l
        BY <2>1, <3>2, <3>5
      <3> QED BY <3>4, <3>5
    <2> QED BY <2>2, <2>3
  <1>2. ASSUME Engagements, [Next]_vars
        PROVE  \A u \in Joueurs :
                 Avoir(banque', u) < Avoir(banque, u) =>
                   \E g \in Parties :
                      /\ statut[g] \in EnJeu /\ statut'[g] = "FINISHED"
                      /\ u \in Participants(g)
                      /\ Avoir(banque', u) + MiseEffective(g) = Avoir(banque, u)
    BY <1>1, <1>2
  <1> QED
    BY <1>2, EngagementsInvariants, PTL DEF Spec, SeulLePerdantPaie

\* Whatever games are created, joined, refused, annulled, replayed and finished
\* beside each other, with or without the sweep of stuck games: no money appears
\* or disappears.  What the loser of a duel loses is what the winner and the
\* platform get, to the cent.
THEOREM ConservationInvariante ==
    ASSUME IsFiniteSet(Joueurs)
    PROVE  Spec => []Conservation
  <1> DEFINE Total == Cardinality(Joueurs) * SoldeInitial
             Garde == Fortune(banque) = Total
  <1>1. Conservation <=> Garde
    BY DEF Conservation, Fortune
  <1>2. Init => Garde
    <2> SUFFICES ASSUME Init PROVE Garde
      OBVIOUS
    <2>1. banque \in Banques /\ banque.capital = 0
      BY SoldeHypothese DEF Init, Banques
    <2>2. \A u \in Joueurs : Avoir(banque, u) = SoldeInitial
      <3> SUFFICES ASSUME NEW u \in Joueurs PROVE Avoir(banque, u) = SoldeInitial
        OBVIOUS
      <3>1. /\ banque.dispo[u] = SoldeInitial
            /\ banque.bloque[u] = 0 /\ banque.gains[u] = 0
        BY DEF Init
      <3>2. SoldeInitial + 0 + 0 = SoldeInitial
        BY SoldeHypothese
      <3> QED BY <3>1, <3>2 DEF Avoir
    <2> QED BY <2>1, <2>2, SoldeHypothese, FortuneInitiale
  <1>3. ASSUME Engagements, Garde, [Next]_vars
        PROVE  Garde'
    <2>0. banque \in Banques
      BY <1>3 DEF Engagements, Structure, TypeOK
    <2>1. CASE \A g \in Parties, w \in Joueurs : ~FinishGame(g, w)
      <3>1. Conserve(banque, banque')
        BY <1>3, <2>1, AvoirPas DEF Engagements, AvoirStable
      <3>2. Fortune(banque') = Fortune(banque)
        BY <2>0, <3>1, FortuneConservee
      <3> QED BY <1>3, <3>2
    <2>2. ASSUME NEW g \in Parties, NEW w \in Joueurs, FinishGame(g, w)
          PROVE  Garde'
      <3>1. PICK l, m, c : /\ l = IF w = siegeA[g] THEN siegeB[g] ELSE siegeA[g]
                           /\ m = MiseEffective(g)
                           /\ c = 2 * CommissionPour(m)
        OBVIOUS
      <3>2. /\ l \in Joueurs /\ w # l
            /\ m \in Nat /\ c \in Nat
            /\ banque' \in Banques
            /\ banque'.capital = banque.capital + c
            /\ Avoir(banque', l) = Avoir(banque, l) - m
            /\ Avoir(banque', w) = (Avoir(banque, w) + m) - c
            /\ \A v \in Joueurs \ {w, l} : Avoir(banque', v) = Avoir(banque, v)
        BY <1>3, <2>2, <3>1, ReglementPas
      <3>3. Fortune(banque') = Fortune(banque)
        BY <2>0, <3>2, FortuneReglee
      <3> QED BY <1>3, <3>3
    <2> QED BY <2>1, <2>2
  <1>4. Garde => Conservation
    BY <1>1
  <1> HIDE DEF Garde
  <1> QED
    BY <1>2, <1>3, <1>4, EngagementsInvariants, PTL DEF Spec

-----------------------------------------------------------------------------
(* The refinement: the step that moves money moves one escrow *)

\* The state of a duel, of the status of its game
EtatDe(s) ==
    CASE s = "ABSENTE" -> "absent"
      [] s = "WAITING" -> "ouvert"
      [] s \in EnJeu   -> "engage"
      [] OTHER         -> "clos"

LEMMA EtatChange ==
    ASSUME TypeOK, NEW g \in Parties, NEW s,
           statut' = [statut EXCEPT ![g] = s]
    PROVE  [h \in Parties |-> EtatDe(statut[h])]'
             = [[h \in Parties |-> EtatDe(statut[h])] EXCEPT ![g] = EtatDe(s)]
  BY DEF TypeOK

\* What is at stake for u is his stake in g and the one in the other game he
\* plays, of which there is at most one.
EnjeuxSepares ==
    \A g \in Parties, u \in Joueurs : \E x \in Nat :
        /\ EnjeuDe(u) = Enjeu(g, u) + x
        /\ \A h \in Parties \ {g} : Enjeu(h, u) \in {0, x}
        /\ x # 0 => \E h \in Parties \ {g} : Enjeu(h, u) = x

EnjeuxNaturels == \A g \in Parties, u \in Joueurs : Enjeu(g, u) \in Nat

LEMMA EnjeuxSeparesVrai == Structure => EnjeuxSepares /\ EnjeuxNaturels
  <1> SUFFICES ASSUME Structure, NEW g \in Parties, NEW u \in Joueurs
               PROVE  /\ Enjeu(g, u) \in Nat
                      /\ \E x \in Nat :
                            /\ EnjeuDe(u) = Enjeu(g, u) + x
                            /\ \A h \in Parties \ {g} : Enjeu(h, u) \in {0, x}
                            /\ x # 0 => \E h \in Parties \ {g} : Enjeu(h, u) = x
    BY DEF EnjeuxSepares, EnjeuxNaturels
  <1>1. \A h \in Parties : Enjeu(h, u) = IF actif[u] = h THEN EnjeuDe(u) ELSE 0
    BY EnjeuLu, AucuneHypothese DEF EnjeuDe
  <1>2. EnjeuDe(u) \in Nat
    BY EnjeuDeType DEF Structure
  <1>3. actif[u] \in Parties \/ EnjeuDe(u) = 0
    BY DEF EnjeuDe, Structure, TypeOK
  <1>4. CASE actif[u] = g
    <2>1. EnjeuDe(u) = Enjeu(g, u) + 0 /\ \A h \in Parties \ {g} : Enjeu(h, u) = 0
      BY <1>1, <1>2, <1>4
    <2> QED BY <1>1, <1>2, <2>1
  <1>5. CASE actif[u] # g
    <2>1. EnjeuDe(u) = Enjeu(g, u) + EnjeuDe(u)
      BY <1>1, <1>2, <1>5
    <2>2. \A h \in Parties \ {g} : Enjeu(h, u) \in {0, EnjeuDe(u)}
      BY <1>1
    <2>3. EnjeuDe(u) # 0 => \E h \in Parties \ {g} : Enjeu(h, u) = EnjeuDe(u)
      BY <1>1, <1>3, <1>5
    <2> QED BY <1>1, <1>2, <1>5, <2>1, <2>2, <2>3
  <1> QED BY <1>4, <1>5

LEMMA EnjeuxSeparesSuivants == Structure' => EnjeuxSepares' /\ EnjeuxNaturels'
  BY EnjeuxSeparesVrai, PTL

\* A step that changes the stakes of one game only, and conserves what
\* everybody owns, moves money between that game and its players' own.
Libre(b, u) == b.dispo[u] + b.gains[u]

SeuleChange(g) ==
    \A h \in Parties \ {g}, u \in Joueurs : Enjeu(h, u)' = Enjeu(h, u)

LEMMA EnjeuDeDiff ==
    ASSUME Structure, Structure', NEW g \in Parties, SeuleChange(g), NEW u \in Joueurs
    PROVE  /\ EnjeuDe(u) \in Nat /\ EnjeuDe(u)' \in Nat
           /\ Enjeu(g, u) \in Nat /\ Enjeu(g, u)' \in Nat
           /\ EnjeuDe(u)' - Enjeu(g, u)' = EnjeuDe(u) - Enjeu(g, u)
  <1>1. EnjeuxSepares /\ EnjeuxNaturels /\ EnjeuxSepares' /\ EnjeuxNaturels'
    BY EnjeuxSeparesVrai, EnjeuxSeparesSuivants
  <1>2. PICK x \in Nat : /\ EnjeuDe(u) = Enjeu(g, u) + x
                         /\ \A h \in Parties \ {g} : Enjeu(h, u) \in {0, x}
                         /\ x # 0 => \E h \in Parties \ {g} : Enjeu(h, u) = x
    BY <1>1 DEF EnjeuxSepares
  <1>3. PICK y \in Nat : /\ EnjeuDe(u)' = Enjeu(g, u)' + y
                         /\ \A h \in Parties \ {g} : Enjeu(h, u)' \in {0, y}
                         /\ y # 0 => \E h \in Parties \ {g} : Enjeu(h, u)' = y
    BY <1>1 DEF EnjeuxSepares
  <1>4. x = y
    BY <1>2, <1>3 DEF SeuleChange
  <1>5. Enjeu(g, u) \in Nat /\ Enjeu(g, u)' \in Nat
    BY <1>1 DEF EnjeuxNaturels
  <1> QED BY <1>2, <1>3, <1>4, <1>5

LEMMA LibreLu ==
    ASSUME NEW b \in Banques, NEW u \in Joueurs
    PROVE  /\ Libre(b, u) \in Nat /\ b.bloque[u] \in Nat /\ Avoir(b, u) \in Nat
           /\ Libre(b, u) = Avoir(b, u) - b.bloque[u]
  BY AvoirType DEF Libre, Avoir

LEMMA DeposerPas ==
    ASSUME Structure, Structure', Exact, Exact', Conserve(banque, banque'),
           NEW g \in Parties, SeuleChange(g),
           NEW d, d = [u \in Joueurs |-> Enjeu(g, u)']
    PROVE  Contrat!Deposer(g, d)
  <1>1. ASSUME NEW u \in Joueurs
        PROVE  /\ Libre(banque', u) = (Libre(banque, u) + Enjeu(g, u)) - d[u]
               /\ d[u] <= Libre(banque, u) + Enjeu(g, u)
    <2>1. banque.bloque[u] = EnjeuDe(u) /\ banque'.bloque[u] = EnjeuDe(u)'
      BY DEF Exact
    <2>2. /\ Libre(banque, u) \in Nat /\ Avoir(banque, u) \in Nat
          /\ Libre(banque, u) = Avoir(banque, u) - EnjeuDe(u)
      BY <2>1, LibreLu DEF Structure, TypeOK
    <2>3. /\ Libre(banque', u) \in Nat /\ Avoir(banque', u) = Avoir(banque, u)
          /\ Libre(banque', u) = Avoir(banque', u) - EnjeuDe(u)'
      BY <2>1, LibreLu DEF Conserve
    <2>4. /\ EnjeuDe(u) \in Nat /\ EnjeuDe(u)' \in Nat
          /\ Enjeu(g, u) \in Nat /\ Enjeu(g, u)' \in Nat
          /\ EnjeuDe(u)' - Enjeu(g, u)' = EnjeuDe(u) - Enjeu(g, u)
      BY EnjeuDeDiff
    <2>5. d[u] = Enjeu(g, u)'
      OBVIOUS
    <2> HIDE DEF Exact
    <2> QED BY <2>2, <2>3, <2>4, <2>5
  <1>2. [h \in Parties |-> [u \in Joueurs |-> Enjeu(h, u)]]'
          = [[h \in Parties |-> [u \in Joueurs |-> Enjeu(h, u)]] EXCEPT ![g] = d]
    BY DEF SeuleChange
  <1>3. banque'.capital = banque.capital
    BY DEF Conserve
  <1> QED BY <1>1, <1>2, <1>3 DEF Contrat!Deposer, Libre

-----------------------------------------------------------------------------
(* The refinement: each step of QuizGlobal is one of Sequestre, or none *)

\* Both ends of a step of QuizGlobal without the sweep
Tenu == Engagements /\ Exact

LEMMA SeuleLigne ==
    ASSUME NEW g \in Parties,
           \A h \in Parties \ {g} :
              /\ statut'[h] = statut[h] /\ mise'[h] = mise[h]
              /\ siegeA'[h] = siegeA[h] /\ siegeB'[h] = siegeB[h]
              /\ proposee'[h] = proposee[h]
    PROVE  SeuleChange(g)
  BY DEF SeuleChange, Enjeu, Participants, MiseEffective

LEMMA OuvrirPas ==
    ASSUME Tenu, Tenu', NEW u \in Joueurs, NEW g \in Parties,
           NEW i \in Joueurs \cup {Personne}, NEW m \in Mises,
           CreateGame(u, g, i, m), Conserve(banque, banque')
    PROVE  Contrat!Next
  <1> USE DEF Tenu, Engagements, Structure
  <1> DEFINE d == [v \in Joueurs |-> IF v = u THEN m ELSE 0]
  <1>1. /\ statut[g] = "ABSENTE" /\ statut' = [statut EXCEPT ![g] = "WAITING"]
        /\ siegeA' = [siegeA EXCEPT ![g] = u] /\ mise' = [mise EXCEPT ![g] = m]
        /\ UNCHANGED <<siegeB, proposee>>
        /\ m \in Nat /\ m <= banque.dispo[u]
    BY MisesHypothese DEF CreateGame
  <1>2. Contrat!Deposer(g, d)
    <2>1. statut'[g] = "WAITING" /\ Participants(g)' = {u}
      BY <1>1, PersonneHypothese DEF TypeOK, Sieges, Participants
    <2>2. MiseEffective(g)' = m
      BY <1>1 DEF TypeOK, PropositionVide, MiseEffective, Effective
    <2>3. d = [v \in Joueurs |-> Enjeu(g, v)']
      BY <2>1, <2>2 DEF Enjeu, Actives
    <2>4. SeuleChange(g)
      BY <1>1, SeuleLigne DEF TypeOK
    <2> HIDE DEF d
    <2> QED BY <2>3, <2>4, DeposerPas
  <1>3. Contrat!Ouvrir(g, u, m)
    <2>1. EtatDe(statut[g]) = "absent" /\ EtatDe("WAITING") = "ouvert"
      BY <1>1 DEF EtatDe, EnJeu
    <2>2. [h \in Parties |-> EtatDe(statut[h])]'
            = [[h \in Parties |-> EtatDe(statut[h])] EXCEPT ![g] = "ouvert"]
      BY <1>1, <2>1, EtatChange
    <2> QED BY <1>2, <2>1, <2>2 DEF Contrat!Ouvrir, EtatDe
  <1>4. m \in 0 .. (banque.dispo[u] + banque.gains[u])
    <2>1. banque.dispo[u] \in Nat /\ banque.gains[u] \in Nat
      BY AvoirType DEF TypeOK
    <2> QED BY <1>1, <2>1
  <1> QED BY <1>3, <1>4 DEF Contrat!Next

LEMMA EngagerPas ==
    ASSUME Tenu, Tenu', NEW u \in Joueurs, NEW g \in Parties, NEW p \in Mises,
           JoinGame(u, g, p), Conserve(banque, banque')
    PROVE  Contrat!Next
  <1> USE DEF Tenu, Engagements, Structure
  <1>0. PICK h, eff : h = siegeA[g] /\ eff = Effective(mise[g], p)
    OBVIOUS
  <1> DEFINE d == [v \in Joueurs |-> IF v \in {h, u} THEN eff ELSE 0]
  <1>1. /\ statut[g] = "WAITING"
        /\ statut' = [statut EXCEPT ![g] = "THEME_SELECTION"]
        /\ siegeB' = [siegeB EXCEPT ![g] = u]
        /\ proposee' = [proposee EXCEPT ![g] = p]
        /\ UNCHANGED <<siegeA, mise>>
        /\ p \in Nat /\ h \in Joueurs /\ h # u
    BY <1>0, MisesHypothese, PersonneHypothese
    DEF JoinGame, PeutRejoindre, Participants, Sieges, TypeOK
  <1>2. Contrat!Deposer(g, d)
    <2>1. statut'[g] = "THEME_SELECTION" /\ Participants(g)' = {h, u}
      BY <1>0, <1>1, PersonneHypothese DEF TypeOK, Participants
    <2>2. MiseEffective(g)' = eff
      BY <1>0, <1>1 DEF TypeOK, MiseEffective
    <2>3. d = [v \in Joueurs |-> Enjeu(g, v)']
      BY <2>1, <2>2 DEF Enjeu, Actives, EnJeu
    <2>4. SeuleChange(g)
      BY <1>1, SeuleLigne DEF TypeOK
    <2> HIDE DEF d
    <2> QED BY <2>3, <2>4, DeposerPas
  <1>3. Enjeu(g, h) = mise[g] /\ mise[g] \in Nat /\ eff \in 0 .. mise[g]
    <2>1. mise[g] \in Nat /\ eff \in Nat /\ eff <= mise[g]
      BY <1>0, <1>1, EffectiveType DEF TypeOK
    <2>2. MiseEffective(g) = mise[g]
      BY <1>1 DEF PropositionVide, MiseEffective, Effective
    <2>3. h \in Participants(g)
      BY <1>0, <1>1, PersonneHypothese DEF Participants
    <2> QED BY <1>1, <2>1, <2>2, <2>3 DEF Enjeu, Actives
  <1>4. Contrat!Engager(g, h, u, eff)
    <2>1. EtatDe(statut[g]) = "ouvert" /\ EtatDe("THEME_SELECTION") = "engage"
      BY <1>1 DEF EtatDe, EnJeu
    <2>2. [x \in Parties |-> EtatDe(statut[x])]'
            = [[x \in Parties |-> EtatDe(statut[x])] EXCEPT ![g] = "engage"]
      BY <1>1, <2>1, EtatChange
    <2>3. eff <= Enjeu(g, h)
      BY <1>3
    <2> QED BY <1>1, <1>2, <2>1, <2>2, <2>3 DEF Contrat!Engager, EtatDe
  <1> QED BY <1>1, <1>3, <1>4 DEF Contrat!Next

LEMMA RejouerPas ==
    ASSUME Tenu, Tenu', NEW u \in Joueurs, NEW g \in Parties, NEW n \in Parties,
           Revanche(u, g, n), Conserve(banque, banque')
    PROVE  Contrat!Next
  <1> USE DEF Tenu, Engagements, Structure
  <1>0. PICK a, m : a = (IF u = siegeA[g] THEN siegeB[g] ELSE siegeA[g]) /\ m = mise[g]
    OBVIOUS
  <1> DEFINE d == [v \in Joueurs |-> IF v \in {u, a} THEN m ELSE 0]
  <1>1. /\ statut[n] = "ABSENTE"
        /\ statut' = [statut EXCEPT ![n] = "THEME_SELECTION"]
        /\ siegeA' = [siegeA EXCEPT ![n] = u] /\ siegeB' = [siegeB EXCEPT ![n] = a]
        /\ mise' = [mise EXCEPT ![n] = m] /\ UNCHANGED proposee
        /\ m > 0 => PeutBloquer(banque, u, m, CleDe("reserve", n, u))
    BY <1>0 DEF Revanche
  <1>2. m \in Nat /\ a \in Joueurs /\ a # u
    BY <1>0, PersonneHypothese DEF Revanche, TypeOK, Sieges, Participants
  <1>3. Contrat!Deposer(n, d)
    <2>1. statut'[n] = "THEME_SELECTION" /\ Participants(n)' = {u, a}
      BY <1>1, <1>2, PersonneHypothese DEF TypeOK, Participants
    <2>2. MiseEffective(n)' = m
      BY <1>1 DEF TypeOK, PropositionVide, MiseEffective, Effective
    <2>3. d = [v \in Joueurs |-> Enjeu(n, v)']
      BY <2>1, <2>2 DEF Enjeu, Actives, EnJeu
    <2>4. SeuleChange(n)
      BY <1>1, SeuleLigne DEF TypeOK
    <2> HIDE DEF d
    <2> QED BY <2>3, <2>4, DeposerPas
  <1>4. Contrat!Rejouer(n, u, a, m)
    <2>1. EtatDe(statut[n]) = "absent" /\ EtatDe("THEME_SELECTION") = "engage"
      BY <1>1 DEF EtatDe, EnJeu
    <2>2. [x \in Parties |-> EtatDe(statut[x])]'
            = [[x \in Parties |-> EtatDe(statut[x])] EXCEPT ![n] = "engage"]
      BY <1>1, <2>1, EtatChange
    <2> QED BY <1>2, <1>3, <2>1, <2>2 DEF Contrat!Rejouer, EtatDe
  <1>5. m \in 0 .. (banque.dispo[u] + banque.gains[u])
    <2>1. banque.dispo[u] \in Nat /\ banque.gains[u] \in Nat
      BY AvoirType DEF TypeOK
    <2>2. CleDe("reserve", n, u) \notin banque.cles
      BY <1>1 DEF ClesFraiches, CleValide, CleDe, Sieges, Participants
    <2> QED BY <1>1, <1>2, <2>1, <2>2 DEF PeutBloquer
  <1> QED BY <1>2, <1>4, <1>5 DEF Contrat!Next

LEMMA RendrePas ==
    ASSUME Tenu, Tenu', NEW g \in Parties, statut[g] \in Actives,
           NEW s \in Inactives, statut' = [statut EXCEPT ![g] = s],
           UNCHANGED places, Conserve(banque, banque')
    PROVE  Contrat!Next
  <1> USE DEF Tenu, Engagements, Structure
  <1> DEFINE d == [v \in Joueurs |-> 0]
  <1>1. Contrat!Deposer(g, d)
    <2>1. statut'[g] \notin Actives
      BY DEF TypeOK, Actives, EnJeu, Inactives
    <2>2. d = [v \in Joueurs |-> Enjeu(g, v)']
      BY <2>1 DEF Enjeu
    <2>3. SeuleChange(g)
      BY SeuleLigne DEF TypeOK
    <2> HIDE DEF d
    <2> QED BY <2>2, <2>3, DeposerPas
  <1>2. Contrat!Rendre(g)
    <2>1. EtatDe(statut[g]) \in {"ouvert", "engage"} /\ EtatDe(s) = "clos"
      BY DEF EtatDe, Actives, EnJeu, Inactives
    <2>2. [x \in Parties |-> EtatDe(statut[x])]'
            = [[x \in Parties |-> EtatDe(statut[x])] EXCEPT ![g] = "clos"]
      BY <2>1, EtatChange
    <2> QED BY <1>1, <2>1, <2>2 DEF Contrat!Rendre, EtatDe
  <1> QED BY <1>2 DEF Contrat!Next

LEMMA PayerPas ==
    ASSUME Tenu, Tenu', NEW g \in Parties, NEW w \in Joueurs, FinishGame(g, w)
    PROVE  Contrat!Next
  <1> USE DEF Tenu, Engagements, Structure
  <1>0. PICK l, m, c : /\ l = IF w = siegeA[g] THEN siegeB[g] ELSE siegeA[g]
                       /\ m = MiseEffective(g)
                       /\ c = 2 * CommissionPour(m)
    OBVIOUS
  <1>1. /\ statut[g] = "QUESTION_FINISHED"
        /\ statut' = [statut EXCEPT ![g] = "FINISHED"]
        /\ UNCHANGED places
    BY DEF FinishGame
  <1>2. /\ l \in Joueurs /\ w # l /\ Participants(g) = {w, l}
        /\ m \in Nat /\ c \in Nat /\ c <= m
        /\ banque' \in Banques
        /\ banque'.capital = banque.capital + c
        /\ Avoir(banque', l) = Avoir(banque, l) - m
        /\ Avoir(banque', w) = (Avoir(banque, w) + m) - c
        /\ \A v \in Joueurs \ {w, l} : Avoir(banque', v) = Avoir(banque, v)
    BY <1>0, ReglementPas
  <1>3. /\ Enjeu(g, w) = m /\ Enjeu(g, l) = m
        /\ \A v \in Joueurs \ {w, l} : Enjeu(g, v) = 0
    BY <1>0, <1>1, <1>2 DEF Enjeu, Actives, EnJeu
  <1>4. statut'[g] \notin Actives /\ \A v \in Joueurs : Enjeu(g, v)' = 0
    BY <1>1 DEF TypeOK, Actives, EnJeu, Enjeu
  <1>5. SeuleChange(g)
    BY <1>1, SeuleLigne DEF TypeOK
  <1>6. ASSUME NEW v \in Joueurs
        PROVE  Libre(banque', v) = IF v = w THEN Libre(banque, v) + ((m + m) - c)
                                            ELSE Libre(banque, v)
    <2>1. banque.bloque[v] = EnjeuDe(v) /\ banque'.bloque[v] = EnjeuDe(v)'
      BY DEF Exact
    <2>2. /\ Libre(banque, v) \in Nat /\ Avoir(banque, v) \in Nat
          /\ Libre(banque, v) = Avoir(banque, v) - EnjeuDe(v)
      BY <2>1, LibreLu DEF TypeOK
    <2>3. /\ Libre(banque', v) \in Nat /\ Avoir(banque', v) \in Nat
          /\ Libre(banque', v) = Avoir(banque', v) - EnjeuDe(v)'
      BY <1>2, <2>1, LibreLu
    <2>4. /\ EnjeuDe(v) \in Nat /\ EnjeuDe(v)' \in Nat
          /\ Enjeu(g, v) \in Nat /\ Enjeu(g, v)' \in Nat
          /\ EnjeuDe(v)' - Enjeu(g, v)' = EnjeuDe(v) - Enjeu(g, v)
      BY <1>5, EnjeuDeDiff
    <2>5. EnjeuDe(v)' = EnjeuDe(v) - Enjeu(g, v)
      BY <1>4, <2>4
    <2> QED BY <1>2, <1>3, <2>2, <2>3, <2>4, <2>5
  <1>7. Contrat!Payer(g, w, l, c)
    <2>1. EtatDe(statut[g]) = "engage" /\ EtatDe("FINISHED") = "clos"
      BY <1>1 DEF EtatDe, EnJeu
    <2>2. [x \in Parties |-> EtatDe(statut[x])]'
            = [[x \in Parties |-> EtatDe(statut[x])] EXCEPT ![g] = "clos"]
      BY <1>1, <2>1, EtatChange
    <2>3. [h \in Parties |-> [v \in Joueurs |-> Enjeu(h, v)]]'
            = [[h \in Parties |-> [v \in Joueurs |-> Enjeu(h, v)]]
                  EXCEPT ![g] = [v \in Joueurs |-> 0]]
      BY <1>4, <1>5 DEF SeuleChange
    <2>4. [v \in Joueurs |-> Libre(banque, v)]'
            = [[v \in Joueurs |-> Libre(banque, v)]
                  EXCEPT ![w] = @ + ((Enjeu(g, w) + Enjeu(g, l)) - c)]
      BY <1>2, <1>3, <1>6
    <2>5. c <= Enjeu(g, l)
      BY <1>2, <1>3
    <2> QED BY <1>2, <2>1, <2>2, <2>3, <2>4, <2>5 DEF Contrat!Payer, EtatDe, Libre
  <1>8. c \in 0 .. Enjeu(g, l)
    BY <1>2, <1>3
  <1> QED BY <1>2, <1>7, <1>8 DEF Contrat!Next

\* A step that leaves the state of every duel, the seats and the bank
LEMMA BegaiementPas ==
    ASSUME UNCHANGED <<places, banque>>,
           \A h \in Parties : \/ statut'[h] = statut[h]
                              \/ statut[h] \in EnJeu /\ statut'[h] \in EnJeu
    PROVE  UNCHANGED Contrat!vars
  <1>1. \A h \in Parties : EtatDe(statut'[h]) = EtatDe(statut[h])
    BY DEF EtatDe, EnJeu
  <1>2. [h \in Parties |-> EtatDe(statut[h])]' = [h \in Parties |-> EtatDe(statut[h])]
    BY <1>1
  <1>3. \A h \in Parties, u \in Joueurs : Enjeu(h, u)' = Enjeu(h, u)
    BY DEF Enjeu, Actives, Participants, MiseEffective
  <1>4. [h \in Parties |-> [u \in Joueurs |-> Enjeu(h, u)]]'
          = [h \in Parties |-> [u \in Joueurs |-> Enjeu(h, u)]]
    BY <1>3
  <1> QED BY <1>2, <1>4 DEF Contrat!vars, EtatDe

\* Without the sweep, every step of QuizGlobal is one of Sequestre or changes
\* nothing that Sequestre knows.
PasDuContrat == Contrat!Next \/ UNCHANGED Contrat!vars

LEMMA ContratPas ==
    ASSUME ~BalayageAbandon, Tenu, Tenu', [Next]_vars
    PROVE  PasDuContrat
  <1> USE DEF Tenu, Engagements, Structure
  <1>1. ASSUME NEW g \in Parties, NEW w \in Joueurs, FinishGame(g, w)
        PROVE  PasDuContrat
    BY <1>1, PayerPas DEF PasDuContrat
  <1>2. CASE \A g \in Parties, w \in Joueurs : ~FinishGame(g, w)
    <2>0. Conserve(banque, banque')
      BY <1>2, AvoirPas DEF AvoirStable
    <2>1. ASSUME NEW u \in Joueurs, NEW g \in Parties,
                 NEW i \in Joueurs \cup {Personne}, NEW m \in Mises,
                 CreateGame(u, g, i, m)
          PROVE  PasDuContrat
      BY <2>0, <2>1, OuvrirPas DEF PasDuContrat
    <2>2. ASSUME NEW u \in Joueurs, NEW g \in Parties, NEW p \in Mises,
                 JoinGame(u, g, p)
          PROVE  PasDuContrat
      BY <2>0, <2>2, EngagerPas DEF PasDuContrat
    <2>3. ASSUME NEW u \in Joueurs, NEW g \in Parties, NEW n \in Parties,
                 Revanche(u, g, n)
          PROVE  PasDuContrat
      BY <2>0, <2>3, RejouerPas DEF PasDuContrat
    <2>4. ASSUME NEW g \in Parties,
                 \/ ExpirerSalon(g) \/ FinishDraw(g)
                 \/ \E u \in Joueurs : RefuserEtFermer(u, g) \/ AnnulerGame(u, g)
          PROVE  PasDuContrat
      <3>1. /\ statut[g] \in Actives
            /\ \E s \in Inactives : statut' = [statut EXCEPT ![g] = s]
            /\ UNCHANGED places
        <4>1. CASE ExpirerSalon(g) \/ \E u \in Joueurs : RefuserEtFermer(u, g)
          BY <4>1
          DEF ExpirerSalon, RefuserEtFermer, PeutRefuser, FermerSalon, Actives,
              Inactives
        <4>2. CASE FinishDraw(g)
          BY <4>2 DEF FinishDraw, Actives, EnJeu, Inactives
        <4>3. ASSUME NEW u \in Joueurs, AnnulerGame(u, g)
              PROVE  /\ statut[g] \in Actives
                     /\ \E s \in Inactives : statut' = [statut EXCEPT ![g] = s]
                     /\ UNCHANGED places
          <5>1. statut[g] \in Actives
            BY <4>3, PersonneHypothese
            DEF AnnulerGame, Actives, Inactives, Statuts, Sieges, Participants, TypeOK
          <5> QED BY <4>3, <5>1 DEF AnnulerGame, Inactives
        <4> QED BY <2>4, <4>1, <4>2, <4>3
      <3> QED BY <2>0, <3>1, RendrePas DEF PasDuContrat
    <2>5. CASE /\ UNCHANGED <<places, banque>>
               /\ \A h \in Parties : \/ statut'[h] = statut[h]
                                     \/ statut[h] \in EnJeu /\ statut'[h] \in EnJeu
      BY <2>5, BegaiementPas DEF PasDuContrat
    <2>6. ASSUME NEW g \in Parties,
                 \/ SelectTheme(g) \/ StartAnswering(g) \/ FinishQuestion(g)
                 \/ AdvanceAfterResult(g)
          PROVE  PasDuContrat
      <3>1. /\ UNCHANGED <<places, banque>>
            /\ statut[g] \in EnJeu
            /\ \E s \in EnJeu : statut' = [statut EXCEPT ![g] = s]
        BY <2>6
        DEF SelectTheme, StartAnswering, FinishQuestion, AdvanceAfterResult,
            Avancer, EnJeu
      <3>2. \A h \in Parties : \/ statut'[h] = statut[h]
                               \/ statut[h] \in EnJeu /\ statut'[h] \in EnJeu
        BY <3>1 DEF TypeOK
      <3> QED BY <2>5, <3>1, <3>2
    <2>7. ASSUME NEW g \in Parties, NEW u \in Joueurs, NEW r \in Joueurs,
                 \/ InviterJoueur(u, g, r) \/ AnnulerInvitation(u, g, r)
                 \/ RefuserEtGarder(u, g)
          PROVE  UNCHANGED <<statut, places, banque>>
      BY <2>7 DEF InviterJoueur, AnnulerInvitation, RefuserEtGarder
    <2>8. ASSUME NEW g \in Parties, Vieillir(g) \/ Stagner(g)
          PROVE  UNCHANGED <<statut, places, banque>>
      BY <2>8 DEF Vieillir, Stagner
    <2>9. ~ListerBloquees /\ ~AbandonnerBloquees
      BY DEF ListerBloquees, AbandonnerBloquees, Exact
    <2>10. UNCHANGED vars => UNCHANGED <<statut, places, banque>>
      BY DEF vars
    <2>11. UNCHANGED <<statut, places, banque>> => PasDuContrat
      BY <2>5
    <2> QED
      BY <2>1, <2>2, <2>3, <2>4, <2>6, <2>7, <2>8, <2>9, <2>10, <2>11, <1>2
      DEF Next, Jouer
  <1> QED BY <1>1, <1>2

LEMMA ContratInit == Init => Contrat!Init
  <1> SUFFICES ASSUME Init PROVE Contrat!Init
    OBVIOUS
  <1>1. \A g \in Parties, u \in Joueurs : Enjeu(g, u) = 0
    BY DEF Init, Enjeu, Actives, EnJeu
  <1>2. \A g \in Parties : statut[g] = "ABSENTE"
    BY DEF Init
  <1>3. \A u \in Joueurs : banque.dispo[u] + banque.gains[u] = SoldeInitial
    <2>1. ASSUME NEW u \in Joueurs
          PROVE  banque.dispo[u] = SoldeInitial /\ banque.gains[u] = 0
      BY DEF Init
    <2>2. ASSUME NEW u \in Joueurs, NEW x \in Nat, x = SoldeInitial
          PROVE  banque.dispo[u] + banque.gains[u] = SoldeInitial
      BY <2>1, <2>2
    <2> QED BY <2>2, SoldeHypothese
  <1>4. banque.capital = 0
    BY DEF Init
  <1> QED BY <1>1, <1>2, <1>3, <1>4 DEF Contrat!Init, EnJeu

\* One blocked balance per player, with ledger keys that make a service run at
\* most once, implements one escrow per duel: every stake that is put into a
\* game comes out of it once, to its owner, or to the winner less the share of
\* the platform.  The sweep of stuck games, which config/settings does not
\* schedule, is the one handler that breaks it: it frees the players and gives
\* no stake back (abandonner_parties_bloquees, services.py:626).
THEOREM RespecteLeContratTheoreme ==
    ASSUME ~BalayageAbandon
    PROVE  Spec => RespecteLeContrat
  <1>1. ASSUME Engagements, Exact, Engagements', Exact', [Next]_vars
        PROVE  [Contrat!Next]_(Contrat!vars)
    BY <1>1, ContratPas DEF Tenu, PasDuContrat
  <1> QED
    BY <1>1, ContratInit, EngagementsInvariants, ExactInvariant, PTL
    DEF Spec, RespecteLeContrat, Contrat!Spec
=============================================================================
