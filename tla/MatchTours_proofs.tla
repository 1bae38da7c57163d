------------------------- MODULE MatchTours_proofs --------------------------
(***************************************************************************)
(* Why nothing is lost while a match is played without a lock.             *)
(*                                                                         *)
(* Whoever saves the scores he has read also creates the turn after the    *)
(* one he has read.  A handler that has read an old turn therefore fails,  *)
(* and one that succeeds has read the scores that are still there          *)
(* (LecturesJustes).                                                       *)
(***************************************************************************)
EXTENDS MatchTours, FiniteSetTheorems, TLAPS

USE DEF Joueurs, Personne, Statuts, StatutsTour, EtatsReponse

(* What a pending handler or thread has read: an older match, or this one *)
LectureJuste(l) ==
    l \in Lectures =>
        /\ l.tour <= tourActuel
        /\ l.tour = tourActuel => l.score = score
        /\ \A u \in Joueurs : l.score[u] <= score[u]

LecturesJustes ==
    /\ \A t \in Numeros, u \in Joueurs : LectureJuste(requetes[t][u])
    /\ \A t \in Numeros : LectureJuste(minuteurs[t])

IInv == TypeOK /\ ToursSansTrou /\ LecturesJustes

(* Only turns that were opened are answered or timed *)
ToursOuverts ==
    \A t \in Numeros :
        tours[t] = "absent" =>
          minuteurs[t] = Rien /\ \A u \in Joueurs : requetes[t][u] = Rien

-----------------------------------------------------------------------------
\* The two players, each the opponent of the other.
LEMMA Adversaires ==
    /\ Adversaire("hote") = "invite"
    /\ Adversaire("invite") = "hote"
BY DEF Adversaire

\* A handler that opens a turn has read the match as it is now.
LEMMA OuvrirFrais ==
    ASSUME IInv, NEW l \in Lectures, PeutOuvrir(l), LectureJuste(l)
    PROVE  /\ l.tour = tourActuel
           /\ l.score = score
           /\ tourActuel + 1 \in Numeros
           /\ tours[tourActuel + 1] = "absent"
<1>1. l.tour \in Numeros /\ tourActuel \in Numeros /\ tourActuel < NbQuestions
  BY DEF Lectures, IInv, TypeOK, PeutOuvrir
<1>2. l.tour + 1 \in Numeros /\ l.tour <= tourActuel
  BY <1>1, NbQuestionsHypothese DEF Numeros, LectureJuste
<1>3. ~(l.tour + 1 <= tourActuel)
  BY <1>2 DEF IInv, ToursSansTrou, PeutOuvrir
<1>4. l.tour = tourActuel
  BY <1>1, <1>2, <1>3 DEF Numeros
<1> QED
  BY <1>1, <1>2, <1>4 DEF LectureJuste, PeutOuvrir, Numeros

\* The match as it is now is a reading.
LEMMA LectureLecture ==
    ASSUME TypeOK
    PROVE  Lecture \in Lectures /\ LectureJuste(Lecture)
<1>1. Lecture \in Lectures
  BY DEF TypeOK, Lecture, Lectures
<1>2. tourActuel \in Nat /\ \A u \in Joueurs : score[u] \in Nat
  BY NbQuestionsHypothese, ScoreCibleHypothese DEF TypeOK, Scores, Numeros
<1>3. Lecture.tour = tourActuel /\ Lecture.score = score
  BY DEF Lecture
<1> QED
  BY <1>1, <1>2, <1>3 DEF LectureJuste

\* Opening the next turn keeps the numbering, and the readings of the others
\* become old ones.
LEMMA EnchainerPreserve ==
    ASSUME IInv, NEW t \in Numeros, tours[t] # "absent",
           NEW l \in Lectures, LectureJuste(l),
           NEW s \in Scores, \A u \in Joueurs : l.score[u] <= s[u],
           Enchainer(t, l, s)
    PROVE  /\ score' \in Scores
           /\ tourActuel' = tourActuel + 1
           /\ tourActuel' \in Numeros
           /\ l.tour + 1 = tourActuel'
           /\ tours' \in [Numeros -> StatutsTour]
           /\ ToursSansTrou'
           /\ \A k : LectureJuste(k) => LectureJuste(k)'
<1>1. /\ l.tour = tourActuel
      /\ l.score = score
      /\ tourActuel + 1 \in Numeros
      /\ tours[tourActuel + 1] = "absent"
  BY OuvrirFrais DEF Enchainer
<1>2. /\ score' = s
      /\ tourActuel' = tourActuel + 1
      /\ tours' = [tours EXCEPT ![t] = "termine", ![tourActuel + 1] = "en_cours"]
  BY <1>1 DEF Enchainer
<1>3. tourActuel \in Numeros /\ tours \in [Numeros -> StatutsTour]
  BY DEF IInv, TypeOK
<1>4. ToursSansTrou'
  <2> SUFFICES ASSUME NEW k \in Numeros
               PROVE  tours'[k] # "absent" <=> k <= tourActuel + 1
    BY <1>2 DEF ToursSansTrou
  <2>1. tours[k] # "absent" <=> k <= tourActuel
    BY DEF IInv, ToursSansTrou
  <2>2. k \in Nat /\ tourActuel \in Nat
    BY <1>3, NbQuestionsHypothese DEF Numeros
  <2>3. CASE k = tourActuel + 1
    BY <1>2, <1>3, <2>2, <2>3
  <2>4. CASE k # tourActuel + 1
    <3>1. tours'[k] # "absent" <=> tours[k] # "absent"
      BY <1>1, <1>2, <1>3, <2>4
    <3> QED
      BY <2>1, <2>2, <2>4, <3>1
  <2> QED
    BY <2>3, <2>4
<1>5. \A k : LectureJuste(k) => LectureJuste(k)'
  <2> SUFFICES ASSUME NEW k \in Lectures, LectureJuste(k)
               PROVE  LectureJuste(k)'
    BY DEF LectureJuste
  <2>1. k.tour \in Nat /\ tourActuel \in Nat /\ k.tour <= tourActuel
    BY <1>3, NbQuestionsHypothese DEF Lectures, Numeros, LectureJuste
  <2>2. \A u \in Joueurs : k.score[u] <= score[u] /\ score[u] <= s[u]
    BY <1>1 DEF LectureJuste
  <2>3. \A u \in Joueurs : k.score[u] \in Nat /\ score[u] \in Nat /\ s[u] \in Nat
    BY ScoreCibleHypothese DEF IInv, TypeOK, Lectures, Scores
  <2>4. \A u \in Joueurs : k.score[u] <= s[u]
    BY <2>2, <2>3
  <2> QED
    BY <1>2, <2>1, <2>4 DEF LectureJuste
<1> QED
  BY <1>1, <1>2, <1>3, <1>4, <1>5

-----------------------------------------------------------------------------
LEMMA InitIInv == Init => IInv
<1> SUFFICES ASSUME Init PROVE IInv
  OBVIOUS
<1>1. 1 \in Numeros
  BY NbQuestionsHypothese DEF Numeros
<1>2. TypeOK
  BY <1>1, ScoreCibleHypothese, RedemarragesHypothese DEF Init, TypeOK, Scores
<1>3. ToursSansTrou
  BY <1>1 DEF Init, ToursSansTrou, Numeros
<1>4. LecturesJustes
  BY MarquesHypothese DEF Init, LecturesJustes, LectureJuste
<1> QED
  BY <1>2, <1>3, <1>4 DEF IInv

\* What the handler of u computes is again below the target, unless it ends
\* the match, and not below what it has read.
LEMMA ScoreApresBorne ==
    ASSUME NEW l \in Lectures, NEW u \in Joueurs, NEW r,
           ~Fin(ScoreApres(l, u, r))
    PROVE  /\ ScoreApres(l, u, r) \in Scores
           /\ \A v \in Joueurs : l.score[v] <= ScoreApres(l, u, r)[v]
<1> DEFINE s == ScoreApres(l, u, r)
<1>1. l.score \in Scores
  BY DEF Lectures
<1>2. \A v \in Joueurs : l.score[v] \in Nat
  BY <1>1, ScoreCibleHypothese DEF Scores
<1>3. s \in [Joueurs -> Nat] /\ \A v \in Joueurs : l.score[v] <= s[v]
  BY <1>1, <1>2 DEF ScoreApres, Scores
<1>4. \A v \in Joueurs : ~(s[v] >= ScoreCible)
  BY DEF Fin
<1>5. \A v \in Joueurs : s[v] \in 0..(ScoreCible - 1)
  <2> SUFFICES ASSUME NEW v \in Joueurs PROVE s[v] \in 0..(ScoreCible - 1)
    OBVIOUS
  <2>1. s[v] \in Nat /\ ~(s[v] >= ScoreCible)
    BY <1>3, <1>4
  <2> HIDE DEF s
  <2> QED
    BY <2>1, ScoreCibleHypothese
<1>6. s \in Scores
  <2> HIDE DEF s
  <2> QED
    BY <1>3, <1>5 DEF Scores
<1> QED
  BY <1>3, <1>6

\* IInv after a step that leaves the scores and the numbers of the turns alone.
LEMMA SansTour ==
    ASSUME IInv, TypeOK', UNCHANGED <<score, tourActuel>>,
           \A t \in Numeros : tours'[t] # "absent" <=> tours[t] # "absent",
           \A t \in Numeros, u \in Joueurs :
              requetes'[t][u] \in {requetes[t][u], Rien, Lecture},
           \A t \in Numeros : minuteurs'[t] \in {minuteurs[t], Rien, Lecture}
    PROVE  IInv'
<1>1. ToursSansTrou'
  BY DEF IInv, ToursSansTrou
<1>2. \A k : LectureJuste(k) => LectureJuste(k)'
  BY DEF LectureJuste
<1>3. LectureJuste(Rien) /\ LectureJuste(Lecture)
  BY MarquesHypothese, LectureLecture DEF LectureJuste, IInv
<1>4. \A t \in Numeros, u \in Joueurs : LectureJuste(requetes[t][u])
  BY DEF IInv, LecturesJustes
<1>5. \A t \in Numeros : LectureJuste(minuteurs[t])
  BY DEF IInv, LecturesJustes
<1>6. ASSUME NEW t \in Numeros, NEW u \in Joueurs
      PROVE  LectureJuste(requetes[t][u])'
  <2>1. requetes'[t][u] \in {requetes[t][u], Rien, Lecture}
    OBVIOUS
  <2>2. LectureJuste(requetes'[t][u])
    BY <1>3, <1>4, <2>1
  <2> QED
    BY <2>2 DEF LectureJuste
<1>7. ASSUME NEW t \in Numeros PROVE LectureJuste(minuteurs[t])'
  <2>1. minuteurs'[t] \in {minuteurs[t], Rien, Lecture}
    OBVIOUS
  <2>2. LectureJuste(minuteurs'[t])
    BY <1>3, <1>5, <2>1
  <2> QED
    BY <2>2 DEF LectureJuste
<1>8. LecturesJustes'
  BY <1>6, <1>7 DEF LecturesJustes
<1> QED
  BY <1>1, <1>8 DEF IInv

-----------------------------------------------------------------------------
(* One lemma per action *)

LEMMA LireReponseIInv ==
    ASSUME IInv, NEW u \in Joueurs, NEW t \in Numeros, LireReponse(u, t)
    PROVE  IInv'
<1>1. Lecture \in Lectures
  BY LectureLecture DEF IInv
<1>2. UNCHANGED <<match, lignes, minuteurs, redemarrages>>
  BY DEF LireReponse
<1>3. requetes' = [requetes EXCEPT ![t][u] = Lecture]
  BY DEF LireReponse
<1>4. TypeOK'
  BY <1>1, <1>2, <1>3 DEF IInv, TypeOK, match, lignes
<1>5. \A k \in Numeros, v \in Joueurs :
         requetes'[k][v] \in {requetes[k][v], Rien, Lecture}
  BY <1>3 DEF IInv, TypeOK
<1> QED
  BY <1>2, <1>4, <1>5, SansTour DEF match, lignes

\* Of the rows of the match, Cloturer writes the status and the winner.
LEMMA CloturerTypes ==
    ASSUME TypeOK, NEW i, NEW d, Cloturer(i, d)
    PROVE  statut' \in Statuts /\ vainqueur' \in Joueurs \cup {Personne}
BY DEF TypeOK, Cloturer, VainqueurIntrus, VainqueurAuScore

LEMMA RepondreEtCloreIInv ==
    ASSUME IInv, NEW u \in Joueurs, NEW t \in Numeros, NEW r \in {"juste", "fausse"},
           RepondreEtClore(u, t, r), tours[t] # "absent"
    PROVE  IInv'
<1>1. /\ tours' = [tours EXCEPT ![t] = "termine"]
      /\ reponses' = [reponses EXCEPT ![t][u] = r]
      /\ dernier' = [dernier EXCEPT ![t] = u]
      /\ requetes' = [requetes EXCEPT ![t][u] = Rien]
      /\ UNCHANGED <<redemarrages, typeJeu, score, tourActuel, minuteurs>>
  BY DEF RepondreEtClore, EcrireReponse
<1>2. statut' \in Statuts /\ vainqueur' \in Joueurs \cup {Personne}
  BY CloturerTypes DEF RepondreEtClore, IInv
<1>3. TypeOK'
  BY <1>1, <1>2 DEF IInv, TypeOK
<1>4. \A k \in Numeros : tours'[k] # "absent" <=> tours[k] # "absent"
  BY <1>1 DEF IInv, TypeOK
<1>5. \A k \in Numeros, v \in Joueurs :
         requetes'[k][v] \in {requetes[k][v], Rien, Lecture}
  BY <1>1 DEF IInv, TypeOK
<1> QED
  BY <1>1, <1>3, <1>4, <1>5, SansTour

LEMMA RepondreEchoueIInv ==
    ASSUME IInv, NEW u \in Joueurs, NEW t \in Numeros, NEW r,
           RepondreEchoue(u, t, r)
    PROVE  IInv'
<1>1. /\ requetes' = [requetes EXCEPT ![t][u] = Rien]
      /\ UNCHANGED <<match, lignes, minuteurs, redemarrages>>
  BY DEF RepondreEchoue
<1>2. TypeOK'
  BY <1>1 DEF IInv, TypeOK, match, lignes
<1>3. \A k \in Numeros, v \in Joueurs :
         requetes'[k][v] \in {requetes[k][v], Rien, Lecture}
  BY <1>1 DEF IInv, TypeOK
<1> QED
  BY <1>1, <1>2, <1>3, SansTour DEF match, lignes

LEMMA MinuteurLitIInv ==
    ASSUME IInv, NEW t \in Numeros, MinuteurLit(t)
    PROVE  IInv'
<1>1. Lecture \in Lectures
  BY LectureLecture DEF IInv
<1>2. /\ minuteurs' = [minuteurs EXCEPT ![t] = IF SansReponse(t) THEN Lecture ELSE Rien]
      /\ UNCHANGED <<match, lignes, requetes, redemarrages>>
  BY DEF MinuteurLit
<1>3. \A k \in Numeros : minuteurs'[k] \in {minuteurs[k], Rien, Lecture}
  BY <1>2 DEF IInv, TypeOK
<1>4. minuteurs' \in [Numeros -> Lectures \cup {Rien, Arme}]
  BY <1>1, <1>2 DEF IInv, TypeOK
<1>5. TypeOK'
  BY <1>2, <1>4 DEF IInv, TypeOK, match, lignes
<1> QED
  BY <1>2, <1>3, <1>5, SansTour DEF match, lignes

LEMMA MinuteurEchoueIInv ==
    ASSUME IInv, NEW t \in Numeros, MinuteurEchoue(t)
    PROVE  IInv'
<1>1. /\ minuteurs' = [minuteurs EXCEPT ![t] = Rien]
      /\ UNCHANGED <<match, lignes, requetes, redemarrages>>
  BY DEF MinuteurEchoue
<1>2. \A k \in Numeros : minuteurs'[k] \in {minuteurs[k], Rien, Lecture}
  BY <1>1 DEF IInv, TypeOK
<1>3. TypeOK'
  BY <1>1 DEF IInv, TypeOK, match, lignes
<1> QED
  BY <1>1, <1>2, <1>3, SansTour DEF match, lignes

LEMMA RedemarrerIInv ==
    ASSUME IInv, Redemarrer
    PROVE  IInv'
<1>1. /\ requetes' = [t \in Numeros |-> [u \in Joueurs |-> Rien]]
      /\ minuteurs' = [t \in Numeros |-> Rien]
      /\ UNCHANGED <<match, lignes>>
  BY DEF Redemarrer
<1>2. redemarrages' \in 0..RedemarragesMax
  BY RedemarragesHypothese DEF IInv, TypeOK, Redemarrer
<1>3. TypeOK'
  BY <1>1, <1>2 DEF IInv, TypeOK, match, lignes
<1> QED
  BY <1>1, <1>3, SansTour DEF match, lignes

LEMMA RepondreEtContinuerIInv ==
    ASSUME IInv, NEW u \in Joueurs, NEW t \in Numeros, NEW r \in {"juste", "fausse"},
           RepondreEtContinuer(u, t, r), tours[t] # "absent"
    PROVE  IInv'
<1> DEFINE l == requetes[t][u]
           s == ScoreApres(l, u, r)
<1>1. l \in Lectures /\ LectureJuste(l)
  BY DEF IInv, TypeOK, LecturesJustes, RepondreEtContinuer
<1>2. /\ ~Fin(s)
      /\ Enchainer(t, l, s)
      /\ reponses' = [reponses EXCEPT ![t][u] = r]
      /\ dernier' = [dernier EXCEPT ![t] = u]
      /\ requetes' = [requetes EXCEPT ![t][u] = Rien]
      /\ minuteurs' = [minuteurs EXCEPT ![l.tour + 1] = Arme]
      /\ UNCHANGED redemarrages
  BY DEF RepondreEtContinuer, EcrireReponse
<1>3. s \in Scores /\ \A v \in Joueurs : l.score[v] <= s[v]
  BY <1>1, <1>2, ScoreApresBorne
<1> HIDE DEF s
<1>4. /\ score' \in Scores
      /\ tourActuel' \in Numeros
      /\ l.tour + 1 = tourActuel'
      /\ tours' \in [Numeros -> StatutsTour]
      /\ ToursSansTrou'
      /\ \A k : LectureJuste(k) => LectureJuste(k)'
  BY <1>1, <1>2, <1>3, EnchainerPreserve
<1>5. UNCHANGED <<typeJeu, statut, vainqueur>>
  BY <1>2 DEF Enchainer
<1>6. TypeOK'
  BY <1>2, <1>4, <1>5 DEF IInv, TypeOK
<1>7. LectureJuste(Rien) /\ LectureJuste(Arme)
  BY MarquesHypothese DEF LectureJuste
<1>8. ASSUME NEW k \in Numeros, NEW v \in Joueurs
      PROVE  LectureJuste(requetes[k][v])'
  <2>1. requetes'[k][v] \in {requetes[k][v], Rien}
    BY <1>2 DEF IInv, TypeOK
  <2>2. LectureJuste(requetes'[k][v])
    BY <1>7, <2>1 DEF IInv, LecturesJustes
  <2> QED
    BY <1>4, <2>2 DEF LectureJuste
<1>9. ASSUME NEW k \in Numeros PROVE LectureJuste(minuteurs[k])'
  <2>1. minuteurs'[k] \in {minuteurs[k], Arme}
    BY <1>2 DEF IInv, TypeOK
  <2>2. LectureJuste(minuteurs'[k])
    BY <1>7, <2>1 DEF IInv, LecturesJustes
  <2> QED
    BY <1>4, <2>2 DEF LectureJuste
<1>10. LecturesJustes'
  BY <1>8, <1>9 DEF LecturesJustes
<1> QED
  BY <1>4, <1>6, <1>10 DEF IInv

LEMMA MinuteurEnchaineIInv ==
    ASSUME IInv, NEW t \in Numeros, MinuteurEnchaine(t), tours[t] # "absent"
    PROVE  IInv'
<1> DEFINE l == minuteurs[t]
<1>1. l \in Lectures /\ LectureJuste(l)
  BY DEF IInv, TypeOK, LecturesJustes, MinuteurEnchaine
<1>2. /\ Enchainer(t, l, l.score)
      /\ minuteurs' = [minuteurs EXCEPT ![t] = Rien, ![l.tour + 1] = Arme]
      /\ UNCHANGED <<reponses, dernier, requetes, redemarrages>>
  BY DEF MinuteurEnchaine
<1>3. l.score \in Scores /\ \A v \in Joueurs : l.score[v] <= l.score[v]
  BY <1>1, ScoreCibleHypothese DEF Lectures, Scores
<1>4. /\ score' \in Scores
      /\ tourActuel' \in Numeros
      /\ l.tour + 1 = tourActuel'
      /\ tours' \in [Numeros -> StatutsTour]
      /\ ToursSansTrou'
      /\ \A k : LectureJuste(k) => LectureJuste(k)'
  BY <1>1, <1>2, <1>3, EnchainerPreserve
<1>5. UNCHANGED <<typeJeu, statut, vainqueur>>
  BY <1>2 DEF Enchainer
<1>6. TypeOK'
  BY <1>2, <1>4, <1>5 DEF IInv, TypeOK
<1>7. LectureJuste(Rien) /\ LectureJuste(Arme)
  BY MarquesHypothese DEF LectureJuste
<1>8. ASSUME NEW k \in Numeros, NEW v \in Joueurs
      PROVE  LectureJuste(requetes[k][v])'
  BY <1>2, <1>4 DEF IInv, LecturesJustes, LectureJuste
<1>9. ASSUME NEW k \in Numeros PROVE LectureJuste(minuteurs[k])'
  <2>1. minuteurs'[k] \in {minuteurs[k], Rien, Arme}
    BY <1>2 DEF IInv, TypeOK
  <2>2. LectureJuste(minuteurs'[k])
    BY <1>7, <2>1 DEF IInv, LecturesJustes
  <2> QED
    BY <1>4, <2>2 DEF LectureJuste
<1>10. LecturesJustes'
  BY <1>8, <1>9 DEF LecturesJustes
<1> QED
  BY <1>4, <1>6, <1>10 DEF IInv

\* A turn that is open stays a row, and what is timed or answered is a row.
LEMMA ToursOuvertsPreserve ==
    ASSUME IInv, ToursOuverts, Next
    PROVE  ToursOuverts'
<1>1. TypeOK
  BY DEF IInv
<1>2. CASE \E u \in Joueurs, t \in Numeros : LireReponse(u, t)
  BY <1>1, <1>2 DEF LireReponse, PeutLire, ToursOuverts, TypeOK, lignes
<1>3. CASE \E u \in Joueurs, t \in Numeros, r \in {"juste", "fausse"} :
             RepondreEtContinuer(u, t, r)
  <2> PICK u \in Joueurs, t \in Numeros, r \in {"juste", "fausse"} :
        RepondreEtContinuer(u, t, r)
    BY <1>3
  <2> DEFINE l == requetes[t][u]
  <2>1. /\ Enchainer(t, l, ScoreApres(l, u, r))
        /\ requetes' = [requetes EXCEPT ![t][u] = Rien]
        /\ minuteurs' = [minuteurs EXCEPT ![l.tour + 1] = Arme]
        /\ l \in Lectures
    BY <1>1 DEF RepondreEtContinuer, EcrireReponse, TypeOK
  <2>2. tours' = [tours EXCEPT ![t] = "termine", ![l.tour + 1] = "en_cours"]
    BY <2>1 DEF Enchainer
  <2> HIDE DEF l
  <2> QED
    BY <1>1, <2>1, <2>2 DEF ToursOuverts, TypeOK
<1>4. CASE \E u \in Joueurs, t \in Numeros, r \in {"juste", "fausse"} :
             RepondreEtClore(u, t, r) \/ RepondreEchoue(u, t, r)
  BY <1>1, <1>4
     DEF RepondreEtClore, RepondreEchoue, EcrireReponse, ToursOuverts, TypeOK, lignes
<1>5. CASE \E t \in Numeros : MinuteurEnchaine(t)
  <2> PICK t \in Numeros : MinuteurEnchaine(t)
    BY <1>5
  <2> DEFINE l == minuteurs[t]
  <2>1. /\ Enchainer(t, l, l.score)
        /\ minuteurs' = [minuteurs EXCEPT ![t] = Rien, ![l.tour + 1] = Arme]
        /\ UNCHANGED requetes
        /\ l \in Lectures
    BY <1>1 DEF MinuteurEnchaine, TypeOK
  <2>2. tours' = [tours EXCEPT ![t] = "termine", ![l.tour + 1] = "en_cours"]
    BY <2>1 DEF Enchainer
  <2> HIDE DEF l
  <2> QED
    BY <1>1, <2>1, <2>2 DEF ToursOuverts, TypeOK
<1>6. CASE \E t \in Numeros : MinuteurLit(t) \/ MinuteurEchoue(t)
  BY <1>1, <1>6, MarquesHypothese
     DEF MinuteurLit, MinuteurEchoue, ToursOuverts, TypeOK, lignes
<1>7. CASE Redemarrer
  BY <1>7 DEF Redemarrer, ToursOuverts, lignes
<1> QED
  BY <1>2, <1>3, <1>4, <1>5, <1>6, <1>7 DEF Next, Minuteur

LEMMA NextIInv ==
    ASSUME IInv, ToursOuverts, Next
    PROVE  IInv'
<1>1. ASSUME NEW u \in Joueurs, NEW t \in Numeros, LireReponse(u, t) PROVE IInv'
  BY <1>1, LireReponseIInv
<1>2. ASSUME NEW u \in Joueurs, NEW t \in Numeros, NEW r \in {"juste", "fausse"},
             RepondreEtContinuer(u, t, r)
      PROVE  IInv'
  <2>1. tours[t] # "absent"
    BY <1>2 DEF RepondreEtContinuer, ToursOuverts
  <2> QED
    BY <1>2, <2>1, RepondreEtContinuerIInv
<1>3. ASSUME NEW u \in Joueurs, NEW t \in Numeros, NEW r \in {"juste", "fausse"},
             RepondreEtClore(u, t, r)
      PROVE  IInv'
  <2>1. tours[t] # "absent"
    BY <1>3 DEF RepondreEtClore, ToursOuverts
  <2> QED
    BY <1>3, <2>1, RepondreEtCloreIInv
<1>4. ASSUME NEW u \in Joueurs, NEW t \in Numeros, NEW r \in {"juste", "fausse"},
             RepondreEchoue(u, t, r)
      PROVE  IInv'
  BY <1>4, RepondreEchoueIInv
<1>5. ASSUME NEW t \in Numeros, MinuteurEnchaine(t) PROVE IInv'
  <2>1. tours[t] # "absent"
    BY <1>5 DEF MinuteurEnchaine, ToursOuverts
  <2> QED
    BY <1>5, <2>1, MinuteurEnchaineIInv
<1>6. ASSUME NEW t \in Numeros, MinuteurLit(t) \/ MinuteurEchoue(t) PROVE IInv'
  BY <1>6, MinuteurLitIInv, MinuteurEchoueIInv
<1> QED
  BY <1>1, <1>2, <1>3, <1>4, <1>5, <1>6, RedemarrerIInv DEF Next, Minuteur

\* The rows, the readings and the turns stay as they are when nothing happens.
LEMMA StutterIInv ==
    ASSUME IInv, ToursOuverts, UNCHANGED vars
    PROVE  IInv' /\ ToursOuverts'
<1>1. UNCHANGED <<typeJeu, statut, vainqueur, score, tourActuel, tours, reponses,
                  dernier, requetes, minuteurs, redemarrages>>
  BY DEF vars, match, lignes
<1>2. TypeOK' /\ ToursSansTrou' /\ ToursOuverts'
  BY <1>1 DEF IInv, TypeOK, ToursSansTrou, ToursOuverts
<1>3. LecturesJustes'
  BY <1>1 DEF IInv, LecturesJustes, LectureJuste
<1> QED
  BY <1>2, <1>3 DEF IInv

LEMMA IInvInvariante == Spec => [](IInv /\ ToursOuverts)
<1>1. Init => ToursOuverts
  BY DEF Init, ToursOuverts
<1>2. IInv /\ ToursOuverts /\ [Next]_vars => IInv' /\ ToursOuverts'
  BY NextIInv, ToursOuvertsPreserve, StutterIInv
<1> QED
  BY <1>1, <1>2, InitIInv, PTL DEF Spec

\* The rows of a match and the readings of its handlers always have their
\* types; in particular no score in the database reaches the target.
THEOREM TypesDesToursCorrects == Spec => []TypeOK
<1>1. IInv => TypeOK
  BY DEF IInv
<1> QED
  BY <1>1, IInvInvariante, PTL

\* The turns of a match are numbered without a hole and never twice, whatever
\* stale numbers the handlers and the threads have read.
THEOREM ToursSansTrouInvariante == Spec => []ToursSansTrou
<1>1. IInv => ToursSansTrou
  BY DEF IInv
<1> QED
  BY <1>1, IInvInvariante, PTL

-----------------------------------------------------------------------------
\* Only an answer closes a match, and it closes it only once.
LEMMA EtapesDeStatut ==
    ASSUME Next
    PROVE  \/ UNCHANGED <<statut, vainqueur>>
           \/ /\ statut = "en_cours"
              /\ \E u \in Joueurs, t \in Numeros, r \in {"juste", "fausse"} :
                    RepondreEtClore(u, t, r)
<1>1. ASSUME NEW i, NEW d, Cloturer(i, d), statut # "en_cours"
      PROVE  UNCHANGED <<statut, vainqueur>>
  BY <1>1 DEF Cloturer
<1>2. ASSUME NEW u \in Joueurs, NEW t \in Numeros, NEW r \in {"juste", "fausse"},
             RepondreEtClore(u, t, r), statut # "en_cours"
      PROVE  UNCHANGED <<statut, vainqueur>>
  BY <1>1, <1>2 DEF RepondreEtClore
<1>3. ASSUME NEW u \in Joueurs, NEW t \in Numeros, LireReponse(u, t)
      PROVE  UNCHANGED <<statut, vainqueur>>
  BY <1>3 DEF LireReponse, match
<1>4. ASSUME NEW u \in Joueurs, NEW t \in Numeros, NEW r \in {"juste", "fausse"},
             RepondreEtContinuer(u, t, r) \/ RepondreEchoue(u, t, r)
      PROVE  UNCHANGED <<statut, vainqueur>>
  BY <1>4 DEF RepondreEtContinuer, RepondreEchoue, Enchainer, match
<1>5. ASSUME NEW t \in Numeros, Minuteur(t)
      PROVE  UNCHANGED <<statut, vainqueur>>
  BY <1>5 DEF Minuteur, MinuteurLit, MinuteurEnchaine, MinuteurEchoue, Enchainer, match
<1>6. CASE Redemarrer
  BY <1>6 DEF Redemarrer, match
<1> QED
  BY <1>2, <1>3, <1>4, <1>5, <1>6 DEF Next

\* A match is settled once: its status and its winner stay when it is closed.
THEOREM ClotureUniqueTheoreme == Spec => ClotureUnique
<1>1. ASSUME [Next]_vars, statut # "en_cours"
      PROVE  statut' = statut /\ vainqueur' = vainqueur
  BY <1>1, EtapesDeStatut DEF vars, match
<1> QED
  BY <1>1, PTL DEF Spec, ClotureUnique

\* What closes a match by a right answer is the target, reached by its author:
\* in the database he has the most points he can have there.
LEMMA JusteAuMoinsEgal ==
    ASSUME IInv, NEW u \in Joueurs, NEW t \in Numeros,
           RepondreEtClore(u, t, "juste"), statut = "en_cours"
    PROVE  vainqueur' # Adversaire(u)
<1> DEFINE l == requetes[t][u]
<1>1. l \in Lectures /\ LectureJuste(l)
  BY DEF IInv, TypeOK, LecturesJustes, RepondreEtClore
<1>2. ~Instantanee("juste")
  BY DEF Instantanee
<1>3. Fin(ScoreApres(l, u, "juste")) /\ Cloturer(FALSE, dernier'[tourActuel])
  BY <1>2 DEF RepondreEtClore, Instantanee
<1>4. PICK v \in Joueurs : ScoreApres(l, u, "juste")[v] >= ScoreCible
  BY <1>3 DEF Fin
<1>5. \A w \in Joueurs : l.score[w] \in 0..(ScoreCible - 1) /\ score[w] \in 0..(ScoreCible - 1)
  BY <1>1 DEF Lectures, Scores, IInv, TypeOK
<1>6. v = u /\ l.score[u] + 1 >= ScoreCible
  <2>1. l.score \in [Joueurs -> 0..(ScoreCible - 1)]
    BY <1>1 DEF Lectures, Scores
  <2>2. ScoreApres(l, u, "juste") = [l.score EXCEPT ![u] = @ + 1]
    BY DEF ScoreApres
  <2>3. v # u => ScoreApres(l, u, "juste")[v] = l.score[v]
    BY <2>1, <2>2
  <2>4. v = u
    BY <1>4, <1>5, <2>3, ScoreCibleHypothese
  <2>5. ScoreApres(l, u, "juste")[u] = l.score[u] + 1
    BY <2>1, <2>2
  <2> QED
    BY <1>4, <2>4, <2>5
<1>7. l.score[u] <= score[u]
  BY <1>1 DEF LectureJuste
<1>8. \A w \in Joueurs : score[w] <= score[u]
  BY <1>5, <1>6, <1>7, ScoreCibleHypothese
<1>9. vainqueur' = VainqueurAuScore(score)
  BY <1>3 DEF Cloturer
<1>10. score["hote"] \in Nat /\ score["invite"] \in Nat
  BY <1>5, ScoreCibleHypothese
<1>11. CASE u = "hote"
  BY <1>8, <1>9, <1>10, <1>11, Adversaires DEF VainqueurAuScore
<1>12. CASE u = "invite"
  BY <1>8, <1>9, <1>10, <1>12, Adversaires DEF VainqueurAuScore
<1> QED
  BY <1>11, <1>12

\* A right answer never makes its author lose the match.
THEOREM JusteNePerdJamaisTheoreme == Spec => JusteNePerdJamais
<1> DEFINE Pas == \A t \in Numeros, u \in Joueurs :
                     /\ statut = "en_cours" /\ statut' # "en_cours"
                     /\ reponses[t][u] = "aucune" /\ reponses'[t][u] = "juste"
                     => vainqueur' # Adversaire(u)
<1>1. IInv /\ [Next]_vars => Pas
  <2> SUFFICES ASSUME IInv, [Next]_vars, NEW t \in Numeros, NEW u \in Joueurs,
                      statut = "en_cours", statut' # "en_cours",
                      reponses[t][u] = "aucune", reponses'[t][u] = "juste"
               PROVE  vainqueur' # Adversaire(u)
    OBVIOUS
  <2>1. Next
    BY DEF vars, match
  <2>2. PICK v \in Joueurs, k \in Numeros, r \in {"juste", "fausse"} :
           RepondreEtClore(v, k, r)
    BY <2>1, EtapesDeStatut
  <2>3. reponses' = [reponses EXCEPT ![k][v] = r]
    BY <2>2 DEF RepondreEtClore, EcrireReponse
  <2>4. v = u /\ k = t /\ r = "juste"
    BY <2>3 DEF IInv, TypeOK
  <2> QED
    BY <2>2, <2>4, JusteAuMoinsEgal
<1> QED
  BY <1>1, IInvInvariante, PTL DEF Spec, JusteNePerdJamais

-----------------------------------------------------------------------------
(* The scores are the right answers *)

ToursJustes(u) == {t \in Numeros : reponses[t][u] = "juste"}

\* A right answer to a turn not answered yet is one more, and nobody else has
\* more or less for it.
LEMMA UneJusteDePlus ==
    ASSUME TypeOK, NEW u \in Joueurs, NEW t \in Numeros, NEW r \in {"juste", "fausse"},
           reponses[t][u] = "aucune",
           reponses' = [reponses EXCEPT ![t][u] = r],
           NEW v \in Joueurs
    PROVE  Justes(v)' = IF v = u /\ r = "juste" THEN Justes(v) + 1 ELSE Justes(v)
<1>0. \A n \in Numeros :
        reponses'[n][v] = IF n = t /\ v = u THEN r ELSE reponses[n][v]
  BY DEF TypeOK
<1>1. IsFiniteSet(ToursJustes(v))
  <2>1. IsFiniteSet(Numeros)
    <3>1. 1 \in Int /\ NbQuestions \in Int
      BY NbQuestionsHypothese
    <3> QED
      BY <3>1, FS_Interval DEF Numeros
  <2>2. ToursJustes(v) \in SUBSET Numeros
    BY DEF ToursJustes
  <2> QED
    BY <2>1, <2>2, FS_Subset
<1>2. Justes(v) = Cardinality(ToursJustes(v)) /\ Justes(v)' = Cardinality(ToursJustes(v)')
  BY DEF Justes, ToursJustes
<1>3. CASE v = u /\ r = "juste"
  <2>1. ToursJustes(v)' = ToursJustes(v) \cup {t} /\ t \notin ToursJustes(v)
    <3>1. t \notin ToursJustes(v)
      BY <1>3 DEF ToursJustes
    <3>2. ASSUME NEW n \in Numeros
          PROVE  reponses'[n][v] = "juste" <=> reponses[n][v] = "juste" \/ n = t
      BY <1>0, <1>3
    <3>3. ToursJustes(v)' = ToursJustes(v) \cup {t}
      BY <3>2, Zenon DEF ToursJustes
    <3> QED
      BY <3>1, <3>3
  <2> QED
    <3>1. Cardinality(ToursJustes(v) \cup {t}) = Cardinality(ToursJustes(v)) + 1
      BY <1>1, <2>1, FS_AddElement
    <3> QED
      BY <1>2, <1>3, <2>1, <3>1, Zenon
<1>4. CASE ~(v = u /\ r = "juste")
  <2>1. ToursJustes(v)' = ToursJustes(v)
    <3>1. ASSUME NEW n \in Numeros
          PROVE  reponses'[n][v] = "juste" <=> reponses[n][v] = "juste"
      BY <1>0, <1>4
    <3> QED
      BY <3>1, Zenon DEF ToursJustes
  <2> QED
    BY <1>2, <1>4, <2>1
<1> QED
  BY <1>3, <1>4

\* A point is saved together with the answer that earns it.
LEMMA PointEnregistre ==
    ASSUME IInv, NEW u \in Joueurs, NEW t \in Numeros, NEW r \in {"juste", "fausse"},
           RepondreEtContinuer(u, t, r), ScoreExact
    PROVE  ScoreExact'
<1> DEFINE l == requetes[t][u]
<1>1. l \in Lectures /\ LectureJuste(l)
  BY DEF IInv, TypeOK, LecturesJustes, RepondreEtContinuer
<1>2. /\ reponses[t][u] = "aucune"
      /\ reponses' = [reponses EXCEPT ![t][u] = r]
      /\ PeutOuvrir(l)
      /\ score' = ScoreApres(l, u, r)
      /\ statut' = statut
  BY DEF RepondreEtContinuer, EcrireReponse, Enchainer
<1>3. l.score = score
  BY <1>1, <1>2, OuvrirFrais
<1>4. score \in [Joueurs -> Nat]
  BY ScoreCibleHypothese DEF IInv, TypeOK, Scores
<1>5. \A v \in Joueurs :
         score'[v] = IF v = u /\ r = "juste" THEN score[v] + 1 ELSE score[v]
  BY <1>2, <1>3, <1>4 DEF ScoreApres
<1>6. \A v \in Joueurs :
         Justes(v)' = IF v = u /\ r = "juste" THEN Justes(v) + 1 ELSE Justes(v)
  BY <1>2, UneJusteDePlus DEF IInv
<1> QED
  BY <1>2, <1>5, <1>6 DEF ScoreExact

\* Every other step leaves answers and scores alone, or closes the match.
LEMMA SansPoint ==
    ASSUME IInv, ScoreExact, UNCHANGED <<statut, score, reponses>>
    PROVE  ScoreExact'
<1>1. \A v \in Joueurs : Justes(v)' = Justes(v)
  BY DEF Justes
<1> QED
  BY <1>1 DEF ScoreExact

LEMMA ClotureFerme ==
    ASSUME TypeOK, NEW u, NEW t, NEW r, RepondreEtClore(u, t, r)
    PROVE  statut' # "en_cours"
<1>1. \A i, d : Cloturer(i, d) => statut' # "en_cours"
  BY DEF Cloturer
<1> QED
  BY <1>1 DEF RepondreEtClore

LEMMA MinuteurSansPoint ==
    ASSUME IInv, NEW t \in Numeros, MinuteurEnchaine(t)
    PROVE  UNCHANGED <<statut, score, reponses>>
<1> DEFINE l == minuteurs[t]
<1>1. l \in Lectures /\ LectureJuste(l)
  BY DEF IInv, TypeOK, LecturesJustes, MinuteurEnchaine
<1>2. PeutOuvrir(l) /\ score' = l.score /\ UNCHANGED <<statut, reponses>>
  BY DEF MinuteurEnchaine, Enchainer
<1> QED
  BY <1>1, <1>2, OuvrirFrais

\* No point is lost and none is counted twice, although every score is written
\* from a reading that may be stale.
THEOREM ScoreExactTheoreme == Spec => []ScoreExact
<1>1. Init => ScoreExact
  <2> SUFFICES ASSUME Init PROVE ScoreExact
    OBVIOUS
  <2>1. \A v \in Joueurs : ToursJustes(v) = {}
    BY DEF Init, ToursJustes
  <2>2. \A v \in Joueurs : Justes(v) = Cardinality(ToursJustes(v))
    BY DEF Justes, ToursJustes
  <2>3. \A v \in Joueurs : Justes(v) = 0
    BY <2>1, <2>2, FS_EmptySet
  <2>4. \A v \in Joueurs : score[v] = 0
    BY DEF Init
  <2> QED
    BY <2>3, <2>4 DEF ScoreExact
<1>2. IInv /\ ScoreExact /\ [Next]_vars => ScoreExact'
  <2> SUFFICES ASSUME IInv, ScoreExact, [Next]_vars PROVE ScoreExact'
    OBVIOUS
  <2>1. CASE UNCHANGED vars
    BY <2>1, SansPoint DEF vars, match, lignes
  <2>2. ASSUME NEW u \in Joueurs, NEW t \in Numeros,
               LireReponse(u, t) \/ \E r \in {"juste", "fausse"} : RepondreEchoue(u, t, r)
        PROVE  ScoreExact'
    BY <2>2, SansPoint DEF LireReponse, RepondreEchoue, match, lignes
  <2>3. ASSUME NEW u \in Joueurs, NEW t \in Numeros, NEW r \in {"juste", "fausse"},
               RepondreEtClore(u, t, r)
        PROVE  ScoreExact'
    BY <2>3, ClotureFerme DEF ScoreExact, IInv
  <2>4. ASSUME NEW u \in Joueurs, NEW t \in Numeros, NEW r \in {"juste", "fausse"},
               RepondreEtContinuer(u, t, r)
        PROVE  ScoreExact'
    BY <2>4, PointEnregistre
  <2>5. ASSUME NEW t \in Numeros, MinuteurEnchaine(t) PROVE ScoreExact'
    BY <2>5, MinuteurSansPoint, SansPoint
  <2>6. ASSUME NEW t \in Numeros, MinuteurLit(t) \/ MinuteurEchoue(t) PROVE ScoreExact'
    BY <2>6, SansPoint DEF MinuteurLit, MinuteurEchoue, match, lignes
  <2>7. CASE Redemarrer
    BY <2>7, SansPoint DEF Redemarrer, match, lignes
  <2> QED
    BY <2>1, <2>2, <2>3, <2>4, <2>5, <2>6, <2>7 DEF Next, Minuteur
<1> QED
  BY <1>1, <1>2, IInvInvariante, PTL DEF Spec
=============================================================================
