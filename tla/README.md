# Quizz Madagascar: a TLA+ model of the games, of their money and of the accounts

The repository is the Django backend of a quiz platform: players open rooms,
invite each other, stake money of a demo wallet, play a duel in real time, and
the winner takes the pot less a commission; spectators bet on matches. This
directory models the parts of it where several players, devices, threads, tasks
and sweeps act on the same rows or the same cache, checks them with TLC and
proves the most important properties with TLAPS.

## 1. Inventory

| Component | State | Operations | Hard behaviour |
|---|---|---|---|
| Global quiz, rooms and stakes (`apps/quiz_global`) | `QuizGlobalGame`, `QuizGlobalPlayer`, `QuizGlobalActivePlayer`, `QuizGlobalInvitation` | create, invite, withdraw, refuse, join, cancel, rematch, expiry sweep, abandon sweep | races between mutations and sweeps, a join in two transactions, a sweep with a stale list, partial refunds |
| Global quiz, phases | `QuizGlobalGameQuestion`, `QuizGlobalPlayerAnswer`, scores, deadlines | choose a theme, answer, tick | duplicate, early and late ticks, answers at the deadline, tie-breaks |
| Global quiz, timers (`consumers.py`, `tasks.py`) | Celery tasks, `asyncio` tasks | schedule, ring, `avancerPhaseQuizGlobal` | a tick that rings early and is not scheduled again |
| Wallet services (`apps/wallet/services.py`) | three balances per player, the platform's capital, the ledger with its idempotency keys | block, release, consume, pay, settle a duel | a key that swallows another operation, rounding |
| Wallet of one user (`apps/wallet`) | PIN, two locks, balance, ledger | PIN, unlock, deposit, withdraw, webhook, recharge | checks made before the row is locked, repeated keys, locks set from an old reading |
| Matches (`apps/matches`) | `Match`, turns, timers in threads | create, join, answer, end a turn, close, annul | no lock while a match is played, readings older than the write, threads, a ledger shared with the global quiz |
| Rabbit race | a `Match` of another kind | invite, accept, refuse, launch, annul | an invitation and a launch written from an unlocked reading, refunds that nobody had reserved |
| Rock-paper-scissors, penalties | entries of the cache | challenge, accept, move or shoot, rematch, delete | whole copies read, changed and written back without a lock |
| Betting (`apps/betting`) | `Pari` | place, resolve (a Celery task) | bets checked on old readings, a task sent before its transaction commits, one bet that fails among several |
| Accounts (`apps/auth`) | user, refresh tokens, one-time codes | register, log in and out, refresh, ask for a code, verify, reset | no resolver has a transaction: a call may stop between any two saves |
| Social (`apps/social`) | likes, friend requests | like, request, answer | check, then create |
| Discussions, themes, users, moderation | rows | one row at a time | none to speak of |
| Shared services (`common`) | rate limits, idempotency marks in Redis | check, record | no code calls them |

How they interact: a GraphQL mutation or a WebSocket message calls a service of
its application; the service locks the row of its game or match
(`select_for_update`) where it does, and calls the wallet services inside the
same `transaction.atomic`. `quiz_global` schedules Celery ticks, `matches` starts
a thread for every turn and sends `resoudre_paris_match` when a match is won;
Celery beat runs the sweep of the waiting rooms every minute. Games, matches and
bets meet in the wallet: one `solde_bloque` per player for all of them, and one
ledger whose keys name the operation, the row and the player. The PIN, deposits
and recharges touch only `solde`; rock-paper-scissors, penalties and accounts
touch no wallet (registration credits one, once).

What makes each part right, in short: a player is in at most one quiz game and
never stuck in one that is over; what is blocked of a wallet is the stakes of
its owner's games and bets; a stake leaves its game once; a right answer counts
once; a bet is paid only if it is on the winner, and a task that has read the winner
pays each of them; a phase for which a connection has armed a timer ends; a token is
revoked before its successor is issued, and a code used up before its effect; a game
in the cache is coherent whatever copies overwrite each other. (Two exchanges of one
token at the same time both succeed, each with a successor of its own: nothing in
`apps/auth` prevents it, and no property says that a token is exchanged once.)

## 2. Modules

| Module | What it models |
|---|---|
| `Portefeuille` | The wallet services used by the games, as functions from one state of the bank to the next; `Peut...` is the condition under which a service does not raise. |
| `QuizGlobal` | Rooms, invitations, seats, active players and stakes of all the games. One action per mutation or sweep. |
| `Sequestre` | The abstract promise: one escrow per duel, filled and emptied once. |
| `QuizPhases` | One started game: themes, answers, scores, deadlines, tie-breaks. |
| `QuizMinuteurs` | `QuizPhases` with the timers that send the ticks. |
| `MatchTours` | One match that is played: turns, answers, the threads that end a turn, the closing. Each handler is a reading and a later write. |
| `Matches` | Creation, join, annulment, closing and settlement of matches; invitations and launch of rabbit races. |
| `Paris` | Extends `Matches` with bets and the task that resolves them. |
| `Coffre` | One wallet without its games: PIN, locks, deposits, withdrawals, webhook, recharge. |
| `Comptes` | One account: tokens, codes, and every resolver of `AuthMutation` save by save. |
| `Magasin` | The cache of `RpsStateStore`: entries that are read as copies and written whole. |
| `Rps`, `Penalty` | The two games that live in it. |
| `MCQuizGlobal`, `MCMatches`, `MCParis` | Small instances for TLC; `MCQuizGlobal` also has the sum of all money in the global quiz. |
| `MCParties` | The global quiz, the matches, or both in one run (`Applications`). A behaviour is of one of them (`application`), with wallets of its own (`banque` or `caisse`). |
| `MCServices` | `Rps`, `Penalty`, `Coffre` and `Comptes` in one run. They share no state, so a behaviour is of one of them (`scene`). |
| `MCPlateforme` | `Matches` and `QuizGlobal` composed over the same wallets and one ledger. |
| `Sommes_proofs` | Lemmas: sums over finite sets. |
| `Portefeuille_proofs` | Lemmas: what each wallet service does to a balance, to the keys and to the sum of all balances. |
| `QuizGlobal_proofs` | Types, seats, active players, keys, stakes, invitations. |
| `QuizGlobalContrat_proofs` | The refinement of `Sequestre`, the losers, the sum of all money. |
| `QuizPhases_proofs` | Phases, scores, tie-breaks and winner, with the timers of `QuizMinuteurs`. |
| `MatchTours_proofs` | Turns, scores and closing of a match. |
| `Matches_proofs` | Types, endings, keys, stakes and money of matches; bets. |
| `Services_proofs` | The two games of the cache, the wallet of one user, one account. |

`QuizGlobal` and `Matches` extend `Portefeuille`. `QuizGlobal` does not say how a
question ends (any outcome is possible) and `QuizPhases` does not say what
becomes of the stakes: they share the statuses of a game and meet in `FinishGame`
and `AnnulerGame`. In the same way a match of `Matches` that is in progress may be
closed at any time with any winner, and `MatchTours` says when it is; they meet in
`_cloturer`.

State and code, `QuizGlobal`: `statut` is `QuizGlobalGame.status`, with `ABSENTE` for
a primary key not used yet; `siegeA`, `siegeB` the rows of `QuizGlobalPlayer`;
`actif` the rows of `QuizGlobalActivePlayer` (one per player, `OneToOneField`);
`invite` the legacy field `invited_player`, `invitation` the rows of
`QuizGlobalInvitation`; `mise` and `proposee` the two stakes; `vieux` and `perimee`
whether the age of a room, or the deadline of a phase, lies beyond the cutoff of
a sweep; `balayage` the list `stuck_ids` while the abandon sweep runs; `banque` the
wallets, the capital and the keys. Amounts are in cents, as the code quantizes
them.

Atomicity. A mutation of the global quiz holds the lock of its game from its
first read to its commit, so it is one action. `join_game` first expires an old
room in a transaction of its own, which is `ExpirerSalon`; then it joins without
looking at the age again, which is `JoinGame`. `abandonner_parties_bloquees` reads
its list without locks (`ListerBloquees`) and abandons the games one lock after
the other in one transaction (`AbandonnerBloquees`); other steps come in between.
Under READ COMMITTED each lock reads the newest row, and the updates become
visible together.

A match that is played is another matter. `soumettre_reponse` and the thread
`_expire_check` read the turn and the match without a lock and write in a
transaction later, so each is a reading (`LireReponse`, `MinuteurLit`) that is
remembered in `requetes` or `minuteurs`, and a write (`RepondreEtContinuer`,
`RepondreEtClore`, `MinuteurEnchaine`) or a rollback (`RepondreEchoue`,
`MinuteurEchoue`). The write is one action: its transaction ends with the row of
the match, which a second one waits for, and the unique constraints are tested
against what is committed. `_cloturer` locks the row of the match and reads it
again, so `Cloturer` looks at `score` and `statut` and not at the reading. The
thread of a turn whose transaction rolled back finds no row and is left out.

`Matches`: `caisse` is the bank here, `matchs` holds the rows; `proposee` 0 stands for
`mise_proposee_invite` NULL, and `enVol` what a call of `inviter` or `lancer` has checked and is going to write, since
neither locks the row. All the others do, and are one action. Whether a match is
a race is a constant (`Courses`), as its `type_jeu` never changes.

`Paris`: a bet is a reading of the match (`LirePari`) and a later write, and the task
`resoudre_paris` a reading of the match, a list, and then one transaction per bet;
`tache` holds how far it is. It may start before the transaction that sent it has
committed, and then finds no winner. `tiers` is `premier_tiers_atteint`, a function
of the scores that only grows. The client of a bet gives no idempotency key, so
the key is made of user, match and amount.

`Coffre`: the services of the PIN hold the row from their reading to their commit.
Whether the wallet is unlocked, and whether a key is in the ledger, is read
before: `appelsC` holds the calls between the two. `bloqueJusqua` and `ouvertJusqua`
are the dates `locked_until` and `unlocked_until`, told apart as none, future and
past. `est_deverrouille` is modelled as it is written: a wallet that was locked and whose
`locked_until` has passed counts as unlocked before any code is given. A webhook credits the amount that
goes with its reference (`Verse`).

`Comptes`: one step for every save, and `Mourir` at any point between two of them.
`Rps` and `Penalty`: every call is a step that reads a copy and one that writes it
(`appels`, `tirs`).

Each operator whose comment begins with *Faulty* is a deliberately wrong variant
of the definition below it. It is not part of the model: it documents which bug
each property would reveal.

## 3. Runs

| Run | Instance | What it shows |
|---|---|---|
| `parties` (`MCParties.cfg`) | 3 players; 2 quiz games, stakes 0 and 10, wallets of 10, both sweeps; or a match and a race, stakes 0, 5, 10, wallets of 10; symmetry of the players | The invariants of the rows and of the money in every interleaving of mutations and sweeps; stakes of matches stay blocked until their match is over and leave it once; no match ends twice. |
| `contrat` (`QuizGlobalContrat.cfg`) | the quiz alone, 2 players, 2 games, stakes 0, 5, 10, wallets of 15, as deployed (no abandon sweep) | `QuizGlobal` implements `Sequestre`, what is blocked is what is staked, and a waiting room closes or is joined. |
| `minuteurs` (`QuizMinuteurs.cfg`) | 2 questions, stock of 4, phases of 2 units, ticks up to 1 late, 1 timer of a connection, clients that may call | Scores, answers, tie-breaks and winner are right with every source of ticks; a phase with a timer of a connection ends. |
| `minuteurs_seuls` (`QuizMinuteursSeuls.cfg`) | 1 question, stock of 2 | Violation: the server alone does not end a question. |
| `tours` (`MatchTours.cfg`) | a classic and an intrus match, 3 questions, 2 points to win, 1 restart | Turns, scores and the closing are right although nothing is locked; no turn blocks the match. |
| `paris` (`Paris.cfg`) | 3 players, 2 matches, 2 bets of one spectator who plays the second match | A bet is paid only if it is on the winner, and out of what was reserved for it; a task that has read the winner pays all bets on him and ends the others. |
| `services` (`MCServices.cfg`) | 2 calls in flight; 2 duels and 2 shoot-outs, one wallet with 2 PINs and 2 keys, one account with 2 tokens and 2 codes; symmetry | Coherent games in the cache, a balance that is its ledger, the locks of the PIN, rotation of tokens, codes before effects. |
| `grand_livre` (`Plateforme.cfg`) | 2 players; a match and a quiz game with one primary key | Violation: the reservation of one swallows that of the other. |
| `paris_regles` (`ParisRegles.cfg`) | 2 matches, 2 bets of a spectator | Violation: one behaviour breaks both promises to bettors, the gain of a winning bet and the refund of a bet on a draw. |
| `lapin_refus` (`MatchesRefus.cfg`) | 2 players, a match and a race | Violation: a refusal releases a stake of another match. |
| `tours_intrus` (`MatchToursIntrus.cfg`) | an intrus match | Violation: who answers wrong may win. |
| `tours_cible` (`MatchToursCible.cfg`) | a classic match | Violation: who reaches the target may not win. |

Why the bounds are enough. A conflict over seats, reservations or invitations
involves at most two players of one game and one that wants to get in, and at
most two games per player; stakes of three values give equal, smaller and larger
proposals, stakes of zero and, with 15, a wallet that cannot pay for two games.
`parties` trades values of the stakes of the quiz for the third player and the sweep: with 0
and 10 there is one surplus, of a whole stake, and a wallet pays for one game; the
surpluses between two positive stakes are in `contrat`. A second game with its
own primary key also serves as the rematch of the first. The wallets of the matches
pay for both of them at a stake of 5, for one at 10, and cannot pay the surplus
from 5 to 10 while 5 lies in the other.

In `minuteurs` two normal questions give both players their turn to choose, and
the stock leaves two tie-breaks, so that one follows another. `RetardMax` bounds
how late a tick comes, `MinuteursMax` how many timers of connections run: both
only cut off repetitions, since a late tick finds the same state however late it
is. In `tours` three questions leave room for an answer to an old turn and a stale
number two turns behind; with two points to win both players can be one short.
Each player may have one call under way for each turn: a second one for the same
turn meets the unique answer and rolls back. `RedemarragesMax` bounds restarts; one
can come in any state, and a second would only repeat what the first does.

`Matches` has one call of `inviter` and one of `lancer` in flight for each match:
two of a kind write the same fields, and the last one counts. In `paris` the
second match exists so that the stake of its player lies in the same balance as
her bets; amounts of 1 and 5 make a winning bet whose commission is rounded to
nothing and one whose commission is not; a user has one bet in flight.

In `services`, `Joues` names the duel that is played while the other is there to be
the rematch of it, and `MancheMax` the last round a move is begun in: scores up to
2 need three. `EssaisMax` 2 and `RechargeLimite` 1 are the smallest limits that are
not reached at once. `JetonsMax` and `CodesMax` end a run: with two tokens there is
one exchange beside another call; that an exchanged token stays revoked is proved
for any number of tokens and calls (section 5).

Deadlock is not checked: primary keys, tokens and codes are finitely many, and a
system stops when all its games are over and no call is in flight.

Fairness. `Fairness` of `QuizGlobal` is that time passes and that the sweep of
waiting rooms runs, which `CELERY_BEAT_SCHEDULE` (config/settings/base.py) does
every 60 seconds. `MFairness` of `QuizMinuteurs` is that time passes and that timers
that are due are served, by a Celery worker or by the event loop. Nothing makes a
client connect or call `avancerPhaseQuizGlobal`: `Connecter` and `Rattraper` may
happen and need not. That is why the end of a phase is stated twice.
`QuestionSeTermine`, which asks it of the server alone, is violated (section 4).
`MinuteurPleinSuffit` says what does hold: `_arm_local_tick` waits for the whole
duration of the phase, so a timer of a connection that is not due before the
deadline ends the phase, although every Celery tick rings too early; `disconnect`
does not cancel it.
`Fairness` of `MatchTours` is that a thread that was started is run to its end;
`MatchAvance` excepts a restart of the process, which ends the daemon threads.
`PSpec` of `Paris` is that a worker that has taken a task goes on with it. Nothing
is assumed of players: they may never choose, answer or leave.

## 4. What the violations show

* `grand_livre`: `apps/matches` and `apps/quiz_global` both write the key
  `reserve:{pk}:{user}`, and their primary keys overlap. Whoever stakes in a match
  and in a quiz game with the same number has one of the stakes blocked, and
  plays for both. The keys of a settlement name the application
  (`match-{pk}`, `quiz-global-{pk}`); `CleDe` does not, so `MCPlateforme` stops short
  of settlements.
* `minuteurs_seuls`: `_schedule_tick` truncates the delay with `int()`, so the Celery
  task rings up to a second before the deadline; `tick` finds the deadline in the
  future and returns, and nothing schedules another one. Without a timer of a
  connection or a call of a client, the question never ends, although
  `BonnePratique.md:106` makes the server the only source of truth for the time.
* `paris_regles`: two defects, shown in one behaviour. (1) `_cloturer` sends
  `resoudre_paris_match` inside the transaction that writes the winner, so a worker
  may read the match without one; `resoudre_paris` then takes the branch of the
  losers for every bet: a winning bet is marked lost and its stake consumed, against
  its docstring, which promises the net gain (`GagnantJamaisPerdu`). (2) For a draw
  `_cloturer` returns before it sends the task, and annulment does not send it
  either: the branch that gives the stakes of bets back is never reached
  (`PariAnnuleRendu`). The property is the disjunction of the two promises, so that
  only a behaviour that breaks both refutes it. `ParisResolus` of `paris` speaks of
  the tasks that did read the winner.
* `lapin_refus`: `refuser_invitation_course_lapin` releases the stake of the race
  to the guest, reserved or not; `liberer_mise` takes it from what he has blocked
  elsewhere, and that match can no longer be paid from it. `MisesCouvertes` and
  `ConservationMatchs` of `parties` therefore except the players a race has given
  something back to (`RenduParCourse`).
* `tours_intrus`: `soumettre_reponse` does not test `tour.statut`: both players may
  answer the same turn, each answer opens another turn and each right one is a
  point. In an intrus match `_cloturer` then looks for the loser among the answers
  of the last turn, where the wrong answer is not: the host may answer wrong and
  win.
* `tours_cible`: `soumettre_reponse` closes the match before it saves the point that
  reaches the target, and `_cloturer` reads the row again: at one point short each,
  a right answer makes the match a draw that is refunded; with a target of one
  point every match is.

Met while modelling, and stated by no run:

* `abandonner_parties_bloquees` frees the players of a stuck game without
  `_rembourser_mises`: their stakes stay in `solde_bloque` for ever, although the
  docstring of `_rembourser_mises` promises the refund. It does not look at
  `phase_deadline` again either, so a game a late tick moved on is abandoned. Both
  are latent: the task exists, the beat schedule does not contain it. This is
  why `AucuneMiseOubliee` is checked and proved without the sweep.
* A second bet of the same user, match and amount meets the key of the first:
  nothing is reserved for it and it is resolved all the same.
  `MisesEtParisExacts` leaves such bets out (`TousReserves`).
* A bet or stake below 0.05 has a commission of 0.00, which `crediter_plateforme`
  refuses: the bet stays open and with it those listed after it, the game or
  match cannot be finished.
* `refresh_token` reads a token, revokes it and issues the next one without a lock:
  two exchanges of one token at the same time both pass. `JetonEchange` only says
  that a token is revoked before its successor is issued.
* A late writer of the cache brings back an older round of rock-paper-scissors or
  penalties, or a duel that was deleted. The model does so too; `DuelsCoherents` and
  `SeancesCoherentes` only say that what it brings back is a coherent game.
* A race of rabbits that was launched is never closed: it has no turns, and
  nothing else calls `_cloturer` or may annul it. Its stakes stay blocked.
* `_cloturer` and `refuser_invitation_course_lapin` use `select_for_update` together
  with `select_related` on nullable relations, which PostgreSQL refuses and SQLite,
  on which the tests run, ignores. The model takes these queries as accepted.
* `matches/mutations.py:122` reads `vainqueur_id` of a cached duel, which holds
  `winner_id`. It changes no state.

## 5. Proofs

All for any sets of players, games, calls and keys, any natural stakes and
balances, under the named assumptions of the modules (`Personne` is no player,
`Aucune` no game, amounts are natural numbers, limits positive). Theorems about
sums also assume that what is summed over is finite (players, matches, bets,
keys): a database has finitely many rows.

### The global quiz

1. `Structure` = `TypeOK`, `Sieges` and `UnePartieActive` is inductive
   (`QuizGlobal_proofs`): the table of active players can only be kept right by
   steps that know who sits where, and the types of the bank depend on both. It
   gives `TypesCorrects`, `UnePartieActiveInvariante`, `SiegesInvariants`.
   `InvitationsCoherentesInvariante` needs the types only: each handler that
   changes an invitation ends with `_realigner_invitation_principale` or closes
   them all.
2. `Engagements` adds `ClesFraiches`, `PropositionVide` and `Couvert`.
   `Solvabilite` alone is not inductive: a step moves the right amount only if its
   key is new, a key is new only if keys follow the status of their game, and a
   join gives back the right surplus only if the host has his whole stake blocked.
   The central lemma, `ExcedentPas`, says that no step but the abandon sweep
   changes the difference between what is blocked of a wallet and what its owner
   has at stake; the sweep can only let it grow. It gives
   `ClesFraichesInvariante` and `SolvabiliteInvariante`, with or without the sweep.
3. `ReglementUniqueTheoreme` follows from what a step does to statuses (`Progres`)
   and to keys (`NouvellesCles`).
4. `ExactInvariant` and `AucuneMiseOublieeInvariante` assume that the sweep is not
   scheduled: then the difference of 2 stays 0.
5. `QuizGlobalContrat_proofs`: every step but the end of a duel moves money within
   wallets only (`Conserve`), and the end of a duel moves one effective stake,
   since its keys are new and both stakes are covered. This gives
   `SeulLePerdantPaieTheoreme` and, summed over the players, `ConservationInvariante`.
   With 4 it gives the refinement `RespecteLeContratTheoreme`, `Spec => Contrat!Spec`
   without the sweep: every step of `QuizGlobal` is a step of the escrows or leaves
   them, since what a wallet has besides its blocked balance is what its owner has
   outside every escrow.
6. `PhasesIInv` (`QuizPhases_proofs`) adds to the types where a game stands
   (`PhaseJuste`): only the current question can be unfinished, and it is finished
   exactly outside of its reading and its answering; a tie-break is a question past
   the target (`BrisJuste`); a score is a count of right answers (`ScoreJuste`). The count
   in `_advance_after_result` is of the finished normal questions, and only with
   those facts it is the number of questions. It gives `PhasesTypes`,
   `ScoreToujoursExact`, `BrisToujoursAEgalite`, `VainqueurToujoursMerite` and
   `ReponsesDefinitives`. `MinuteursSansEffet` (`MSpec => Spec`) carries all of them
   over to a game with its timers, which is what the run checks.

### Matches and bets

7. `IInv` of `MatchTours_proofs` says what a handler or thread may still remember:
   an older turn, or the match as it is. It is what makes the unlocked writes
   safe: a score is only written together with the turn after the one that was
   read, the number of that turn is unique, so a stale writer always rolls back
   (`OuvrirFrais`). It gives `ToursSansTrouInvariante` and, with a count of the right
   answers, `ScoreExactTheoreme`. A reading never shows more points than there
   are, so who reaches the target has as many points as he can have in the
   database and the other no more: `JusteNePerdJamaisTheoreme`.
   `ClotureUniqueTheoreme` needs no invariant: only `Cloturer` writes the status.
8. `IInv` of `Matches_proofs` is `TypeOKMatchs`, who sits in a match that exists (`Place`),
   and that a key of the ledger tells how its match ended (`CleJuste`): a key of a
   payment means `termine`, one of a draw or an annulment `annule`, unless it is of
   a race. Keys never go and an ended match keeps its status (`FinTient`), so the
   one kind excludes the other for ever: `IssueUnique`, `FinDefinitive`. Races are
   the exception in both because a launch is written from an old reading.
   `SeulLePerdantPaieTheoreme` goes with it.
9. `MisesCouvertes` is a sum over matches and far from inductive. `MInv` adds two
   things to `IInv`. `Regles` says of each match what its keys say of its row
   (`Sain`): whose stake is reserved, and which key can only have come after which
   change. `Couvert` says that the blocked balance of a player is at least the sum
   of what his matches keep of it (`Retenue`): the effective stake, from the
   reservation to the refund or the closing, also of a guest of a race who was put
   out of it, which is where `Retenue` differs from the stake of the property.
   Without a race the balance is exactly the sum. Each action is shown to be a step
   of one match (`Etape`) that changes what this match keeps of a player by what it
   changes his blocked balance (`Suit`), and `CouvertTient` adds the other matches.
   It gives `MisesToujoursCouvertes`. `ConservationInvariante` follows: only the
   closing moves money between wallets, and the loser has the stake, by `Couvert`.
   Both except players whom a race gave something back (`RenduParCourse`), as the
   code does; that exception never ends once it holds (`SansRenduReste`).
10. `PIInv` (bets) says what the task knows: a winner only of a match that is over,
    and bets of its match. The match of a paid bet is over and keeps its row
    (`FinTient`), so `GainToujoursMerite` holds although the bet was written on an
    old reading and the task may have read the match too early. `ParisTypes` goes
    with it.
11. `PMInv` puts 9 and 10 together for `MisesEtParisToujoursExacts`: bets on the list
    of a task are open and not paid (`TacheSaine`), a task is sent once for a match,
    and a key of a bet in the ledger has a bet (`LectureVue`), so that with one bet
    for each match and amount its key is new. `Couvert` is then stated with the
    open bets added: a step of a match keeps it for any number added to the sum,
    and a step of a bet changes one term of the second sum by what it moves.

### Wallet of one user, accounts, games of the cache

12. `CoffreIInv` of `Services_proofs` is the types and `Blocage`, and types are where
    the work is: a withdrawal takes from the balance only what it finds under the
    lock, so `SoldeJamaisNegatif` holds although its key and the unlocking were
    looked up before. `BlocageInvariant` goes with it. `SoldeSelonLivre`: a step that
    changes the balance writes one entry of that amount under a key that had none.
13. `ComptesIInv` adds to the types what a call that waits may rely on
    (`AppelJuste`): the token it will issue comes from one that is revoked already,
    the effect it will have from a code that is used already. That is kept by
    `Progres`, the fact that no step brings a token or code back (`RienNeRevient`). It
    gives `EchangeUnique` and `CodeAvantEffet`, with calls dying anywhere.
14. `RpsIInv` and `PenaltyIInv` say that not only the entries of the cache are
    coherent but every copy in flight: a handler keeps the coherence of the copy it
    works on, and writes a whole copy, so it does not matter whose copy comes last.
    It gives `DuelsToujoursCoherents` and `SeancesToujoursCoherentes`.
    `ServicesTypes` puts the four machines on their common stage.

Sums. `MapThenSumSet` is a recursive function over subsets that takes the element
`CHOOSE` finds. `Sommes_proofs` shows that this function exists and is unique, that
it may take any element first, and what changing one term does to a sum
(`SommeChange`). Induction over a set takes an operator as a parameter; instead, a
non-empty set of subsets of a finite set has a minimal member
(`SousEnsembleMinimal`), applied to the subsets at which a claim fails.

Only model-checked: the liveness properties (`SalonNeTrainePas`, `MinuteurPleinSuffit`,
`MatchAvance`, `ParisResolus`), which with fairness are out of the prover's reach.
Every invariant and every action property of a passing run is a theorem. The
properties of the runs that expect a violation are refuted, so there is nothing to
prove.


## 6. Not modelled

Left out of what is modelled:

* texts and layout of broadcasts, the lobby and the other consumers, history
  lists and statistics: they read and send;
* which question is drawn and the order of its options;
* `transferer_demo` and `ajuster_plateforme` of the wallet, `common/ratelimit.py` and
  `common/idempotency.py`: nothing calls them;
* access and step-up tokens, which are signed and stored nowhere;
* `DEMO_STAKE_MIN` and the other minima: the sets of stakes and amounts of an
  instance stand for the permitted ones;
* the index of keys and the expiry of entries of `RpsStateStore`, and its fallback to
  the memory of the process when Redis does not answer (every process then has a
  cache of its own);
* what happens on the track of a race, which the clients send each other;
* that a webhook credits `Portefeuille...first()`: with one wallet it is the one.

Components with the status *not modelled*: social (a like toggles, a friend
request is looked up and then created, so that two at once leave two rows, and
nothing else depends on them), discussions, themes, users and moderation (one row
at a time, no protocol), queries, configuration, schema and errors
(declarations).

What could still be added: one machine of `Matches` and `MatchTours` together, so
that bets see the scores of a match that is played; a proof that the machine of
section 3 in which `apps/matches` and the global quiz share a ledger is right when
their keys differ; what a race does to the wallets of its guests, in place of the
exception `RenduParCourse`.
