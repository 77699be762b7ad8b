# FC Arena in TLA+

FC Arena runs football-game tournaments: people register entries, fixtures are
generated, scheduled and published, participants enter scores, officials confirm,
correct or reverse them, brackets advance and a champion is named; leagues
challenge each other to wars; phones are told what happens.  The authoritative
state is a PostgreSQL database behind a NestJS API (`src/apps/api`); the web and
Android applications only call it.  This directory models the part of the API
that decides who plays whom, when, and who won, the pipeline that reads results
off screenshots, and the delivery of notifications.

## 1. Inventory

| component (under `src/apps/api/src`) | state | operations | what makes it hard |
|---|---|---|---|
| results (`results.service.ts`) | `ResultSubmission`, `Match.confirmedResultSubmissionId`, `MatchResultStatEvent`, `TournamentStanding`, `PlayerTournamentStatistic`, statuses | submit, confirm, reject, rebuild of both tables, bracket advancement | requests about the same match or pair at the same time; long sequences of legal calls; three notions of "the same meeting" |
| correction (`result-correction.service.ts`) | the same rows, `Achievement` | correct, reverse, redirect a bracket, reopen a tournament | later fixtures already built on the result |
| standings integrity, de-duplication (`standings-integrity.ts`, `fixture-deduplication.ts`) | none | which completed fixtures count | must agree with the checks made at submission |
| completion (`achievements.service.ts`, `completion-integrity.ts`) | `Tournament.status`, `Achievement` | complete, award | reads before its transaction; results that change afterwards |
| registration and entries (`tournaments.service.ts`, `tournament-entries.service.ts`, `entry-name.ts`) | `Tournament.status`, `TournamentRegistration` and its members | open, close, register, approve, reject, import, delete | the last place, the last name; blind status writes; approval against generation |
| generation (`fixture-engine.ts`, `fixtures.service.ts`) | `Fixture`, `Match` | single and double round robin, knockout | inputs read before the transaction; odd numbers |
| scheduling (`fixtures.service.ts`) and match room (`matches/`) | `Fixture.scheduledAt`, `matchday`, ready times | schedule, postpone, cancel, smart schedule, ready | read, check, then an unchecked write |
| wizard and preview (`tournament-fixture-*.service.ts`, `tournament-wizard-finalize.service.ts`) | draft and published fixtures | generate, add, edit, delete, reset, publish, activate | none of them is one transaction, two organisers may work at once |
| playoffs (`playoffs.service.ts`, `universal-playoff-engine.ts`, `elite-cup-engine.ts`, `playoff-seeding.ts`) | playoff fixtures and their links | draw, reseed | stage results that change; a started bracket; byes, groups, second chances |
| OCR (`ocr/`) | `OcrExtraction`, picture files, a BullMQ queue | upload, extract, retry, submit, clean up | crashes, redelivery, retries, files against rows |
| league wars (`league-wars/`) | `LeagueWar`, its participants and matches, proofs | challenge, accept, roster, ready, start, result, walkover, dispute, complete | two leagues with opposed interests; legs with home and away exchanged |
| push (`notifications/push.service.ts`), sessions (`auth.service.ts`) | `PushDevice`, `PushDelivery`, `Notification`, `RefreshSession` | register, disable, sign in and out, rotate, delete an account; a sync that dates notifications anew; a worker in every process | a phone that changes hands during a send, or comes back without its deliveries; crashes; devices that wait for their turn |
| groups, disputes, leagues, fair play, season awards, rankings, discovery, profiles, public pages | own tables | bookkeeping and queries | mostly reads |
| authentication, authorization, roles, administration, AI, health | sessions, roles, audit rows | who may call what | independent of the state modelled here |

How they interact: everything goes through the database.  Registration ends in a
generation or in drafts that are published; `results` and `correction` write the
fixtures that scheduling, the wizard and the playoffs made; the playoffs read the
tables that results rebuilt; completion reads what all of them wrote; OCR ends in
`results.submitResult`; wars keep to themselves; push reads what the others
notify of.

Properties that make the system correct: a match has at most one result and its
rows say so; the event ledger adds up; the tables, the bracket and the champion
are functions of the current results; recorded participants never change; every
fixture that should be played can be recorded; a tournament has no more entries
than places and its schedule is a proper round robin of them; limits of days and
matchdays hold; a bracket loses nobody and keeps favourites apart; what is
published stays; what counts in a war both leagues agreed on; a phone gets its
owner's notifications, once while it stays registered, in the end.

## 2. Modules

| module | models | stands on |
|---|---|---|
| `CompetitionRules` | the pure rules: knockout test, legs, pair keys, canonical stage fixtures, duplicate checks, points and order of the table | - |
| `ResultLifecycle` | the state machine of the results of one tournament | `CompetitionRules` |
| `ResultRegister` | abstract: one result per fixture, participants follow from upstream results | - |
| `ResultRefinement` | the mapping of `ResultLifecycle` to `ResultRegister` | both |
| `FixtureGenerator` | the circle method: single and double round robin | - |
| `TournamentEntries` | entries of a tournament and the generation of its fixtures | `FixtureGenerator` |
| `FixturePreview` | drafts of fixtures, edited and published by several organisers | `FixtureGenerator` |
| `MatchDay` | when fixtures are played, and who is ready for them | - |
| `LeaguePhase` | the league phase of a cup | `FixtureGenerator` |
| `PlayoffPlan` | the brackets: seeded, protected, double chance | - |
| `Playoffs` | from a stage to the champion: drawing, reseeding, playing | `PlayoffPlan`, `LeaguePhase` |
| `LeagueWar` | a war of two leagues | - |
| `OcrPipeline` | upload, queue, worker, retention and submission of screenshots | - |
| `PushDelivery` | phones, sessions and the workers that notify them | - |
| `MCResults`, `MCTournamentEntries`, `MCFixturePreview`, `MCMatchDay`, `MCLeagueWar`, `MCPushDelivery` | the instances of the runs | the module of their name |
| `ResultLifecycle_proofs` | theorems on results: types, rows, ledger, bracket, refinement, tables, champion | `ResultRefinement` |
| `FixtureGenerator_proofs`, `TournamentEntries_proofs`, `FixturePreview_proofs` | theorems on schedules, on entries and on what is published | the second and the third on the first |
| `MatchDay_proofs` | theorems on scheduling and readiness | `MatchDay` |
| `Playoffs_proofs` | theorems on brackets (their plans, drawing and playing them) and on league phases | `Playoffs`, `FixtureGenerator_proofs` |
| `LeagueWar_proofs` | theorems on wars | `LeagueWar` |
| `BackgroundWork_proofs` | theorems on the pipeline and on notifications | `OcrPipeline`, `PushDelivery` |

A convention holds throughout.  Where the code reads and checks outside a
transaction and writes later, the model has two actions, `Check...` (or `Ask...`)
and `Write...`, and a set `requests` of operations in between; where it does both
in a Serializable transaction with retry (`database/prisma.service.ts:41`), one
action.  A write repeats exactly the conditions the code repeats.  `Refuse` is a
write the code answers with a conflict, or whose process has stopped.  Operators
marked "Altered" are never used by the specifications: each is a plausible fault
of the definition below it, under which the property it belongs to fails.

### `ResultLifecycle`

| variable | in the database |
|---|---|
| `slot[f][side]` | `Fixture.homeRegistrationId`, `awayRegistrationId` |
| `status[f]` | `Fixture.status` and `Match.status`, which every operation writes together |
| `scheduled[f]` | whether `Fixture.scheduledAt` is set |
| `confirmed[f]` | `Match.confirmedResultSubmissionId` |
| `subs[s]` | a `ResultSubmission` row |
| `applied`, `reversed` | the `APPLY` and `REVERSE` rows of `MatchResultStatEvent` |
| `tables` | the results the stored standings and player statistics count |
| `tournament`, `champion` | `Tournament.status`, the champion named by the completion awards |
| `requests`, `completing` | handlers between their check and their write |

| action | handler |
|---|---|
| `Submit`, `Confirm`, `Reject` | `submitResult`, `confirmResult`, `rejectResult` |
| `Correct`, `Reverse` | `correctResult`, `reverseResult` |
| `CheckRequest`, `WriteRequest` | `scheduleFixture`, `postponeFixture`, `cancelFixture` before and at their write |
| `CheckCompletion`, `CompleteTournament`, `AbandonCompletion` | `completeTournament` before, in and out of its transaction |

The result operations and the second part of completion are Serializable
transactions.  `rejectResult` is one conditional `updateMany`.  PostgreSQL aborts
and retries a Serializable transaction that touched the same rows, so a blind
write lies before or after it, never inside.  Requests with the same content
merge: `requests` is a set.  Abstracted: names, codes, messages, times (only
whether a fixture has one), payloads of events; a table row is derived from the
set of results it counts, so the `form` string and the order of application are
left out.  `LIVE` is a status nothing sets.  `Fixture.phase` is never null
(`schema.prisma:796`), so a fixture is a knockout one exactly when it is a playoff
one.  Confirmation does not look at the match's status or the tournament's, and
neither does submission at the tournament's: the model has no such guard either.

What the generators give a plan, and the theorems on tables and champions suppose,
is named in the module.  `ProperStage`: a stage fixture is between two entries of
one scope, nobody plays twice on a matchday and no pair meets twice, or once in each
leg at alternate homes.  `BracketTold`: where the duplicate check goes by legs, no
pair meets twice in the bracket.  `SingleElimination`: losers go nowhere and every
entry enters a bracket once.  `StageApartFromBracket`: a stage that shares the
tournament with a bracket is in groups.  `DecidesChampion`: completion waits for the
final or for every meeting of the stage.  `MCResults` asserts `ProperStage`,
`BracketTold` and `DecidesChampion` of the plans of its runs; what the others leave
out is in section 5.

### `TournamentEntries`

| variable | in the database |
|---|---|
| `mode`, `status` | `Tournament.registrationMode`, `status` |
| `entry[e]` | `TournamentRegistration.status`; `NONE` before the row, `DELETED` after it |
| `members` | the rows whose `TournamentRegistrationMember` rows exist (unique per person and tournament) |
| `plan` | the fixtures; a deleted entry leaves `NoEntry` on its side (`onDelete: SetNull`) |

`openRegistration`, `closeRegistration`, `register`, `rejectRegistration`,
`createEntry` and `bulkCreateEntries`, `deleteEntry` and `generateFixtures` are a
check and a write; `approveRegistration` is one transaction.  Capacity and names
are counted inside the transactions, the tournament's status is not asked again by
`register`, which therefore may still add an entry after the closing, and
`rejectRegistration` writes whatever the entry has become.  `Activate` is the
first confirmed result.

### `FixturePreview`

`fixtures` are the rows, `published` the ids of those whose `publishedAt` is set;
`request[p]` is what organiser `p` has read.  Generation clears the drafts and
creates new ones in two steps, turning pairs round at random where `homeAwayMode`
says so; adding, editing and deleting check the drafts they read and write by id;
publication validates rows it has read and updates those, by id, in a transaction
that fails when one is gone.  A new row has an id that no row and no request has
(`NewIds`), since identifiers are not used again.  `Racing` names the operations
that overlap.  Edits and deletions are not among them in the run: an edit that was
checked before a publication was validated, and is written between that and the
publication's updates, is published without having been validated, since the
update is by id alone, and both can change or remove a row that has been published
since they looked.  With `"EDIT"` in `Racing` `PublishesRoundRobin` is violated, and
with `"DELETE"` `PublishedStand` is.  Two publications may overlap: the one asked for
first may be written after the rows it read have become a part of what another,
which read more, published.  `PublishesRoundRobin` therefore says that what becomes
official *completes* a round robin, not that it is one.

### `MatchDay`

`fixture[f]` has status, time and matchday, `match[f]` status and the sides that
are ready.  `CheckSchedule` makes the checks of `scheduleFixture`
(`assertRoundRobinSchedulingIntegrity`, the day limits, the overlap);
`Preview` is what the search of `smartSchedule` finds, said without the search: every
unscheduled fixture, in their order, gets the first time that has room for it,
counting what was proposed to those before it, from where the one before it left
the cursor, which never turns back.  `WriteSmart` is the only write that
asks again.  `PlanAssumption` is what the generators provide: one fixture of an entry a matchday,
one of a pair a leg.
`raced` is history: it says that a write was based on a reading
another write had outdated.  The limits can only hold of schedules in which that
did not happen, and the properties say so; that a scheduling request can be
outdated at all is hazard `fixtures.service.ts:1347`.  Time does not pass.

### `Playoffs`

`ranking` are the approved entries in the order of the tables, `stage` the
fixtures of a league phase, `plan` the bracket, `winners` what came of it,
`request` what `generatePlayoffs` has read and `saving` what `saveQualification`
will write.  `ReadTables` and `WriteBracket` are the two halves of
`generatePlayoffs`; with `RESEED` the second is `reseedExisting`.  `ReviseStage`
is a correction that exchanges two neighbours of a table or opens the stage again.
`PlayoffPlan` gives the fixtures with the sources of their sides, `LeaguePhase`
those of a cup.

### `LeagueWar`

`status`, `ready`, `roster`, `match`, `winner` are the columns of the latest war of
a pair of leagues.  The operations on the war itself (`accept`, `reject`, `cancel`,
`setRoster`, `setReady`) write blindly, `startWar` asks for the status again, and a
write to a match locks the war, asks that it is `LIVE` and compares `updatedAt`
with the row that was read: `StillValid` removes the requests that can only be
refused.  `Complete` is one locked transaction.  The score of a match is that of
its home and away players; in a second leg those are of the away and home league.

### `OcrPipeline`

| variable | in the system |
|---|---|
| `upload[e]` | how far the handler of `uploadScreenshot` is between its awaits |
| `row[e]` | `OcrExtraction.status`, `NONE` before the row and `DELETED` after it |
| `image[e]`, `stale[e]` | whether the file exists; whether `createdAt` is before the cutoff |
| `job[e]` | the BullMQ job: state, failed attempts, redeliveries |
| `run` | the one worker (`concurrency: 1`): its job, where `processExtraction` stands, and the `finalAttempt` it was called with |
| `sweep` | `cleanupExpiredArtifacts`: what it found and has still to do, and the row whose file it has just removed |
| `submission[e]` | the `ResultSubmission` made from the extraction |

| action | code |
|---|---|
| `WriteImage`, `CreateRow`, `Enqueue`, `EnqueueFails`, `MarkFailed` | `uploadScreenshot`, await by await |
| `Take` | `OcrProcessor.process` |
| `Begin`, `Extract`, `Store`, `Recover` | `processExtraction`: the update before the `try`, the recognition, the update in it, the `catch` |
| `Finish`, `Redeliver`, `LoseLock` | the queue: outcome of an attempt, stalled jobs (external) |
| `FindExpired`, `Unlink`, `UnlinkFails`, `DeleteRow` | `cleanupExpiredArtifacts`, await by await |
| `Submit` | the transaction of `submitResult`, which repeats the checks of `submitOcrResult` |
| `Decide` | the verdict on the submission; `ResultLifecycle` says when there is one |
| `Age`, `Crash` | time, and the end of the process |

`finalAttempt` is computed when the worker takes the job and is not looked at
again, while a lost lock can hand the job on: `run.final` and `job` are therefore
separate.  One API process is modelled: the code starts one worker with
`concurrency: 1` in it and keeps the pictures on its disk.  The queue is external:
an attempt that throws counts, a redelivery does not, and a job redelivered more
than `MaxStalledCount` times fails without its worker.  A screenshot becomes
`stale` after a day at the least (`retentionMs`), which no upload and no run lasts.

### `PushDelivery`

| variable | in the system |
|---|---|
| `device[t]` | the `PushDevice` row of a phone: its identity (`row`, the registration that created it), session and `enabledAt` (`since`) |
| `turn` | the order by `lastSyncedAt` |
| `delivery[t][n]` | the `PushDelivery` row: attempts, `leaseUntil` ahead or not, `deliveredAt` |
| `inbox[n]`, `eventAt[n]` | the `Notification` row of a `dedupeKey`: `readAt`, and the time of its event |
| `session[s]`, `active` | `RefreshSession`, and the users with `User.status` `ACTIVE` |
| `asked` | calls of `register` between their check and their upsert |
| `worker[w]` | where a process is in `tick`, and the devices and notifications it has read |
| `clock` | the time, counted in registrations that set `enabledAt` |
| `sent`, `lapsed`, `late` | history, for the properties |

| action | code |
|---|---|
| `Register`, `Enable`, `EnableFails` | `register`: its check, and its upsert, which fails without a session |
| `Disable`, `DisableSession` | `disable`, `disableSession` |
| `SignIn`, `SignOut`, `Refresh`, `DeleteAccount` | `auth.service.ts`: `createSession`, `logout`, the rotation of `refresh`, the transaction of `deleteAccount` |
| `Ensure`, `MarkAsRead` | `ensure`, `markAsRead` and `markAllAsRead` |
| `Tick`, `Pick`, `Visit`, `Skip`, `Read`, `Recheck`, `Claim`, `Send`, `Record` | `tick`, await by await |
| `LeaseRunsOut` | two minutes after a claim |
| `DatabaseFails`, `SendFails`, `TokenUnknown`, `RecordFails`, `Crash` | the `catch` blocks of `tick`, and the end of the process |

A step is one statement on the database or one call of the messaging service,
because `tick` is no transaction at all and runs in every API process.  A phone that
was disabled and enabled again has another row.

A sync does not leave the notifications that are there alone: `ensure` is an upsert,
and its update writes `eventAt` (`notifications.service.ts:1818`).  Most kinds give
it the same time again; reminders get the time of the sync (`:876`, `:912`, `:946`),
schedule changes and reviews that of the last change of their row (`:834`, `:430`).
The latter are `Redated`, and `Ensure` may give them any time up to now at any
moment, since a worker syncs before it reads (`push.service.ts:279`), a person does
by looking at the notifications, and a slow sync writes late.  Which notifications are for a
phone is therefore decided when they are read, by `eventAt >= enabledAt` (`Read`).

`clock` advances with every registration that sets `enabledAt`: what happened before
it has a smaller time, what happens after it an equal or a greater one, and
`eventAt >= since` tells the two apart as the code's milliseconds do.  All processes
read one clock.  Left out: the
48 hours and the 50 notifications a reading is limited to, the 90 days after which a
silent device is pruned, the preferences that switch a kind off (`Ensure` need not
happen), the suspension of an account, which nothing in the code does (a deleted one is
not `ACTIVE` either).  A statement that fails has written nothing.

## 3. Runs

| run | instance | shows |
|---|---|---|
| `two_legs_race` | a pair, two legs, a draw allowed, two requests in flight, three submissions | rows, ledger, tables, verdicts and champion agree after any history; a late write hides results but leaves no wrong ones; the return leg is not taken for the first |
| `double_chance` | three seeds, losers move on, draws refused, one request in flight, three submissions | the bracket follows the results; participants of a recorded fixture stay; the register is implemented |
| `ocr_pipeline` | two screenshots, one of them submitted as evidence, one fault | rows, jobs and files agree in every interleaving; uploads settle, neither starves behind the other, stale artifacts go |
| `league_war` | one player a side, a reserve, two legs, two operations in flight | pairings, what counts, walkovers, disputes and the winner |
| `tournament_entries` | six rows (two of one person, two of one name), three places, two operations in flight, two lists to import | capacity, places, schedules |
| `push_delivery` | one phone and one session, two registrations, two processes and one notification or one and two, one dated anew by every sync and one that keeps its date, two attempts, one fault | under one registration one send per lease; what keeps its date under one registration only; one late send at most |
| `push_turns` | one process that serves one phone at a time, two phones, a session that is rotated, a notification that keeps its date, two attempts, one fault | every notification settles |
| `match_day` | three fixtures of three entries, two days, two operations in flight | limits hold where nothing raced; smart scheduling moves nothing |
| `playoffs` | brackets of 2, 3, 4, 5, 6 and 9 entries, of 2 to 4 groups, cups of 3, 5, 6, 7 and 10 teams, one revision of the stage | who is in a bracket, where favourites meet, rematches, the calendar of a cup, drawing against corrections |
| `fixture_preview` | up to three entries, one leg, two organisers; generations, additions and publications overlap, edits and deletions come between them | what is published completes a round robin and stays |
| `double_chance_final`, `published_twice` | the smallest instance of each disagreement | section 5 |

Bounds.  `Submissions` bounds the results ever entered: three leave room for a
rejected result, a correction, a reversal and a new result in one history over
two or three fixtures, the longest chain any guard or event looks back at.
`Scores` holds a win for either side, and a draw where one is allowed or must be
refused; nothing else of a score is compared.  `MaxRequests` is the number of
operations between check and write: one is enough for a write to come between
two transactions, two for a check to be outdated by another write of its kind.
`Racing` leaves out of an instance the operations whose writes touch other columns.
`MaxFaults` counts crashes, lost locks, failed calls and files that cannot be
removed; two screenshots are what a worker, a cleanup round and the rule of one
submission can confuse.  After a second fault the queue gives a job up, and
`EveryUploadSettles` does not hold of it (see the hazards in `PROJECT.json`).
`Extractions` and the faults of `ocr_pipeline` are therefore what liveness allows;
the safety properties of that run are proved for any number of both.  The sizes of
brackets are the powers of two, their neighbours and the first size with a second
round of byes, and each is played out in every order and with every winner.  `MaxAttempts` is
two where the code has five (`push.service.ts`): what distinguishes attempts is only
whether one is left.  `MaxCalls` are the registrations: two are what gives a phone a
second row.  `MaxLoad` counts processes in a tick and notifications together: three are
two processes that meet over one notification, or one process with two on its list.  The
fault of a push run is a failing statement, a send that fails, a lost note or a crash, at
any step.  For a phone that somebody else takes over, and for more of everything,
there are the theorems, which have no bounds.
`MaxRows` and `MaxByHand` in `fixture_preview` leave room for a full round robin, and
for as many rows made by hand or by a second organiser; the rounds given by hand
are the two that make a round robin of three around a published pair.  That run
keeps the sides as generated, for the sake of its size; `published_twice` turns pairs round, and
the theorems hold of both.

Symmetry is taken over values that nothing orders (submissions, workers,
organisers, reserves), and only in runs without liveness.  Deadlock is checked where a
system always has something to do (`league_war`, `match_day`, `playoffs`) and not
where it may stop: a tournament is complete with every identifier used, every
screenshot or notification is settled or gone, every draft is published, every
entry is decided.  `TypeOK` is a property of one run and documentation of the state
in the other modules; it is proved of `ResultLifecycle`, `OcrPipeline`,
`TournamentEntries`, `MatchDay` and `FixturePreview`, and what the proofs on wars,
push and playoffs need of it in `WarInv`, `PushInv` and `PlayoffInv`.

Fairness.  `OcrFairSpec` is fair to the worker (`Take` and
`Working`: BullMQ's loop takes the next job as long as the process runs, and every
await in `processExtraction` comes back), to the stalled-job check of the queue
(`Redeliver`), and to the cleanup timer (`FindExpired`, `Sweeping`: an interval of
six hours, `ocr.service.ts:72`).  It is not fair to uploads, submissions, verdicts
or ageing, which people and time decide, nor to faults.  Weak fairness per
screenshot is what a queue in order gives: at most a bounded number of attempts
comes before any waiting job.  `StaleArtifactsGo` supposes the cleanup is enabled
and the picture lies in the configured directory (`ocr.service.ts:124` skips it
for ever otherwise).  `FairSpec` of `PushDelivery` is fair to the interval that
calls `tick` every thirty seconds, to a process that is in it, and to the clock
that ends a lease; not to people and not to faults.

The other modules have no fairness and no liveness: every action is taken by a
person who need not take it.  That a fixture *can* still be recorded is the
invariant `EveryFixtureRecordable` instead.

## 4. Proofs

TLAPS proves the following for every value of the constants that satisfies the
named assumptions, which TLC evaluates on each instance.

*Results*, for every set of fixtures, entries, submissions and scores and every
bracket: `TypeCorrect`, `SubmissionsAgree`, `LedgerAddsUp`, `VerdictsStay`;
`BracketIsSound`, `RecordedPairsStay`; `Implementation`: `Spec => Register!Spec`.
The assumptions are on the plan alone: fixtures are numbered from one, slots name
entries or nobody, only knockout fixtures lead anywhere, no two outcomes lead to
the same slot, none leads to its own fixture, and a slot something leads to is
generated empty.  `connectUniversalSource` and `connectPreviousFixtures`
(`fixtures.service.ts:1730`, `1829`) build such links.

`SubmissionIntegrity` is inductive together with the types.  `LedgerBalanced` is
not: a correction takes an unused identifier, and the proof must know that it is
not in the ledger already, so the invariant adds `LedgerDecided`: only confirmed
and rejected submissions are in the ledger.  `BracketFollowsResults` needs the
records, because the winner is read from the submission the match points at.  The
step that matters is `Confirm`: a fixture receiving a result had none, so it had
sent nobody on, so no fixture it leads to was ready, so none of them has a result
whose participants would change; for `Correct` and `Reverse` the lock
`DownstreamUnlocked` says the same.  Distinct targets are what makes writing one
slot leave the others right.  Fixture requests may write any status at any time:
the lock also looks at the pointer, and the proof uses only that half.  The
register keeps no slots, it computes them from upstream results; the mapping
therefore needs `BracketFollowsResults` for the slots a fixture feeds and
`PlannedSlotsKept` for the others.  `Confirm` maps to `Record`, `Correct` to
`Amend`, `Reverse` to `Withdraw`, every other action to a stutter.

*Tables and champion*, for every plan with `ProperStage` and `BracketTold`:
`NoPhantoms`, `AllResultsCount`, `ChampionStaysCurrent` (with `DecidesChampion`).
A rebuild sees the rows of all recorded fixtures and passes them through the
de-duplication and the stage filter.  Both keep every row as long as the pairs of
the recorded fixtures tell them apart (`Sound`), in the order of the pair keys the
code uses: in the stage they do by the plan, in the bracket because `Confirm` has
compared the new pair with every recorded one, and because recorded pairs never
change.  So a rebuild drops nothing (`AllRowsCount`), and what it stores remains true
of every fixture that still shows as completed until the next one (`TablesMatch`);
a late fixture request may hide a row, never leave one behind.  The champion needs
more: a completion that counts as many rows as there are meetings has, for the same
reason, found every stage fixture recorded (`StageComplete`), and a recorded fixture
changes only by a correction or a reversal, which reopen the tournament or name the
champion again (`ChampionInv`).

`FixturesStayRecordable` (`ProperStage`, `SingleElimination`,
`StageApartFromBracket`): no order of results locks a fixture out.  An entry that
lost a bracket fixture is in none that comes later (`NoRematch`, by the least
fixture that would be a counterexample), so that the duplicate check has nothing to
refuse in a bracket, and in the stage it has nothing by the plan.

*Schedules*, for every list of different entries: `RoundRobinProper` and
`RoundRobinComplete`, `DoubleRoundRobinProper` and `DoubleRoundRobinComplete`.  The
code rotates an array; the lemma everything rests on says where the rotation puts
an entry after so many rounds, with arithmetic modulo the size of the circle.  Two
entries then meet in the one round in which their places are opposite, which is
found by solving that equation, whether the number of entries is even or a bye
fills it up.

*Entries*, for any entries, names, capacity, lists and operations in flight:
`CapacityIsHeld`, `PlacesStayDistinct`, `PlanStaysProper` and
`ScheduleCoversApproved`.  The capacity is inductive because it is counted inside
each transaction that approves; places stay distinct because the unique rows of
members are taken and given up with the entry; the schedule is proper by the
theorems on the generator, and stays so when an entry is deleted because a side
without entry is no meeting.  `ScheduleCoversApproved` is the action property: the
generation reads the entries again in its transaction.

*Preview*, for any lists of entries, organisers and rows, in one leg or two.
`ValidatedIsRoundRobin` is about sets of rows alone: what `validateFixtureSet` asks
(as many rows as pairs, each pair met, no side twice, nobody twice in a round) makes
a round robin, because the opponents of an entry, with the side in two legs, are
matched one to one with its rows.  `GeneratedDraftsAreValid` is its counterpart: the
circle method passes that check for every list, whichever pairs are turned round;
the rows are counted by mapping them onto the ordered pairs.  The steps:
`PublicationsAreRoundRobins`, if edits do not overlap with others, and
`PublishedFixturesStand`, if deletions do not either (the hypotheses name `Racing`;
section 2 says what happens without them).  The invariant says that no id is given to
two rows (`OneRowAnId`: the ids of new rows avoid those in rows and in requests, of
which there are finitely many) and that the rows a publication has read, as long as
all of them are there, are still those that were validated (`ReadsStand`).  The
transaction fails when one is gone, so what it publishes was validated; that a new
draft cannot take the place of a lost one is what the ids are for.

*Match day*, for any fixtures, horizon, limits and operations in flight:
`MatchesInStep`, `DaysStayWithinLimits`, `MatchdaysStayProper`,
`NobodyReadyForCalledOff`, `SmartScheduleMovesNothing`.  What an operation has
checked still holds when it writes, unless another wrote in between
(`ChecksHold`); then the write is a race and `raced` says so.  A smart schedule
writes many fixtures at once: that a day stays within its limits is seen at the last
fixture that was placed on it, for which `Preview` counted all the others.

*OCR pipeline*, for any number of screenshots and faults: `OcrTypes`,
`FailuresAreFinal`, `EndedJobsSettle`, `EvidenceRowsStay`, `NoFileLeftBehind`.
None of the last four is inductive.  `EndedJobIsSettled` needs to know that a
worker about to report a result or its last failure has settled the row, and that
what it thinks of its attempt is still true of the job, though the job may have
been handed on: `RunKnows`.  That in turn needs `OpenJobs`, a job that may still
be delivered has an attempt left.  `DeletedLeavesNoFile` needs `SweepKnows`: what
the cleanup is removing has no file, which stays so because a handler past its
first write never writes the file again (`UploadOrder`).  `OcrInv` is their
conjunction.

*League wars*, for leagues and rosters of any size, one leg or two, people who
administer one league or both, and any number of operations in flight:
`PairingsAlwaysProper`, `CountedResultsAgreed`, `WalkoversCount`,
`WinnerStaysLeader`, `DisputesStand`.  The invariant `WarInv` adds what the
operations in flight may still write: a start carries proper pairings, an entered
result is one of both leagues or pending, and a verdict is about a match that is
still pending as it was read, because the write compares `updatedAt` and so every
write to a match makes the verdicts on its earlier state void (`StillValid`).
Pairings are proper because a roster names no member twice and its write refuses
one that is in the other (`RostersApart`), which a person in both leagues could be.
The winner stays the leader because a completed war takes no result.

*Push*, for any number of processes, phones, sessions and notifications and any
number of faults: `SentOnce`, `OneRegistration`, `OneLate`.  Their invariant `PushInv` keeps accounts:
for each row of a phone, what was sent and what is being sent is at most the leases
that ran out, and one more while a claim is held, or the row is gone (`Accounted`).  No
`eventAt` is in that account, so a sync cannot upset it.  A phone that registers anew
opens another account, because its row is new to everybody (`IdsFresh`), and nobody
who holds an old row finds it.  `OneRegistration` is about what the accounts of two
rows have to do with each other, and rests on the dates: a notification that was given
to a row is older than any other registration the phone has, and than any that a
process has read and could still use (`GivenOnce`), because an event is never later
than the clock (`EventsPast`) and a registration with a new row sets `enabledAt` after
it.  `LateIsLast` says where a process may be after a late message.

*Playoffs*, for any formats, any numbers of entries, groups, teams and revisions,
from the one assumption that there are at least two of whatever qualifies
(`SizesAssumption`; the code refuses one): `PlanIsProper`, `PlayoffsSound`,
`EntriesKeepTheirFixture`, `FavouritesStayApart`, `RematchInFinalOnly`,
`BracketsAreAsRanked`.  The first is about what the engines compute.  A plan is
proper (`ProperPlan`) when every entry, every winner but the last and every loser of
a qualifying final is at exactly one side of a fixture, a later one than it comes
from.  For a knockout this follows round by round: the fixtures of a round use every
slot once, a bye passes its opponent on, and what comes out of one round is what
the places of the next wait for (`Place`).  The double chance is composed of knockouts whose
survivors are slots of fixtures above; `PartialPlan` says which advancers a part
leaves over, and parts are joined.  The order of the seeds is `Branches`, a
recursive function; instead of induction the proofs take the least doubling that
would go wrong, which is made of one that did not.  `WellSeeded` (the away side belongs
to the outsiders of its round) and `NoRematches` (who can get to a fixture, and that a loser of a qualifying
final comes back where the winner cannot be) are promises of plans as well.

The second, `PlayoffInv`, is about playing them.  `EveryEntryHasItsFixture` counts
losses and is not inductive; `SidesInv` is: nobody is at two open sides, nobody who is
out is at any, everybody else is at one.  It takes `BracketInv`, because a winner
moves to exactly the side that names the fixture as its source; `OutcomesInv`, that
whoever won or lost a fixture could get to it; and `SetupInv`, because requests in
flight and a setup being saved must not leave a format for which there are too few
entries.  A reseeded bracket needs no case of its own: nothing was played in it.

*League phases*, for any number of teams: `PhaseIsFair`, `LeaguePhasesAreFair`.  The
pairings of a round are those of the circle method, of which `FixtureGenerator_proofs`
has the facts, or for an odd number the pairs so many places apart
(`RivalsOnce`, `EvenRound`, `OddRound`).  After each pairing there is one fixture for
every pairing so far and no two on a matchday share a team (`OneEach`): the matchday
is the first free one, and there is one because teams are taken on fewer matchdays than
are looked at (`MatchdayIsFree`).  The matches of a team are then counted by the rounds
they are from, one or, at home and away, two of each.  An odd number of teams is balanced
because of the latter.  For an even number the sides are chosen greedily, by what either
team had before, and that home and away stay within two of each other is not inductive:
two teams with two more at home could meet.  They do not, because the choice
comes to a closed form: `Balance` says what every place of the circle has before each
round (from the third round on it repeats every second one), `BalanceStep` that the costs
choose what leads from one round to the next, `BalancedAt` that the fixtures made so far
agree with it.

Checked by TLC only: liveness (`EveryUploadSettles`, `StaleArtifactsGo`,
`EveryPushSettles`), which is out of the prover's reach.  Every other property of
the runs has a theorem.

## 5. Where the code and its own words disagree

With a run:

1. `double_chance_final`: the rematch of a double-chance final is refused as a
   duplicate of the qualifying final, so the bracket cannot be finished
   (`results.service.ts:2531`).
2. `published_twice`: a pair added by hand after a publication is not compared with
   what has been published, and meets once more than the setup allows
   (`tournament-fixture-preview.service.ts:1337`).

Seen while modelling, without a run of their own:

* a fixture is cancelled after its result was confirmed between check and write
  (`fixtures.service.ts:1277`, `1288`);
* a result pending on a match that was cancelled can be confirmed after completion,
  and changes the leader but not the champion (`result-correction.service.ts:1284`; in a custom tournament decided by its table,
  which `DecidesChampion` excludes);
* a correction upstream replaces a participant while a result of the next fixture
  is pending, which is then recorded for the new pair (`result-correction.service.ts:1157`);
* the cleanup removes the picture of a stale extraction that is submitted after it
  looked, and notices the submission only before it deletes the row
  (`ocr.service.ts:135`; the test is called "removes stale unsubmitted artifacts
  while preserving result evidence", `ocr.retention.spec.ts:18`); a crash between `ocr.service.ts:341` and `347` leaves a
  picture without a row, which no cleanup finds;
* smart scheduling may place two matches of one participant on top of each other
  if one of them was placed by hand (`fixtures.service.ts:677`);
* `avoidSameGroupEarly` (`schema.prisma:634`) is saved and not read: with three
  groups and two qualifiers each, two of one group meet in the first round;
* `elite-cup-engine.spec.ts` asserts a difference of home and away matches of at
  most one; even numbers of teams from ten on have two (`LeaguePhaseFair` states
  what holds);
* an edit of a draft that races a publication is published unvalidated, and one of two
  publications that overlap may find some of its rows published (see
  `FixturePreview`);
* the wizard's settings may set one leg for a double round robin
  (`tournament-fixture-wizard.service.ts:121`; creation and setup do not allow it,
  `tournaments.service.ts:88`, `1436`): the generator still makes both legs
  (`tournament-fixture-wizard.service.ts:1163`), the validation expects one
  (`tournament-fixture-preview.service.ts:985`), and no preview can be published;
* in a bracket of a tournament in two legs the rematch of a double-chance final at the
  same home has the pair key of the first match, and the de-duplication drops it from
  the statistics (`BracketTold` excludes it);
* the duplicate check of a cup has no filter by phase, so that a pair of the league
  phase is refused when it meets again in the playoffs (`StageApartFromBracket` excludes
  it);
* in a custom tournament decided by its table, a result confirmed on a cancelled
  fixture after completion changes the leader and not the champion (`DecidesChampion`
  excludes it);
* the setup of the playoffs may be saved between their reading and their
  transaction, and a stage corrected after they started leaves them as drawn;
* an unread reminder, schedule change or review is sent a second time, with no lease run
  out, when the phone is disabled and enabled in between: disabling deletes the record of
  the delivery with the row (`schema.prisma:1239`), and the next sync dates the
  notification after the new `enabledAt` (`notifications.service.ts:1818`).  The code
  promises one row per `dedupeKey`, leases and bounded attempts, and nothing about a
  phone that was away; `SentOncePerLease` is therefore stated per row of the phone, and
  `SentToOneRegistration` for notifications that keep their `eventAt`;
* `resolveDispute` checks the status and writes without asking again
  (`disputes.service.ts:352`, `373`): the second of two verdicts stands;
* `openRegistration` writes the status it has not looked at since its check
  (`tournaments.service.ts:408`).

## 6. Plan

1. `LeaguePhase` and `PlayoffPlan` composed with `ResultLifecycle` for the cup:
   results of the phase decide the seeds, and corrections come before and after the
   draw.
2. Groups: assignment, generation per group, and the drafts of groups in
   `FixturePreview`.
3. `Disputes`: opened once per person, resolved once.
4. Theorems: the plan of the generator as a `ProperStage`, and a proper plan of `Playoffs` as a
   bracket of `ResultLifecycle`.
5. The tools of the wizard: templates, deadline reminders, bulk operations.

## 7. Not modelled

Groups and disputes are planned (section 6).  Leagues and their members, fair play,
season awards, rankings, discovery, careers and public pages read results and keep
their own bookkeeping, on which nothing modelled here depends; the season awards
are formulas over finished tournaments.  What the OCR parser makes of a text is
heuristics: an attempt reads a picture or fails.  Which notification goes to whom
is a table of texts; that one that was made is delivered is `PushDelivery`.
Authentication and authorization decide who may call an operation; the models let
every operation be called by somebody who may.  The web and Android applications
keep no authoritative state.  Administration, the AI assistant, telemetry and
health are operations tooling; deployment, scripts, marketing and generated code
(the Prisma client under `generated/`, by far the largest part of the repository)
carry no logic of the system.
