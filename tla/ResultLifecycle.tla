--------------------------- MODULE ResultLifecycle ---------------------------
(***************************************************************************)
(* The life of the results of one tournament: submission, confirmation,    *)
(* rejection, correction and reversal (results.service and                 *)
(* result-correction.service), the fixture operations that race with them  *)
(* (schedule, postpone and cancel of fixtures.service) and completion      *)
(* (achievements.service).                                                 *)
(*                                                                         *)
(* Every result operation and completion is one Serializable transaction   *)
(* with retry, so one atomic action.  schedule, postpone and cancel read   *)
(* the fixture first and write it later in a transaction that checks       *)
(* nothing again: two actions, with the request in flight between them.    *)
(* completeTournament also reads before its transaction: two actions.      *)
(***************************************************************************)
EXTENDS CompetitionRules

CONSTANTS
  Fixtures,       \* a fixture and its match; the value is the sequence number
  Submissions,    \* identifiers of result submissions
  NoSubmission,   \* the null of a match's confirmed-result pointer
  Scores,         \* the scores people enter: pairs <<home goals, away goals>>
  Plan,           \* the generated fixture rows, with their initial participants
  Progression,    \* where the bracket sends the winner and the loser of a fixture
  NoTarget,       \* nowhere
  Format,         \* the tournament's format columns
  EntryGroup,     \* the approved entries and their groups
  MaxRequests,    \* bound: fixture operations in flight at the same time
  Racing          \* bound: which of these operations are called

Entries == DOMAIN EntryGroup
Sides == {"HOME", "AWAY"}
Outcomes == {"WINNER", "LOSER"}
Targets == Fixtures \X Sides
Knockout(f) == IsKnockoutFixture(Plan[f].phase)
PlannedEntry(f, side) == IF side = "HOME" THEN Plan[f].home ELSE Plan[f].away

ASSUME FixturesAssumption == Fixtures \subseteq Nat \ {0} /\ IsFiniteSet(Fixtures)
ASSUME ConstantsAssumption ==
  /\ NoSubmission \notin Submissions
  /\ NoEntry \notin Entries
  /\ NoTarget \notin Targets
  /\ Scores \subseteq Nat \X Nat
ASSUME PlanAssumption ==
  \A f \in Fixtures : {Plan[f].home, Plan[f].away} \subseteq Entries \cup {NoEntry}
(* Only knockout fixtures have targets; no two share one; no fixture is    *)
(* its own target; a target slot is generated empty.                       *)
ASSUME ProgressionAssumption ==
  /\ Progression \in [Fixtures -> [Outcomes -> Targets \cup {NoTarget}]]
  /\ \A f \in Fixtures, o \in Outcomes : Progression[f][o] # NoTarget =>
       /\ Knockout(f)
       /\ Progression[f][o][1] # f
       /\ PlannedEntry(Progression[f][o][1], Progression[f][o][2]) = NoEntry
       /\ \A g \in Fixtures, p \in Outcomes :
            Progression[g][p] = Progression[f][o] => g = f /\ p = o

VARIABLES
  slot,         \* the participants of each fixture, by side
  status,       \* Fixture.status and Match.status, always written together
  scheduled,    \* whether Fixture.scheduledAt is set
  confirmed,    \* Match.confirmedResultSubmissionId
  subs,         \* the ResultSubmission rows
  applied,      \* submissions with an APPLY event in MatchResultStatEvent
  reversed,     \* submissions with a REVERSE event
  tables,       \* the stored TournamentStanding and PlayerTournamentStatistic rows
  tournament,   \* Tournament.status
  champion,     \* the champion the completion awards name, NoEntry without awards
  requests,     \* fixture operations between their check and their write
  completing    \* a completion between its first checks and its transaction

vars == << slot, status, scheduled, confirmed, subs, applied, reversed,
           tables, tournament, champion, requests, completing >>
resultVars == << confirmed, subs, applied, reversed, tables >>

Statuses == {"UNSCHEDULED", "SCHEDULED", "POSTPONED", "CANCELLED", "COMPLETED"}
Operations == {"SCHEDULE", "POSTPONE", "CANCEL"}
Requests == [op : Operations, fixture : Fixtures]

Unused == [status |-> "UNUSED"]
Submission == [match : Fixtures, score : Scores,
               status : {"PENDING_VERIFICATION", "CONFIRMED", "REJECTED"}]
(* A result as a table counts it. *)
CountedResult == [match : Fixtures, home : Entries \cup {NoEntry},
                  away : Entries \cup {NoEntry}, score : Scores]

-----------------------------------------------------------------------------
FixtureRow(f) ==
  [seq |-> f, phase |-> Plan[f].phase, group |-> Plan[f].group, matchday |-> Plan[f].matchday,
   round |-> Plan[f].round, home |-> slot[f]["HOME"], away |-> slot[f]["AWAY"]]

Ready(f) == NoEntry \notin {slot[f][side] : side \in Sides}

IsDraw(score) == score[1] = score[2]

Winner(pair, score) ==
  IF IsDraw(score) THEN NoEntry ELSE IF score[1] > score[2] THEN pair["HOME"] ELSE pair["AWAY"]

(* The entry an outcome sends on. *)
Result(pair, score, outcome) ==
  LET winner == Winner(pair, score) IN
  IF winner = NoEntry \/ outcome = "WINNER" THEN winner
  ELSE IF winner = pair["HOME"] THEN pair["AWAY"] ELSE pair["HOME"]

Confirmed == {f \in Fixtures : confirmed[f] # NoSubmission}

Rows(status_) == {s \in Submissions : subs[s].status = status_}
Pending == {subs[s].match : s \in Rows("PENDING_VERIFICATION")}

Conflicts(f, others) ==
  \E o \in others : PairConflict(Format, EntryGroup, FixtureRow(f), FixtureRow(o))

-----------------------------------------------------------------------------
(* rebuildTournamentStatistics: throw both tables away and count the       *)
(* canonical completed fixtures again, the knockout ones for the players   *)
(* only.  The arguments are the tables the transaction sees.               *)
Canonical(st, cf, sb) ==
  Deduplicated(Format, {FixtureRow(f) : f \in
    {g \in Fixtures : /\ st[g] = "COMPLETED"
                      /\ cf[g] # NoSubmission
                      /\ sb[cf[g]].status = "CONFIRMED"}})

ResultsOf(rows, cf, sb) ==
  {[match |-> r.seq, home |-> r.home, away |-> r.away, score |-> sb[cf[r.seq]].score] : r \in rows}

(* Altered: the previous standings rows are not deleted. *)
RebuiltOnTop(st, cf, sb) ==
  [standings |-> tables.standings \cup
                   ResultsOf(StandingsFixtures(Format, EntryGroup, Canonical(st, cf, sb)), cf, sb),
   players   |-> ResultsOf(Canonical(st, cf, sb), cf, sb)]

Rebuilt(st, cf, sb) ==
  [standings |-> ResultsOf(StandingsFixtures(Format, EntryGroup, Canonical(st, cf, sb)), cf, sb),
   players   |-> ResultsOf(Canonical(st, cf, sb), cf, sb)]

-----------------------------------------------------------------------------
(* Bracket progression.  sent gives, by outcome, the entry to put in the   *)
(* slot that outcome leads to; only knockout fixtures lead anywhere.       *)
SwappedSentBy(f, score) ==           \* altered: winner and loser change places
  [o \in Outcomes |-> Result(slot[f], score, CHOOSE p \in Outcomes : p # o)]

SentBy(f, score) == [o \in Outcomes |-> Result(slot[f], score, o)]
SentNobody == [o \in Outcomes |-> NoEntry]

Moved(f, sent) ==
  [g \in Fixtures |-> [side \in Sides |->
     IF \E o \in Outcomes : Progression[f][o] = <<g, side>>
     THEN sent[CHOOSE o \in Outcomes : Progression[f][o] = <<g, side>>]
     ELSE slot[g][side]]]

TargetHolds(f, o, allowed) ==
  Progression[f][o] # NoTarget =>
    slot[Progression[f][o][1]][Progression[f][o][2]] \in {NoEntry, allowed}

(* advanceKnockoutParticipant refuses a slot that another entry holds. *)
SlotsFree(f, score) ==
  \A o \in Outcomes : TargetHolds(f, o, Result(slot[f], score, o))

(* Altered: the loser's path is not looked at. *)
WinnerPathUnlocked(f) ==
  Progression[f]["WINNER"] # NoTarget =>
    LET g == Progression[f]["WINNER"][1] IN
    status[g] # "COMPLETED" /\ confirmed[g] = NoSubmission

(* updateProgressionTarget refuses to move anybody into or out of a fixture *)
(* that is completed or has a confirmed result.  (It also looks for LIVE,   *)
(* a status nothing sets.)                                                  *)
DownstreamUnlocked(f) ==
  \A o \in Outcomes : Progression[f][o] # NoTarget =>
    LET g == Progression[f][o][1] IN
    status[g] # "COMPLETED" /\ confirmed[g] = NoSubmission

DownstreamMatches(f, score) ==
  \A o \in Outcomes : TargetHolds(f, o, Result(slot[f], score, o))

CanRedirect(f, old) == DownstreamUnlocked(f) /\ DownstreamMatches(f, old)

-----------------------------------------------------------------------------
Init ==
  /\ slot = [f \in Fixtures |-> [side \in Sides |-> PlannedEntry(f, side)]]
  /\ status = [f \in Fixtures |-> "UNSCHEDULED"]
  /\ scheduled = [f \in Fixtures |-> FALSE]
  /\ confirmed = [f \in Fixtures |-> NoSubmission]
  /\ subs = [s \in Submissions |-> Unused]
  /\ applied = {}
  /\ reversed = {}
  /\ tables = [standings |-> {}, players |-> {}]
  /\ tournament = "REGISTRATION_CLOSED"
  /\ champion = NoEntry
  /\ requests = {}
  /\ completing = FALSE

(* Altered: pending results are not looked for. *)
OpenIgnoringPending(f) ==
  /\ confirmed[f] = NoSubmission
  /\ status[f] \in {"UNSCHEDULED", "SCHEDULED"}
  /\ ~Conflicts(f, Confirmed)

(* What submitResult requires of the match and its neighbours. *)
OpenForResult(f) ==
  /\ confirmed[f] = NoSubmission
  /\ status[f] \in {"UNSCHEDULED", "SCHEDULED"}
  /\ ~Conflicts(f, Confirmed)
  /\ ~Conflicts(f, Pending)
  /\ f \notin Pending

(* submitResult: a participant or an official enters a score.  The slots   *)
(* of the fixture may still be empty.                                      *)
Submit(f, s, score) ==
  /\ subs[s] = Unused
  /\ OpenForResult(f)
  /\ subs' = [subs EXCEPT ![s] = [match |-> f, score |-> score,
                                  status |-> "PENDING_VERIFICATION"]]
  /\ UNCHANGED << slot, status, scheduled, confirmed, applied, reversed, tables,
                  tournament, champion, requests, completing >>

Recordable(f, score) ==
  /\ Ready(f)
  /\ Knockout(f) => ~IsDraw(score)

(* confirmResult.  It does not look at the status of the match. *)
Confirm(s) ==
  LET f == subs[s].match
      score == subs[s].score
  IN  /\ subs[s].status = "PENDING_VERIFICATION"
      /\ confirmed[f] = NoSubmission
      /\ Recordable(f, score)
      /\ ~Conflicts(f, Confirmed)
      /\ SlotsFree(f, score)
      /\ subs' = [subs EXCEPT ![s].status = "CONFIRMED"]
      /\ confirmed' = [confirmed EXCEPT ![f] = s]
      /\ status' = [status EXCEPT ![f] = "COMPLETED"]
      /\ applied' = applied \cup {s}
      /\ tables' = Rebuilt(status', confirmed', subs')
      /\ slot' = Moved(f, SentBy(f, score))
      /\ tournament' = IF tournament = "REGISTRATION_CLOSED" THEN "ACTIVE" ELSE tournament
      /\ UNCHANGED << scheduled, reversed, champion, requests, completing >>

(* Altered: the update relies on a check made earlier. *)
RejectableOnceChecked(s) == subs[s].status \in {"PENDING_VERIFICATION", "CONFIRMED"}

Rejectable(s) ==
  /\ subs[s].status = "PENDING_VERIFICATION"
  /\ confirmed[subs[s].match] = NoSubmission

(* rejectResult: one conditional update, on a pending row of a match       *)
(* without a confirmed result.                                             *)
Reject(s) ==
  /\ Rejectable(s)
  /\ subs' = [subs EXCEPT ![s].status = "REJECTED"]
  /\ UNCHANGED << slot, status, scheduled, confirmed, applied, reversed, tables,
                  tournament, champion, requests, completing >>

(* Altered: a completed tournament is left alone. *)
StaysCompleted(otherwise) == tournament' = otherwise /\ champion' = champion

(* reopenCompletedTournament: delete the awards, back to ACTIVE. *)
Reopened(otherwise) ==
  /\ tournament' = IF tournament = "COMPLETED" THEN "ACTIVE" ELSE otherwise
  /\ champion' = IF tournament = "COMPLETED" THEN NoEntry ELSE champion

(* Altered: a REVERSE event of the match, not of the submission, is enough. *)
ReversedPerMatch(old) ==
  IF \E r \in reversed : subs[r].match = subs[old].match THEN reversed ELSE reversed \cup {old}

(* A REVERSE event is written unless the submission has one. *)
WithReverse(old) == reversed \cup {old}

(* correctResult: the old row is rejected, the corrected one is confirmed  *)
(* and moves the bracket only when the winner changes.                     *)
Correct(f, s, score) ==
  LET old == confirmed[f]
      redirects == /\ Knockout(f)
                   /\ Winner(slot[f], score) # Winner(slot[f], subs[old].score)
  IN  /\ old # NoSubmission
      /\ subs[s] = Unused
      /\ Recordable(f, score)
      /\ redirects => CanRedirect(f, subs[old].score)
      /\ slot' = IF redirects THEN Moved(f, SentBy(f, score)) ELSE slot
      /\ subs' = [subs EXCEPT ![old].status = "REJECTED",
                              ![s] = [match |-> f, score |-> score, status |-> "CONFIRMED"]]
      /\ applied' = applied \cup {s}
      /\ reversed' = WithReverse(old)
      /\ confirmed' = [confirmed EXCEPT ![f] = s]
      /\ status' = [status EXCEPT ![f] = "COMPLETED"]
      /\ tables' = Rebuilt(status', confirmed', subs')
      /\ Reopened(tournament)
      /\ UNCHANGED << scheduled, requests, completing >>

(* The status a fixture returns to when its result is reversed. *)
Restored(f) == IF scheduled[f] THEN "SCHEDULED" ELSE "UNSCHEDULED"

(* reverseResult.  A tournament left without results returns to            *)
(* REGISTRATION_CLOSED when it was ACTIVE, not when it was COMPLETED.      *)
Reverse(f) ==
  LET old == confirmed[f]
      redirects == Knockout(f) /\ Winner(slot[f], subs[old].score) # NoEntry
  IN  /\ old # NoSubmission
      /\ Ready(f)
      /\ redirects => CanRedirect(f, subs[old].score)
      /\ slot' = IF redirects THEN Moved(f, SentNobody) ELSE slot
      /\ subs' = [subs EXCEPT ![old].status = "REJECTED"]
      /\ reversed' = WithReverse(old)
      /\ confirmed' = [confirmed EXCEPT ![f] = NoSubmission]
      /\ status' = [status EXCEPT ![f] = Restored(f)]
      /\ tables' = Rebuilt(status', confirmed', subs')
      /\ Reopened(IF tournament = "ACTIVE" /\ tables'.players = {}
                  THEN "REGISTRATION_CLOSED" ELSE tournament)
      /\ UNCHANGED << scheduled, applied, requests, completing >>

-----------------------------------------------------------------------------
(* scheduleFixture, postponeFixture and cancelFixture up to the last read. *)
(* The limits a schedule request may also fail on (matchday, day, overlap) *)
(* only refuse it; a refused request is one that is never made.            *)
CheckRequest(op, f) ==
  /\ Cardinality(requests) < MaxRequests
  /\ op \in Racing
  /\ status[f] # "COMPLETED"
  /\ op # "CANCEL" => status[f] # "CANCELLED"
  /\ requests' = requests \cup {[op |-> op, fixture |-> f]}
  /\ UNCHANGED << slot, status, scheduled, confirmed, subs, applied, reversed, tables,
                  tournament, champion, completing >>

(* Altered: a scheduled fixture goes LIVE. *)
StatusAfterLive(op) == IF op = "SCHEDULE" THEN "LIVE" ELSE op

StatusAfter(op) ==
  CASE op = "SCHEDULE" -> "SCHEDULED"
    [] op = "POSTPONE" -> "POSTPONED"
    [] op = "CANCEL" -> "CANCELLED"

(* Their writing transaction, which repeats none of the checks. *)
WriteRequest(q) ==
  /\ requests' = requests \ {q}
  /\ status' = [status EXCEPT ![q.fixture] = StatusAfter(q.op)]
  /\ scheduled' = [scheduled EXCEPT ![q.fixture] =
                     q.op = "SCHEDULE" \/ (q.op = "CANCEL" /\ scheduled[q.fixture])]
  /\ UNCHANGED << slot, confirmed, subs, applied, reversed, tables, tournament,
                  champion, completing >>

-----------------------------------------------------------------------------
(* completeTournament before its transaction. *)
CheckCompletion ==
  /\ ~completing
  /\ tournament # "COMPLETED"
  /\ \A f \in Fixtures : status[f] \in {"COMPLETED", "CANCELLED"}
  /\ Confirmed # {}
  /\ HomeAway(Format) => \A f \in Fixtures : status[f] = "COMPLETED" /\ f \in Confirmed
  /\ completing' = TRUE
  /\ UNCHANGED << slot, status, scheduled, confirmed, subs, applied, reversed, tables,
                  tournament, champion, requests >>

IsCanonical(f) == status[f] = "COMPLETED" /\ f \in Confirmed

(* assertRoundRobinComplete *)
ExpectedMeetings ==
  LET scopes == {EntryGroup[e] : e \in Entries}
      size(g) == Cardinality({e \in Entries : EntryGroup[e] = g})
  IN  MapThenSumSet(LAMBDA g : (size(g) * (size(g) - 1)) \div 2, scopes)
        * (IF HomeAway(Format) THEN 2 ELSE 1)

RoundRobinComplete ==
  \/ Format.format = "KNOCKOUT"
  \/ Format.competition = "CUSTOM_MANUAL"
  \/ /\ Format.competition = "UCL_CUP"
     /\ \A f \in Fixtures : ~Knockout(f) => IsCanonical(f)
  \/ /\ Format.competition # "UCL_CUP"
     /\ Cardinality(StandingsFixtures(Format, EntryGroup,
          {FixtureRow(f) : f \in {g \in Fixtures : IsCanonical(g)}})) = ExpectedMeetings
     /\ Format.groups => \A e \in Entries : EntryGroup[e] # NoGroup

(* getKnockoutPlacement takes the winner of the final.  Its search by name *)
(* and round finds the bracket fixture that leads nowhere: a generated     *)
(* bracket has one.                                                        *)
DecidedByFinal == Format.groups \/ Format.format = "KNOCKOUT"

Finals == {f \in Fixtures : Plan[f].group = NoGroup /\ Progression[f]["WINNER"] = NoTarget}

Placed ==
  IF DecidedByFinal
  THEN {Winner(slot[f], subs[confirmed[f]].score) : f \in {g \in Finals : IsCanonical(g) /\ Ready(g)}}
  ELSE IF Cardinality(Ranked(tables.standings)) < 2 THEN {} ELSE Leaders(tables.standings)

(* completeTournament's transaction: awards, summary and COMPLETED. *)
CompleteTournament ==
  /\ completing
  /\ tournament # "COMPLETED"
  /\ \A f \in Fixtures : status[f] = "CANCELLED" \/ IsCanonical(f)
  /\ Cardinality(Entries) >= 2
  /\ Format.groups => \E f \in Fixtures : Plan[f].group = NoGroup
  /\ RoundRobinComplete
  /\ champion' \in Placed \ {NoEntry}
  /\ tournament' = "COMPLETED"
  /\ completing' = FALSE
  /\ UNCHANGED << slot, status, scheduled, confirmed, subs, applied, reversed, tables,
                  requests >>

(* A completion the transaction refuses. *)
AbandonCompletion ==
  /\ completing
  /\ completing' = FALSE
  /\ UNCHANGED << slot, status, scheduled, confirmed, subs, applied, reversed, tables,
                  tournament, champion, requests >>

-----------------------------------------------------------------------------
Next ==
  \/ \E f \in Fixtures, s \in Submissions, score \in Scores : Submit(f, s, score)
  \/ \E s \in Submissions : Confirm(s)
  \/ \E s \in Submissions : Reject(s)
  \/ \E f \in Fixtures, s \in Submissions, score \in Scores : Correct(f, s, score)
  \/ \E f \in Fixtures : Reverse(f)
  \/ \E op \in Operations, f \in Fixtures : CheckRequest(op, f)
  \/ \E q \in requests : WriteRequest(q)
  \/ CheckCompletion
  \/ CompleteTournament
  \/ AbandonCompletion

Spec == Init /\ [][Next]_vars

-----------------------------------------------------------------------------
(* What the generators and the editor promise of a plan.  The theorems say *)
(* which of these they need.                                               *)
Stage == {f \in Fixtures : ~Knockout(f)}

PlannedDay(f) == MatchdayOf(Plan[f])
PlannedLeg(f) == LegOf(Format, EntryGroup, Plan[f], PlannedDay(f))

(* A stage fixture is between two entries of one scope, from the start. *)
StageInScope(f) ==
  /\ Resolved(Plan[f])
  /\ Plan[f].home # Plan[f].away
  /\ IF Format.groups
     THEN Plan[f].group # NoGroup /\ \A e \in Participants(Plan[f]) : EntryGroup[e] = Plan[f].group
     ELSE Plan[f].group = NoGroup

(* Nobody plays twice on a matchday of a scope, and two entries meet once, *)
(* or once in each leg at alternate homes.                                 *)
StageApart(f, g) ==
  /\ PlannedDay(f) # 0 /\ PlannedDay(f) = PlannedDay(g) =>
       Participants(Plan[f]) \cap Participants(Plan[g]) = {}
  /\ Participants(Plan[f]) = Participants(Plan[g]) =>
       /\ HomeAway(Format)
       /\ Plan[f].home # Plan[g].home
       /\ PlannedLeg(f) = PlannedLeg(g) => PlannedLeg(f) = 0

ProperStage ==
  /\ \A f \in Stage : StageInScope(f)
  /\ Format.competition # "CUSTOM_MANUAL" =>
       \A f, g \in Stage : f # g /\ Plan[f].group = Plan[g].group => StageApart(f, g)

(* A bracket without second chances: losers go nowhere, winners to later   *)
(* fixtures, and every entry enters once.                                  *)
SingleElimination ==
  \A f \in Fixtures \ Stage :
    /\ Plan[f].group = NoGroup /\ Plan[f].matchday = 0
    /\ Progression[f]["LOSER"] = NoTarget
    /\ Progression[f]["WINNER"] # NoTarget => Progression[f]["WINNER"][1] > f
    /\ \A g \in Fixtures \ Stage, side, other \in Sides :
         PlannedEntry(f, side) = PlannedEntry(g, other) /\ PlannedEntry(f, side) # NoEntry =>
           f = g /\ side = other

(* A stage that shares the tournament with a bracket is in groups. *)
StageApartFromBracket == Format.groups \/ Stage = {} \/ Stage = Fixtures

(* A duplicate check by legs overlooks a rematch in the bracket, so there  *)
(* is none to overlook.                                                    *)
BracketTold ==
  Format.competition # "CUSTOM_MANUAL" /\ HomeAway(Format) => SingleElimination

(* Completion waits for everything the champion depends on: the final, or  *)
(* every meeting of the stage.                                             *)
DecidesChampion ==
  \/ DecidedByFinal
  \/ Format.competition = "UCL_CUP"
  \/ Format.competition # "CUSTOM_MANUAL" /\ Cardinality(Stage) = ExpectedMeetings

-----------------------------------------------------------------------------
(* Every variable has its type. *)
TypeOK ==
  /\ slot \in [Fixtures -> [Sides -> Entries \cup {NoEntry}]]
  /\ status \in [Fixtures -> Statuses]
  /\ scheduled \in [Fixtures -> BOOLEAN]
  /\ confirmed \in [Fixtures -> Submissions \cup {NoSubmission}]
  /\ subs \in [Submissions -> Submission \cup {Unused}]
  /\ applied \subseteq Submissions
  /\ reversed \subseteq Submissions
  /\ tables \in [standings : SUBSET CountedResult, players : SUBSET CountedResult]
  /\ tournament \in {"REGISTRATION_CLOSED", "ACTIVE", "COMPLETED"}
  /\ champion \in Entries \cup {NoEntry}
  /\ requests \subseteq Requests
  /\ completing \in BOOLEAN

(* The pointer of a match and its submissions agree: the pointer leads to  *)
(* a confirmed submission of that match, every confirmed submission is     *)
(* pointed at, a match with a result has none pending and no match has two *)
(* pending (submitResult, confirmResult, rejectResult and both             *)
(* corrections, in any order).                                             *)
SubmissionIntegrity ==
  /\ \A f \in Confirmed : /\ subs[confirmed[f]].status = "CONFIRMED"
                          /\ subs[confirmed[f]].match = f
  /\ \A s \in Rows("CONFIRMED") : confirmed[subs[s].match] = s
  /\ \A s \in Rows("PENDING_VERIFICATION") : subs[s].match \notin Confirmed
  /\ \A s, t \in Rows("PENDING_VERIFICATION") : subs[s].match = subs[t].match => s = t

(* The event ledger adds up: the results applied and not reversed are      *)
(* exactly the confirmed ones, through any chain of corrections and        *)
(* reversals, and nothing is reversed that was not applied.                *)
LedgerBalanced ==
  /\ reversed \subseteq applied
  /\ applied \ reversed = {confirmed[f] : f \in Confirmed}

(* The bracket is a function of the results: a slot a fixture feeds holds  *)
(* the winner or the loser of its confirmed result and is empty without    *)
(* one; a fixture with a result has both participants and a knockout one a *)
(* winner, however results are confirmed, corrected and reversed.          *)
BracketFollowsResults ==
  /\ \A f \in Confirmed : Ready(f) /\ (Knockout(f) => ~IsDraw(subs[confirmed[f]].score))
  /\ \A f \in Fixtures, o \in Outcomes : Progression[f][o] # NoTarget =>
       slot[Progression[f][o][1]][Progression[f][o][2]] =
         IF f \in Confirmed THEN Result(slot[f], subs[confirmed[f]].score, o) ELSE NoEntry

(* What getStandings and getMyStatistics would count now if every fixture  *)
(* with a result showed as completed.                                      *)
Recomputed ==
  LET rows == Canonical([f \in Fixtures |-> "COMPLETED"], confirmed, subs) IN
  [standings |-> ResultsOf(StandingsFixtures(Format, EntryGroup, rows), confirmed, subs),
   players   |-> ResultsOf(rows, confirmed, subs)]

(* The stored tables never count a result that was withdrawn, replaced or  *)
(* moved to other participants, even when a late schedule, postpone or     *)
(* cancel write hides completed fixtures from a rebuild.                   *)
NoPhantomResult ==
  /\ tables.standings \subseteq Recomputed.standings
  /\ tables.players \subseteq Recomputed.players

(* When every fixture with a result shows as completed, the stored tables  *)
(* are complete: the players' count each result once and the standings     *)
(* each stage result once, so what the duplicate-pair checks let through   *)
(* is never dropped by the de-duplication and the canonical stage filter.  *)
EveryResultCounts ==
  (\A f \in Confirmed : status[f] = "COMPLETED") =>
     /\ {x.match : x \in tables.players} = Confirmed
     /\ {x.match : x \in tables.standings} =
          {f \in Confirmed : ~Knockout(f) /\ Format.format # "KNOCKOUT"}

(* No order of results locks a fixture out: one whose two participants are *)
(* known never conflicts with results recorded elsewhere, so it can still  *)
(* be played and recorded.                                                 *)
EveryFixtureRecordable ==
  \A f \in Fixtures \ Confirmed : Ready(f) => ~Conflicts(f, Confirmed)

(* While a tournament is completed its awards name the champion of the     *)
(* results as they are now, otherwise it shows none (completeTournament,   *)
(* reopenCompletedTournament, and confirmResult, which does not reopen).   *)
ChampionIsCurrent ==
  champion \in IF tournament # "COMPLETED" THEN {NoEntry}
               ELSE IF DecidedByFinal
               THEN {Winner(slot[f], subs[confirmed[f]].score) : f \in Finals \cap Confirmed}
               ELSE Leaders(Recomputed.standings)

(* A fixture keeps its participants as long as it has a result: no step    *)
(* replaces who played under a recorded score.                             *)
RecordedPairFrozen ==
  [][\A f \in Confirmed : confirmed'[f] # NoSubmission => slot'[f] = slot[f]]_vars

(* A verdict is final: a rejected submission stays rejected, a confirmed   *)
(* one can only become rejected, and then its match no longer points at    *)
(* it; a decided score never changes.                                      *)
VerdictsFinal ==
  [][\A s \in Rows("REJECTED") \cup Rows("CONFIRMED") :
       /\ subs'[s] \in {subs[s], [subs[s] EXCEPT !.status = "REJECTED"]}
       /\ subs'[s].status = "REJECTED" => confirmed'[subs[s].match] # s]_vars
=============================================================================
