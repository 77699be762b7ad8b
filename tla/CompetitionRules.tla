-------------------------- MODULE CompetitionRules --------------------------
(***************************************************************************)
(* The pure rules of a competition: which fixtures are knockout ones,      *)
(* which fixtures are the same meeting, which results may be recorded side *)
(* by side, which of them the points table counts and who leads it.  They  *)
(* are the functions results.service, result-correction.service and        *)
(* achievements.service share.                                             *)
(*                                                                         *)
(* A fixture is a record [seq, phase, group, matchday, round, home, away]. *)
(* The code's null is NoGroup for a group, 0 for a matchday or a round     *)
(* (both count from 1) and NoEntry for a participant.  A format is a       *)
(* record [format, competition, leg, groups]: the tournament's columns     *)
(* format, competitionFormat, legType and whether it has groups.  grp maps *)
(* every approved entry to its group.                                      *)
(***************************************************************************)
EXTENDS Integers, FiniteSets, FiniteSetsExt

CONSTANTS NoEntry,    \* an empty participant slot
          NoGroup     \* a fixture or an entry outside every group

-----------------------------------------------------------------------------
HomeAway(fmt) == fmt.competition = "DOUBLE_ROUND_ROBIN" \/ fmt.leg = "HOME_AWAY"

IsKnockoutFixture(phase) == phase = "PLAYOFF"

Participants(r) == {r.home, r.away}

Resolved(r) == NoEntry \notin Participants(r)

(* An explicit matchday, else the round number. *)
MatchdayOf(r) == IF r.matchday # 0 THEN r.matchday ELSE r.round

RoundsPerLeg(n) == IF n < 2 THEN 0 ELSE IF n % 2 = 0 THEN n - 1 ELSE n

ScopeSize(grp, g) ==
  Cardinality({e \in DOMAIN grp : g # NoGroup => grp[e] = g})

(* The leg a matchday belongs to, 0 when the competition has no such notion. *)
LegOf(fmt, grp, r, day) ==
  LET rounds == RoundsPerLeg(ScopeSize(grp, r.group))
  IN  IF ~HomeAway(fmt) \/ day = 0 \/ rounds = 0 THEN 0
      ELSE IF day <= rounds THEN 1 ELSE 2

-----------------------------------------------------------------------------
(* fixturePairKey and deduplicateFixtureRecords.  Only completed fixtures  *)
(* with a confirmed result reach it here, so all have the same priority    *)
(* and the lowest sequence number wins.                                    *)
PairKeyUndirected(fmt, r) == <<r.phase, r.group, Participants(r)>>

PairKey(fmt, r) ==
  IF ~Resolved(r) \/ fmt.competition = "CUSTOM_MANUAL" THEN <<r.seq>>
  ELSE IF HomeAway(fmt) THEN <<r.phase, r.group, r.home, r.away>>
  ELSE <<r.phase, r.group, Participants(r)>>

Deduplicated(fmt, S) ==
  {r \in S : \A o \in S : PairKey(fmt, o) = PairKey(fmt, r) => r.seq <= o.seq}

-----------------------------------------------------------------------------
(* canonicalizeRoundRobinStandingsFixtures: walk the fixtures in sequence  *)
(* order and keep the ones that clash with none kept before.               *)
Eligible(fmt, grp, r) ==
  /\ fmt.format # "KNOCKOUT"
  /\ r.phase # "PLAYOFF"
  /\ Resolved(r)
  /\ r.home # r.away
  /\ fmt.groups => /\ r.group # NoGroup
                   /\ \A e \in Participants(r) : e \in DOMAIN grp /\ grp[e] = r.group

SameLeg(fmt, grp, r, o) ==
  /\ Participants(r) = Participants(o)
  /\ LegOf(fmt, grp, r, MatchdayOf(r)) = LegOf(fmt, grp, o, MatchdayOf(o))
  /\ HomeAway(fmt) /\ LegOf(fmt, grp, r, MatchdayOf(r)) = 0 => r.home = o.home

StandingsClash(fmt, grp, r, o) ==
  /\ fmt.competition # "CUSTOM_MANUAL"
  /\ fmt.groups => r.group = o.group
  /\ \/ /\ MatchdayOf(r) # 0 /\ MatchdayOf(r) = MatchdayOf(o)
        /\ Participants(r) \cap Participants(o) # {}
     \/ SameLeg(fmt, grp, r, o)

StandingsFixtures(fmt, grp, S) ==
  LET kept[n \in 0 .. Max({r.seq : r \in S} \cup {0})] ==
        IF n = 0 THEN {}
        ELSE kept[n - 1] \cup
               {r \in S : /\ r.seq = n
                          /\ Eligible(fmt, grp, r)
                          /\ \A k \in kept[n - 1] : ~StandingsClash(fmt, grp, r, k)}
  IN  {r \in S : r \in kept[r.seq]}

-----------------------------------------------------------------------------
(* The check that assertPairNotAlreadyPending and                          *)
(* assertPairNotAlreadyCompleted share: fixture o, which holds a result    *)
(* already, keeps fixture r from receiving one.  The day of r falls back   *)
(* to its round number, the day of o is its matchday column.               *)
SameMeetingAnyLeg(fmt, grp, r, o) ==     \* altered: the return leg is the same meeting
  Participants(r) = Participants(o)

SameMeeting(fmt, grp, r, o) ==
  LET leg == LegOf(fmt, grp, r, MatchdayOf(r)) IN
  IF leg # 0 THEN /\ Participants(r) = Participants(o)
                  /\ o.matchday \in 1 .. 2 * RoundsPerLeg(ScopeSize(grp, r.group))
                  /\ LegOf(fmt, grp, r, o.matchday) = leg
  ELSE IF HomeAway(fmt) THEN r.home = o.home /\ r.away = o.away
  ELSE Participants(r) = Participants(o)

SameDay(r, o) ==
  /\ MatchdayOf(r) # 0 /\ o.matchday = MatchdayOf(r)
  /\ Participants(r) \cap Participants(o) # {}

PairConflict(fmt, grp, r, o) ==
  /\ fmt.competition # "CUSTOM_MANUAL"
  /\ Resolved(r)
  /\ o.seq # r.seq
  /\ o.group = r.group
  /\ SameDay(r, o) \/ SameMeeting(fmt, grp, r, o)

-----------------------------------------------------------------------------
(* calculateResultDelta, applyStanding and the order of                    *)
(* getRoundRobinPlacement.  A counted result is a record                   *)
(* [match, home, away, score], its score the pair <<home goals, away>>.    *)
GoalsFor(e, x) == IF x.home = e THEN x.score[1] ELSE x.score[2]
GoalsAgainst(e, x) == IF x.home = e THEN x.score[2] ELSE x.score[1]

Points(e, x) ==
  IF GoalsFor(e, x) > GoalsAgainst(e, x) THEN 3
  ELSE IF GoalsFor(e, x) = GoalsAgainst(e, x) THEN 1 ELSE 0

(* The sort key of e's row: points, goal difference, goals for, wins. *)
TableRow(e, results) ==
  LET mine == {x \in results : e \in Participants(x)} IN
  << MapThenSumSet(LAMBDA x : Points(e, x), mine),
     MapThenSumSet(LAMBDA x : GoalsFor(e, x) - GoalsAgainst(e, x), mine),
     MapThenSumSet(LAMBDA x : GoalsFor(e, x), mine),
     Cardinality({x \in mine : Points(e, x) = 3}) >>

Ranked(results) == UNION {Participants(x) : x \in results}

Above(a, b) == \E i \in 1 .. 4 : a[i] > b[i] /\ \A j \in 1 .. i - 1 : a[j] = b[j]

(* The rows the query may return first: ties are in no particular order. *)
Leaders(results) ==
  {e \in Ranked(results) :
     \A o \in Ranked(results) : ~Above(TableRow(o, results), TableRow(e, results))}
=============================================================================
