---------------------------- MODULE LeaguePhase ----------------------------
(***************************************************************************)
(* elite-cup-engine: the league phase of an Elite or UCL cup, in which     *)
(* every team plays the same number of others once, and how many go on to  *)
(* the playoffs.  Teams are their places 0 .. n - 1 in the list.           *)
(***************************************************************************)
EXTENDS FixtureGenerator, FiniteSets, FiniteSetsExt, Functions

(* The matches a team is asked to play: fixtures.service, generateFixtures. *)
Requested(n) == Min({8, n - 1})

(* effectiveDegree: an odd number of teams cannot all play an odd number. *)
Degree(n) == IF n % 2 = 1 /\ Requested(n) % 2 = 1 THEN Requested(n) + 1 ELSE Requested(n)

(* generatePairings: for an even number of teams the first rounds of the   *)
(* circle method; for an odd one everybody against the team `round' places *)
(* on.                                                                     *)
Pairings(n) ==
  LET perRound == IF n % 2 = 0 THEN n \div 2 ELSE n
      rounds == IF n % 2 = 0 THEN Degree(n) ELSE Degree(n) \div 2
      pairing(r, k) == [round |-> r + 1, position |-> k + 1,
        left |-> IF n % 2 = 0 THEN Slot(n - 1, r, k) ELSE k,
        right |-> IF n % 2 = 0 THEN Slot(n - 1, r, n - 1 - k) ELSE (k + r + 1) % n]
  IN [i \in 1 .. rounds * perRound |-> pairing((i - 1) \div perRound, (i - 1) % perRound)]

Of(fixtures, team) == {f \in fixtures : team \in {f.home, f.away}}
HomeMinusAway(fixtures, team) ==
  Cardinality({f \in fixtures : f.home = team}) - Cardinality({f \in fixtures : f.away = team})

(* Altered: the matchday of a pairing is its round. *)
MatchdayOfRound(fixtures, p) == p.round

(* The first matchday from the round of the pairing on that has neither of *)
(* its teams.                                                              *)
FreeMatchday(fixtures, p) ==
  LET taken == {f.matchday : f \in Of(fixtures, p.left) \cup Of(fixtures, p.right)}
  IN Min((p.round .. p.round + Cardinality(taken)) \ taken)

(* orientationCost *)
Cost(home, away) == LET Size(x) == IF x < 0 THEN -x ELSE x
                    IN Size(home + 1) + Size(away - 1)

LeftIsHome(fixtures, n, p) ==
  LET left == HomeMinusAway(fixtures, p.left)
      right == HomeMinusAway(fixtures, p.right)
  IN \/ n % 2 = 1
     \/ Cost(left, right) < Cost(right, left)
     \/ Cost(left, right) = Cost(right, left) /\ (p.round + p.position) % 2 = 0

(* One pairing more, on its first free matchday and with its sides chosen.  *)
Scheduled(fixtures, n, p) ==
  LET home == IF LeftIsHome(fixtures, n, p) THEN p.left ELSE p.right
  IN fixtures \cup {[matchday |-> FreeMatchday(fixtures, p), home |-> home,
                     away |-> IF home = p.left THEN p.right ELSE p.left]}

(* generateEliteCupSchedule: pairing by pairing. *)
LeagueFixtures(n) ==
  LET pairings == Pairings(n)
      fixtures[i \in 0 .. Len(pairings)] ==
        IF i = 0 THEN {} ELSE Scheduled(fixtures[i - 1], n, pairings[i])
  IN  fixtures[Len(pairings)]

(* resolveEliteCupPlayoffQualifierCount without an override *)
AutomaticQualifiers(n) ==
  IF n <= 3 THEN n ELSE Max({q \in {2, 4, 8, 16} : q <= n})
=============================================================================
