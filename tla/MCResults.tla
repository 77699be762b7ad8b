------------------------------ MODULE MCResults ------------------------------
(***************************************************************************)
(* Small tournaments for ResultLifecycle, each as the generators of the    *)
(* code lay it out.                                                        *)
(***************************************************************************)
EXTENDS ResultRefinement, TLC

CONSTANTS a, b, c, s1, s2, s3, s4, s5

Fixture(phase, matchday, round, home, away) ==
  [phase |-> phase, group |-> NoGroup, matchday |-> matchday,
   round |-> round, home |-> home, away |-> away]

Nowhere == [WINNER |-> NoTarget, LOSER |-> NoTarget]
WinnerTo(f, side) == [WINNER |-> <<f, side>>, LOSER |-> NoTarget]

TwoEntries == (a :> NoGroup @@ b :> NoGroup)
ThreeEntries == (c :> NoGroup) @@ TwoEntries

League == [format |-> "ROUND_ROBIN", competition |-> "LEAGUE_ROUND_ROBIN",
           leg |-> "SINGLE_LEG", groups |-> FALSE]
TwoLegs == [League EXCEPT !.competition = "DOUBLE_ROUND_ROBIN"]
Elimination == [League EXCEPT !.format = "KNOCKOUT", !.competition = "SINGLE_ELIMINATION"]

(* generateDoubleRoundRobinFixtures for two entries: a match and its return. *)
TwoLegsPlan == << Fixture("STAGE", 1, 1, a, b), Fixture("STAGE", 2, 2, b, a) >>
StageOnly(n) == [f \in 1 .. n |-> Nowhere]

(* doubleChancePlan for three seeds: qualifying final, second chance, final. *)
DoublePlan == << Fixture("PLAYOFF", 0, 1, a, b), Fixture("PLAYOFF", 0, 2, NoEntry, c),
                 Fixture("PLAYOFF", 0, 3, NoEntry, NoEntry) >>
DoubleProgression == << [WINNER |-> <<3, "HOME">>, LOSER |-> <<2, "HOME">>],
                        WinnerTo(3, "AWAY"), Nowhere >>

TwoFixtures == 1 .. 2
ThreeFixtures == 1 .. 3
HomeOrAway == {<<1, 0>>, <<0, 1>>}
HomeAwayOrDraw == HomeOrAway \cup {<<1, 1>>}

StageOnlyTwo == StageOnly(2)

(* The plans of the runs are what the theorems take for granted. *)
ASSUME PlansAreProper == ProperStage /\ BracketTold /\ DecidesChampion

SubmissionSymmetry == Permutations(Submissions)
=============================================================================
