------------------------------ MODULE Playoffs ------------------------------
(***************************************************************************)
(* A tournament from its league phase to the champion of its playoffs.     *)
(* playoffs.service draws the bracket in two steps: a request reads the    *)
(* setup and the tables and makes the plan, then one Serializable          *)
(* transaction checks again and writes it, as new fixtures or, reseeding,  *)
(* over the existing ones.  Meanwhile stage results are corrected and the  *)
(* playoff setup is saved.  The playoff fixtures are played in any order   *)
(* their sources allow and with any winners; how a winner gets into the    *)
(* next fixture, and is taken out by a correction, is in ResultLifecycle.  *)
(***************************************************************************)
EXTENDS PlayoffPlan, LeaguePhase

CONSTANTS
  Formats,      \* playoff formats
  Sizes,        \* numbers of qualified entries
  GroupCounts,  \* numbers of groups a protected bracket is drawn from
  CupSizes,     \* numbers of teams of a cup with a league phase
  MaxRevisions  \* bound: corrections and reversals of stage results

ASSUME SizesAssumption ==
  Sizes \cup CupSizes \subseteq Nat \ {0, 1} /\ GroupCounts \subseteq Nat \ {0}

VARIABLES
  source,    \* Tournament.playoffSource, resolved
  format,    \* Tournament.playoffFormat
  groups,    \* the groups whose tables give the seeds in turn; 1: one table does
  teams,     \* teams of the league phase; 0 without
  stage,     \* the fixtures of the league phase; {} before they are generated
  finished,  \* every fixture of the stage is COMPLETED
  ranking,   \* the approved entries by seed, as the tables have them now
  revisions, \* corrections and reversals so far
  request,   \* a request of generatePlayoffs in flight: what it has read
  saving,    \* a request of updateQualificationSettings in flight
  drawn,     \* the format and seeds the bracket was last made of
  plan,      \* the playoff fixtures; {} before they are generated
  winners    \* what came of those played: pairs of fixture and winner, loser

tournament == << source, groups, teams >>
tables == << stage, finished, ranking, revisions >>
bracket == << drawn, plan, winners >>
vars == << tournament, tables, bracket, format, request, saving >>

None == [kind |-> "NONE"]

Played(key) == \E w \in winners : w.key = key
Outcome(key) == CHOOSE w \in winners : w.key = key

(* The entry at a side: nobody while its source has no result. *)
Entrant(side) ==
  CASE side.from = "ENTRY" -> side.entry
    [] side.from = "WINNER" -> IF Played(side.of) THEN Outcome(side.of).winner ELSE Bye
    [] side.from = "LOSER" -> IF Played(side.of) THEN Outcome(side.of).loser ELSE Bye

Pair(f) == {Entrant(f.home), Entrant(f.away)}
Open == {f \in plan : ~Played(f.key)}
Playable == {f \in Open : Bye \notin Pair(f)}
Final == CHOOSE f \in plan : \A o \in plan : o.round <= f.round
Drawn(fixtures) == {side.entry : side \in {f.home : f \in {x \in fixtures : x.home.from = "ENTRY"}}
                                    \cup {f.away : f \in {x \in fixtures : x.away.from = "ENTRY"}}}

(* buildQualification: the best of the table; all of those a protected     *)
(* bracket takes from the groups.                                          *)
Qualifiers == IF teams > 0 THEN AutomaticQualifiers(teams) ELSE Len(ranking)
Seeds(order) == SubSeq(order, 1, Qualifiers)

-----------------------------------------------------------------------------
Init ==
  /\ format \in Formats
  /\ \/ /\ source = "DIRECT_ENTRIES"
        /\ \E n \in Sizes : ranking = [i \in 1 .. n |-> i]
        /\ teams = 0 /\ groups = 1 /\ finished = TRUE
     \/ /\ source = "GROUP_QUALIFIERS"
        /\ \E n \in Sizes : ranking = [i \in 1 .. n |-> i]
        /\ groups \in IF format = "PROTECTED_SEED" THEN GroupCounts ELSE {1}
        /\ Len(ranking) % groups = 0
        /\ teams = 0 /\ finished = FALSE
     \/ /\ source = "OVERALL_STANDINGS"
        /\ teams \in CupSizes
        /\ ranking = [i \in 1 .. teams |-> i]
        /\ groups = 1 /\ finished = FALSE
  /\ format = "DOUBLE_CHANCE" => Qualifiers >= 3
  /\ stage = {} /\ plan = {} /\ winners = {} /\ revisions = 0
  /\ request = None /\ saving = None /\ drawn = None

generateFixtures ==
  /\ teams > 0
  /\ stage = {}
  /\ stage' = LeagueFixtures(teams)
  /\ UNCHANGED << tournament, bracket, format, request, saving, finished, ranking, revisions >>

(* Two neighbours of one table change places: of a group, or of the whole. *)
Revised(order) ==
  {order} \cup {[order EXCEPT ![i] = order[i + groups], ![i + groups] = order[i]] :
                  i \in 1 .. Len(order) - groups}

(* The last result of the stage is confirmed: it may change the tables.    *)
FinishStage ==
  /\ ~finished
  /\ teams > 0 => stage # {}
  /\ finished' = TRUE
  /\ ranking' \in IF revisions = 0 THEN {ranking} ELSE Revised(ranking)
  /\ UNCHANGED << tournament, bracket, format, request, saving, stage, revisions >>

(* A stage result is corrected or reversed, playoffs or not. *)
ReviseStage ==
  /\ source # "DIRECT_ENTRIES"
  /\ finished
  /\ revisions < MaxRevisions
  /\ revisions' = revisions + 1
  /\ \/ finished' = FALSE /\ UNCHANGED ranking
     \/ ranking' \in Revised(ranking) \ {ranking} /\ UNCHANGED finished
  /\ UNCHANGED << tournament, bracket, format, request, saving, stage >>

(* updateQualificationSettings: checks that there is no bracket ... *)
CheckFormat ==
  /\ saving = None
  /\ source = "DIRECT_ENTRIES"
  /\ plan = {}
  /\ \E f \in Formats \ {format} :
       /\ f = "DOUBLE_CHANCE" => Qualifiers >= 3
       /\ saving' = [kind |-> "FORMAT", format |-> f]
  /\ UNCHANGED << tournament, tables, bracket, format, request >>

(* ... and saves the format without looking again. *)
SaveFormat ==
  /\ saving # None
  /\ format' = saving.format
  /\ saving' = None
  /\ UNCHANGED << tournament, tables, bracket, request >>

(* generatePlayoffs up to its transaction.  Fixtures that exist are only   *)
(* refused here for a first generation.                                    *)
ReadTables(kind) ==
  /\ request = None
  /\ finished
  /\ kind = "GENERATE" => plan = {}
  /\ request' = [kind |-> kind, format |-> format, ranking |-> ranking]
  /\ UNCHANGED << tournament, tables, bracket, format, saving >>

(* Altered: the existing bracket is rewritten whatever was played in it.   *)
RewritablePlayed(fixtures) ==
  Cardinality(plan) = Cardinality(fixtures) /\ Drawn(plan) = Drawn(fixtures)

(* reseedExisting: as many fixtures, nothing going on in them, and the     *)
(* same entries.                                                           *)
Rewritable(fixtures) ==
  /\ Cardinality(plan) = Cardinality(fixtures)
  /\ winners = {}
  /\ Drawn(plan) = Drawn(fixtures)

(* Altered: the tables are not compared with those that were read. *)
StillCurrentUnchecked(read) == TRUE

(* The transaction's second look: the same tables, the stage complete. *)
StillCurrent(read) == read.ranking = ranking /\ finished

Writable(read) ==
  /\ StillCurrent(read)
  /\ IF read.kind = "GENERATE" THEN plan = {}
     ELSE Rewritable(Plan(read.format, Seeds(read.ranking)))

WriteBracket ==
  /\ request # None
  /\ Writable(request)
  /\ drawn' = [kind |-> "DRAWN", format |-> request.format, seeds |-> Seeds(request.ranking)]
  /\ plan' = Plan(request.format, Seeds(request.ranking))
  /\ request' = None
  /\ UNCHANGED << tournament, tables, format, saving, winners >>

Refuse ==
  /\ request # None
  /\ ~Writable(request)
  /\ request' = None
  /\ UNCHANGED << tournament, tables, bracket, format, saving >>

Play(f, winner) ==
  /\ winners' = winners \cup
       {[key |-> f.key, winner |-> winner, loser |-> CHOOSE e \in Pair(f) : e # winner]}
  /\ UNCHANGED << tournament, tables, format, request, saving, drawn, plan >>

Champion ==
  /\ plan # {}
  /\ Open = {}
  /\ UNCHANGED vars

Next ==
  \/ generateFixtures
  \/ FinishStage
  \/ ReviseStage
  \/ CheckFormat
  \/ SaveFormat
  \/ \E kind \in {"GENERATE", "RESEED"} : ReadTables(kind)
  \/ WriteBracket
  \/ Refuse
  \/ \E f \in Playable : \E winner \in Pair(f) : Play(f, winner)
  \/ Champion

Spec == Init /\ [][Next]_vars

-----------------------------------------------------------------------------
Entries == Range(drawn.seeds)
SeedOf(e) == CHOOSE i \in DOMAIN drawn.seeds : drawn.seeds[i] = e
Losses(e) == Cardinality({w \in winners : w.loser = e})
(* Losing a qualifying final is the loss an elite entry may have. *)
Forgiven(e) == Cardinality({w \in winners : w.loser = e /\ w.key.prefix = "QUALIFYING"})
Alive == {e \in Entries : Losses(e) = Forgiven(e)}
Waiting(e) == {f \in Open : e \in Pair(f)}

(* Nobody is lost or played twice, however the bracket was drawn, reseeded *)
(* and played: until the last fixture is played every entry that is not    *)
(* knocked out has exactly one fixture ahead of it, and one that is        *)
(* knocked out has none; then a single entry is left.                      *)
EveryEntryHasItsFixture ==
  plan # {} =>
    IF Open = {} THEN Alive = {Outcome(Final.key).winner}
    ELSE \A e \in Entries : Cardinality(Waiting(e)) = IF e \in Alive THEN 1 ELSE 0

(* Whatever the results, two of the best 2^k seeds of a seeded bracket     *)
(* cannot meet with more than k rounds to go, so the first two meet in the *)
(* final at the earliest; and two entries of one group do not meet in its  *)
(* first round (with an odd number of groups they may: see the README).    *)
FavouritesApart ==
  plan # {} /\ drawn.format # "DOUBLE_CHANCE" =>
    LET rounds == BracketRounds(Len(drawn.seeds)) IN
    /\ \A f \in Playable : \A k \in 1 .. rounds :
         (\A e \in Pair(f) : SeedOf(e) <= 2^k) => f.round > rounds - k
    /\ groups % 2 = 0 =>
         \A f \in plan : f.round = 1 => GroupOf(f.home.entry, groups) # GroupOf(f.away.entry, groups)

(* In a double chance whoever meets again meets in the final: the loser of *)
(* a qualifying final comes back on the other side of the bracket.         *)
RematchOnlyInFinal ==
  plan # {} /\ drawn.format = "DOUBLE_CHANCE" =>
    \A f \in Playable : f # Final => \A w \in winners : {w.winner, w.loser} # Pair(f)

(* The bracket written is that of the tables and the format at that        *)
(* moment: a correction between a request's reading and its writing makes  *)
(* it fail.  (The format is read once only: see the README.)               *)
DrawnAsRanked ==
  [][plan' # plan => drawn'.seeds = Seeds(ranking) /\ finished]_vars

(* The league phase is fair: every team has the same number of matches, no *)
(* two teams meet twice and nobody plays twice on a matchday.  With an odd *)
(* number of teams everybody is at home as often as away; with an even one *)
(* the two differ by at most two (the unit test claims one: see the        *)
(* README).                                                                *)
LeaguePhaseFair ==
  stage # {} =>
    /\ \A t \in 0 .. teams - 1 : Cardinality(Of(stage, t)) = Degree(teams)
    /\ Cardinality({{f.home, f.away} : f \in stage}) = Cardinality(stage)
    /\ \A f, g \in stage :
         f # g /\ f.matchday = g.matchday => {f.home, f.away} \cap {g.home, g.away} = {}
    /\ \A t \in 0 .. teams - 1 :
         HomeMinusAway(stage, t) \in IF teams % 2 = 1 THEN {0} ELSE -2 .. 2
=============================================================================
