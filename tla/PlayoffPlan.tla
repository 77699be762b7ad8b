----------------------------- MODULE PlayoffPlan -----------------------------
(***************************************************************************)
(* The playoff brackets: seeding (playoff-seeding.ts), the three playoff   *)
(* formats (universal-playoff-engine.ts) and the knockout rounds           *)
(* (fixture-engine.ts).  Entries are named by their rank: entry 1 is the   *)
(* best.  A fixture has a key, its round and the source of either side: an *)
(* entry, or the winner or loser of an earlier fixture.                    *)
(***************************************************************************)
EXTENDS Integers, FiniteSets, Sequences

Bye == 0
Seed(e) == [from |-> "ENTRY", entry |-> e]
Winner(key) == [from |-> "WINNER", of |-> key]
Loser(key) == [from |-> "LOSER", of |-> key]
Fixture(key, home, away) == [key |-> key, round |-> key.round, home |-> home, away |-> away]
Key(prefix, round, position) == [prefix |-> prefix, round |-> round, position |-> position]

(* The least k with 2^k >= n: nextPowerOfTwo, and the rounds of a bracket. *)
BracketRounds(n) == CHOOSE k \in 0 .. n : 2^k >= n /\ \A j \in 0 .. k - 1 : 2^j < n

(* Altered: the next branches are filled from the top. *)
BranchesInOrder(k) == [i \in 1 .. 2^k |-> i]

(* seededBranchNumbers: each doubling puts seed and size + 1 - seed where  *)
(* seed was, so that the best are spread over the branches.                *)
Branches(k) ==
  LET branches[j \in Nat] ==
        IF j = 0 THEN << 1 >>
        ELSE LET seeds == branches[j - 1]
             IN  [i \in 1 .. 2^j |-> IF i % 2 = 1 THEN seeds[(i + 1) \div 2]
                                     ELSE 2^j + 1 - seeds[i \div 2]]
  IN  branches[k]

(* buildSeededBracketPlan, and the bracketSlots of buildPlayoffSeedPlan:   *)
(* the last doubling is the first round, in which seed meets size + 1 -    *)
(* seed, or has a bye when there is none.                                  *)
SeededSlots(order) ==
  LET seeds == Branches(BracketRounds(Len(order)))
  IN  [i \in DOMAIN seeds |-> IF seeds[i] <= Len(order) THEN order[seeds[i]] ELSE Bye]

HasBye(slots, b) == Bye \in {slots[2 * b - 1], slots[2 * b]}

(* generateKnockoutFixtures: who comes out of position b of a round. *)
Advancer(prefix, slots, round, b) ==
  IF round = 1 /\ HasBye(slots, b)
  THEN Seed(slots[IF slots[2 * b - 1] = Bye THEN 2 * b ELSE 2 * b - 1])
  ELSE Winner(Key(prefix, round, b))

Knockout(prefix, slots) ==
  LET rounds == BracketRounds(Len(slots)) IN
  {Fixture(Key(prefix, 1, b), Seed(slots[2 * b - 1]), Seed(slots[2 * b])) :
     b \in {b \in 1 .. 2^(rounds - 1) : ~HasBye(slots, b)}}
  \cup UNION {{Fixture(Key(prefix, r, b), Advancer(prefix, slots, r - 1, 2 * b - 1),
                                          Advancer(prefix, slots, r - 1, 2 * b)) :
                 b \in 1 .. 2^(rounds - r)} : r \in 2 .. rounds}

-----------------------------------------------------------------------------
(* doubleChancePlan *)
EliteCount(n) == IF n >= 8 THEN 4 ELSE 2

LowerPath == << "LOWER1", "LOWER2" >>

(* splitLowerSeeds: dealt out to the branches in turn. *)
LowerBranch(order, i) ==
  LET elite == EliteCount(Len(order))
      branches == elite \div 2
  IN [j \in 1 .. (Len(order) - elite - i + branches) \div branches |->
       order[elite + i + (j - 1) * branches]]

LowerFixtures(order, i) ==
  IF Len(LowerBranch(order, i)) = 1 THEN {}
  ELSE Knockout(LowerPath[i], SeededSlots(LowerBranch(order, i)))

LowerSurvivor(order, i) ==
  LET branch == LowerBranch(order, i)
  IN IF Len(branch) = 1 THEN Seed(branch[1])
     ELSE Winner(Key(LowerPath[i], BracketRounds(Len(branch)), 1))

(* Altered: the winner of a second chance goes to the semifinal of the     *)
(* qualifying final its opponent came from.                                *)
SemifinalOfSameSide(i) == i

(* The semifinal a winner of second chance i goes to, crossed over. *)
SemifinalOfSecondChance(i) == 3 - i

DoubleChance(order) ==
  LET elite == EliteCount(Len(order))
      pairs == 1 .. elite \div 2
      lower == UNION {LowerFixtures(order, i) : i \in pairs}
      first == IF lower = {} THEN 1
               ELSE CHOOSE r \in {f.round : f \in lower} : \A f \in lower : f.round <= r
      Qualifying(i) == Key("QUALIFYING", first, i)
      Second(i) == Key("SECOND", first + 1, i)
      Semifinal(i) == Key("SEMI", first + 2, i)
      FromSecond(i) == CHOOSE j \in pairs : SemifinalOfSecondChance(j) = i
  IN lower
     \cup {Fixture(Qualifying(i), Seed(order[i]), Seed(order[elite + 1 - i])) : i \in pairs}
     \cup {Fixture(Second(i), Loser(Qualifying(i)), LowerSurvivor(order, i)) : i \in pairs}
     \cup IF elite = 2
          THEN {Fixture(Key("FINAL", first + 2, 1), Winner(Qualifying(1)), Winner(Second(1)))}
          ELSE {Fixture(Semifinal(i), Winner(Qualifying(i)), Winner(Second(FromSecond(i)))) :
                  i \in pairs}
               \cup {Fixture(Key("FINAL", first + 3, 1), Winner(Semifinal(1)),
                                                         Winner(Semifinal(2)))}

(* buildUniversalPlayoffPlan; the ranks of the groups of a protected       *)
(* bracket take the same slots.                                            *)
Plan(format, order) ==
  IF format = "DOUBLE_CHANCE" THEN DoubleChance(order) ELSE Knockout("ko", SeededSlots(order))

-----------------------------------------------------------------------------
(* buildPlayoffSeedPlan, from the number of groups and of qualifiers: all  *)
(* winners in the order of the groups, then all seconds, and so on.  The   *)
(* group of the entry of each rank follows.                                *)
GroupOf(rank, groups) == ((rank - 1) % groups) + 1
=============================================================================
