--------------------------- MODULE Playoffs_proofs ---------------------------
(***************************************************************************)
(* Playoffs of every size: any numbers of entries, groups, teams and       *)
(* revisions.  First that the plans are proper (each entry and each        *)
(* advancer at one side of a later fixture) and keep what their format     *)
(* promises, then that drawing, reseeding and playing keep a bracket sound,*)
(* and last that a league phase is fair.                                   *)
(***************************************************************************)
EXTENDS Playoffs, FixtureGenerator_proofs, FiniteSetTheorems, FunctionTheorems, WellFoundedInduction, TLAPS

-----------------------------------------------------------------------------
(* Powers of two, rounds and branches. *)

(* The powers of two. *)
LEMMA DoublingPower ==
  ASSUME NEW k \in Nat
  PROVE  2^k \in Nat /\ 2^(k + 1) = 2 * 2^k
<1> DEFINE S == 1 .. k
           x == k + 1
           with == {T \cup {x} : T \in SUBSET S}
           add == [T \in SUBSET S |-> T \cup {x}]
<1>1. IsFiniteSet(S) /\ Cardinality(S) = k
  BY FS_Interval
<1>2. IsFiniteSet(SUBSET S) /\ Cardinality(SUBSET S) = 2^k
  BY <1>1, FS_SUBSET
<1>3. 1 .. k + 1 = S \cup {x} /\ x \notin S
  OBVIOUS
<1>4. IsFiniteSet(1 .. k + 1) /\ Cardinality(1 .. k + 1) = k + 1
  BY FS_Interval
<1>5. IsFiniteSet(SUBSET (S \cup {x})) /\ Cardinality(SUBSET (S \cup {x})) = 2^(k + 1)
  BY <1>3, <1>4, FS_SUBSET
<1> HIDE DEF S, x
<1>6. add \in Bijection(SUBSET S, with)
  <2>1. add \in Surjection(SUBSET S, with)
    BY DEF Surjection
  <2>2. ASSUME NEW T \in SUBSET S, NEW U \in SUBSET S, add[T] = add[U] PROVE T = U
    <3>1. T \cup {x} = U \cup {x} /\ x \notin T /\ x \notin U
      BY <1>3, <2>2
    <3> QED BY <3>1
  <2> QED BY <2>1, <2>2 DEF Bijection, Injection, Surjection, IsInjective
<1>7. IsFiniteSet(with) /\ Cardinality(with) = 2^k /\ 2^k \in Nat
  BY <1>2, <1>6, FS_Bijection, FS_CardinalityType DEF ExistsBijection
<1>8. SUBSET (S \cup {x}) = (SUBSET S) \cup with
  <2>1. ASSUME NEW T \in SUBSET (S \cup {x}), x \in T PROVE T \in with
    <3>1. T \ {x} \in SUBSET S /\ T = (T \ {x}) \cup {x}
      BY <2>1
    <3> QED BY <3>1
  <2> QED BY <2>1
<1>9. (SUBSET S) \cap with = {}
  BY <1>3
<1>10. Cardinality((SUBSET S) \cup with) = 2^k + 2^k
  <2> HIDE DEF with
  <2>1. Cardinality((SUBSET S) \cup with) = 2^k + 2^k - Cardinality((SUBSET S) \cap with)
    BY <1>2, <1>7, FS_Union
  <2>2. Cardinality((SUBSET S) \cap with) = 0
    BY <1>9, FS_EmptySet
  <2> QED BY <1>7, <2>1, <2>2
<1>11. 2^(k + 1) = 2^k + 2^k
  BY <1>5, <1>8, <1>10
<1> QED BY <1>7, <1>11

LEMMA PowerZero == 2^0 = 1
BY FS_SUBSET, FS_EmptySet

(* A set of numbers has a least one: how the proofs below induct. *)
LEMMA LeastOf ==
  ASSUME NEW S, S \subseteq Nat, S # {}
  PROVE  \E m \in S : \A i \in S : m <= i
<1>1. IsWellFoundedOn(OpToRel(<, Nat), Nat)
  BY NatLessThanWellFounded
<1>2. PICK m \in S : \A i \in S : ~(<<i, m>> \in OpToRel(<, Nat))
  BY <1>1, WFMin
<1>3. ASSUME NEW i \in S PROVE m <= i
  <2>1. ~(i < m)
    BY <1>2 DEF OpToRel
  <2> QED BY <2>1
<1> QED BY <1>3

LEMMA PowerOrder ==
  ASSUME NEW j \in Nat, NEW k \in Nat, j < k
  PROVE  2 * 2^j <= 2^k
<1> DEFINE Bad == {m \in Nat : j < m /\ ~(2 * 2^j <= 2^m)}
<1>1. ASSUME Bad # {} PROVE FALSE
  <2>1. PICK m \in Bad : \A i \in Bad : m <= i
    BY <1>1, LeastOf
  <2>2. CASE m = j + 1
    BY <2>1, <2>2, DoublingPower
  <2>3. CASE m # j + 1
    <3>1. m - 1 \in Nat /\ j < m - 1 /\ m - 1 < m
      BY <2>1, <2>3
    <3>2. 2 * 2^j <= 2^(m - 1)
      BY <2>1, <3>1
    <3>3. 2^(m - 1) \in Nat /\ 2^((m - 1) + 1) = 2 * 2^(m - 1)
      BY <3>1, DoublingPower
    <3>4. (m - 1) + 1 = m
      BY <3>1
    <3> QED BY <2>1, <3>2, <3>3, <3>4, DoublingPower
  <2> QED BY <2>2, <2>3
<1> QED BY <1>1

LEMMA PowerAbove ==
  ASSUME NEW n \in Nat
  PROVE  2^n > n
<1> DEFINE Bad == {m \in Nat : ~(2^m > m)}
<1>1. ASSUME Bad # {} PROVE FALSE
  <2>1. PICK m \in Bad : \A i \in Bad : m <= i
    BY <1>1, LeastOf
  <2>2. CASE m = 0
    BY <2>1, <2>2, PowerZero
  <2>3. CASE m # 0
    <3>1. m - 1 \in Nat /\ (m - 1) + 1 = m
      BY <2>1, <2>3
    <3>2. 2^(m - 1) > m - 1
      BY <2>1, <3>1
    <3>3. 2^(m - 1) \in Nat /\ 2^((m - 1) + 1) = 2 * 2^(m - 1)
      BY <3>1, DoublingPower
    <3> QED BY <2>1, <3>1, <3>2, <3>3, DoublingPower
  <2> QED BY <2>2, <2>3
<1> QED BY <1>1

(* A bracket of so many rounds is large enough, and none of fewer is. *)
LEMMA RoundsOfBracket ==
  ASSUME NEW n \in Nat, n >= 1
  PROVE  /\ BracketRounds(n) \in Nat
         /\ n <= 2^BracketRounds(n)
         /\ \A j \in Nat : j < BracketRounds(n) => 2^j < n
<1> DEFINE K == BracketRounds(n)
           Enough == {k \in 0 .. n : 2^k >= n}
<1>1. PICK k \in Enough : \A i \in Enough : k <= i
  <2>1. n \in Enough /\ Enough \subseteq Nat
    BY PowerAbove, DoublingPower
  <2> HIDE DEF Enough
  <2> QED BY <2>1, LeastOf
<1>2. 2^k >= n /\ \A j \in 0 .. k - 1 : 2^j < n
  <2>1. ASSUME NEW j \in 0 .. k - 1 PROVE 2^j < n
    <3>1. j \in 0 .. n /\ j < k /\ j \in Nat
      BY <1>1
    <3>2. 2^j \in Nat /\ j \notin Enough
      BY <1>1, <3>1, DoublingPower
    <3> QED BY <3>1, <3>2
  <2> QED BY <1>1, <2>1
<1>3. K \in 0 .. n /\ 2^K >= n /\ \A j \in 0 .. K - 1 : 2^j < n
  BY <1>1, <1>2 DEF BracketRounds
<1>4. K \in Nat /\ 2^K \in Nat
  BY <1>3, DoublingPower
<1> HIDE DEF K
<1>5. n <= 2^K /\ \A j \in Nat : j < K => 2^j < n
  BY <1>3, <1>4
<1> QED BY <1>4, <1>5 DEF K

(* A bracket of a power of two has the rounds of that power. *)
LEMMA RoundsOfPower ==
  ASSUME NEW k \in Nat
  PROVE  BracketRounds(2^k) = k
<1> DEFINE K == BracketRounds(2^k)
<1>1. 2^k \in Nat /\ 2^k >= 1
  BY DoublingPower, PowerAbove
<1>2. K \in Nat /\ 2^k <= 2^K /\ \A j \in Nat : j < K => 2^j < 2^k
  BY <1>1, RoundsOfBracket
<1> HIDE DEF K
<1>3. ~(k < K)
  BY <1>1, <1>2
<1>4. ~(K < k)
  <2>1. 2^K \in Nat /\ 2^K >= 1
    BY <1>2, DoublingPower, PowerAbove
  <2> QED BY <1>1, <1>2, <2>1, PowerOrder
<1> QED BY <1>2, <1>3, <1>4 DEF K

-----------------------------------------------------------------------------
(* One doubling of the branches. *)
Doubled(seeds, j) ==
  [i \in 1 .. 2^j |-> IF i % 2 = 1 THEN seeds[(i + 1) \div 2]
                      ELSE 2^j + 1 - seeds[i \div 2]]

(* The branches up to the doubling m. *)
Doublings(g, m) ==
  g = [j \in 0 .. m |-> IF j = 0 THEN << 1 >> ELSE Doubled(g[j - 1], j)]

(* The recursive function of Branches exists and is the only one. *)
LEMMA DoublingsExist ==
  ASSUME NEW m \in Nat
  PROVE  \E g : Doublings(g, m)
<1> DEFINE Bad == {l \in Nat : ~ \E g : Doublings(g, l)}
<1>1. ASSUME Bad # {} PROVE FALSE
  <2>1. PICK l \in Bad : \A i \in Bad : l <= i
    BY <1>1, LeastOf
  <2>2. CASE l = 0
    <3> DEFINE h == [j \in 0 .. 0 |-> << 1 >>]
    <3>1. Doublings(h, 0)
      BY DEF Doublings
    <3> QED BY <2>1, <2>2, <3>1
  <2>3. CASE l # 0
    <3>1. l - 1 \in Nat /\ l - 1 < l
      BY <2>1, <2>3
    <3>2. PICK g : Doublings(g, l - 1)
      BY <2>1, <3>1
    <3> DEFINE h == [j \in 0 .. l |-> IF j < l THEN g[j] ELSE Doubled(g[l - 1], l)]
    <3>3. ASSUME NEW j \in 0 .. l
          PROVE  h[j] = IF j = 0 THEN << 1 >> ELSE Doubled(h[j - 1], j)
      <4>1. CASE j = l
        <5>1. h[j] = Doubled(g[l - 1], l) /\ h[j - 1] = g[l - 1]
          BY <2>1, <2>3, <4>1
        <5> QED BY <2>3, <4>1, <5>1
      <4>2. CASE j < l
        <5>1. j \in 0 .. l - 1 /\ h[j] = g[j]
          BY <2>1, <4>2
        <5>2. g[j] = IF j = 0 THEN << 1 >> ELSE Doubled(g[j - 1], j)
          BY <3>2, <5>1 DEF Doublings
        <5>3. j # 0 => h[j - 1] = g[j - 1]
          BY <2>1, <4>2
        <5> QED BY <5>1, <5>2, <5>3
      <4> QED BY <2>1, <4>1, <4>2
    <3>4. Doublings(h, l)
      <4>1. h = [j \in 0 .. l |-> h[j]]
        OBVIOUS
      <4> HIDE DEF h
      <4> QED BY <3>3, <4>1 DEF Doublings
    <3> QED BY <2>1, <3>4
  <2> QED BY <2>2, <2>3
<1> QED BY <1>1

LEMMA DoublingsAgree ==
  ASSUME NEW g, NEW h, NEW m \in Nat, NEW l \in Nat, Doublings(g, m), Doublings(h, l),
         NEW j \in Nat, j <= m, j <= l
  PROVE  g[j] = h[j]
<1> DEFINE Bad == {i \in Nat : i <= m /\ i <= l /\ g[i] # h[i]}
<1>1. ASSUME Bad # {} PROVE FALSE
  <2>1. PICK i \in Bad : \A o \in Bad : i <= o
    BY <1>1, LeastOf
  <2>2. /\ g[i] = IF i = 0 THEN << 1 >> ELSE Doubled(g[i - 1], i)
        /\ h[i] = IF i = 0 THEN << 1 >> ELSE Doubled(h[i - 1], i)
    BY <2>1 DEF Doublings
  <2>3. ASSUME i # 0 PROVE g[i - 1] = h[i - 1]
    <3>1. i - 1 \in Nat /\ i - 1 <= m /\ i - 1 <= l /\ ~(i <= i - 1)
      BY <2>1, <2>3
    <3> QED BY <2>1, <3>1
  <2> QED BY <2>1, <2>2, <2>3
<1> QED BY <1>1

(* Branches is what its recursion says. *)
LEMMA BranchesUnfold ==
  /\ Branches(0) = << 1 >>
  /\ \A k \in Nat : k # 0 => Branches(k) = Doubled(Branches(k - 1), k)
<1> DEFINE table(m) == CHOOSE g : Doublings(g, m)
           all == [j \in Nat |-> table(j)[j]]
           rec(g) == [j \in Nat |-> IF j = 0 THEN << 1 >> ELSE Doubled(g[j - 1], j)]
<1>1. \A m \in Nat : Doublings(table(m), m)
  BY DoublingsExist
<1> HIDE DEF table
<1>2. ASSUME NEW j \in Nat
      PROVE  all[j] = IF j = 0 THEN << 1 >> ELSE Doubled(all[j - 1], j)
  <2>1. table(j)[j] = IF j = 0 THEN << 1 >> ELSE Doubled(table(j)[j - 1], j)
    BY <1>1 DEF Doublings
  <2>2. ASSUME j # 0 PROVE table(j)[j - 1] = table(j - 1)[j - 1]
    <3>1. j - 1 \in Nat /\ j - 1 <= j /\ j - 1 <= j - 1
      BY <2>2
    <3> QED BY <1>1, <3>1, DoublingsAgree
  <2>3. j # 0 => all[j - 1] = table(j - 1)[j - 1]
    OBVIOUS
  <2> QED BY <2>1, <2>2, <2>3
<1>3. all = rec(all)
  <2>1. all = [j \in Nat |-> all[j]]
    OBVIOUS
  <2> HIDE DEF all
  <2> QED BY <1>2, <2>1
<1> DEFINE branches == CHOOSE g : g = rec(g)
<1>4. branches = rec(branches)
  <2> HIDE DEF all, rec
  <2> QED BY <1>3
<1>5. \A k : Branches(k) = branches[k]
  BY DEF Branches, Doubled
<1>6. \A j \in Nat : branches[j] = IF j = 0 THEN << 1 >> ELSE Doubled(branches[j - 1], j)
  <2> HIDE DEF branches
  <2> QED BY <1>4
<1> HIDE DEF branches
<1> QED BY <1>5, <1>6

(* Where a doubling puts the seeds. *)
LEMMA DoubledAt ==
  ASSUME NEW k \in Nat, k # 0, NEW b \in 1 .. 2^(k - 1)
  PROVE  /\ 2 * b - 1 \in 1 .. 2^k /\ 2 * b \in 1 .. 2^k
         /\ Branches(k)[2 * b - 1] = Branches(k - 1)[b]
         /\ Branches(k)[2 * b] = 2^k + 1 - Branches(k - 1)[b]
<1>1. k - 1 \in Nat /\ (k - 1) + 1 = k
  OBVIOUS
<1>2. 2^(k - 1) \in Nat /\ 2^k = 2 * 2^(k - 1) /\ b \in Nat /\ b >= 1 /\ b <= 2^(k - 1)
  BY <1>1, DoublingPower
<1>3. 2 * b - 1 \in 1 .. 2^k /\ 2 * b \in 1 .. 2^k
  BY <1>2
<1>4. /\ (2 * b - 1) % 2 = 1 /\ ((2 * b - 1) + 1) \div 2 = b
      /\ (2 * b) % 2 = 0 /\ (2 * b) \div 2 = b
  BY <1>2
<1>5. Branches(k) = Doubled(Branches(k - 1), k)
  BY BranchesUnfold
<1> QED BY <1>3, <1>4, <1>5 DEF Doubled

(* The two places a doubling makes of a branch are the ones there are. *)
LEMMA Halves ==
  ASSUME NEW k \in Nat, k # 0, NEW i \in 1 .. 2^k
  PROVE  \E b \in 1 .. 2^(k - 1) : i = 2 * b - 1 \/ i = 2 * b
<1>1. k - 1 \in Nat /\ (k - 1) + 1 = k
  OBVIOUS
<1>2. 2^(k - 1) \in Nat /\ 2^k = 2 * 2^(k - 1)
  BY <1>1, DoublingPower
<1>3. (i + 1) \div 2 \in 1 .. 2^(k - 1) /\ (i = 2 * ((i + 1) \div 2) - 1 \/ i = 2 * ((i + 1) \div 2))
  BY <1>2
<1> QED BY <1>3

(* The branches are the seeds, each once. *)
LEMMA BranchesPermute ==
  ASSUME NEW k \in Nat
  PROVE  /\ Branches(k) \in [1 .. 2^k -> 1 .. 2^k]
         /\ \A i, j \in 1 .. 2^k : Branches(k)[i] = Branches(k)[j] => i = j
         /\ \A s \in 1 .. 2^k : \E i \in 1 .. 2^k : Branches(k)[i] = s
<1> DEFINE Good(m) == /\ Branches(m) \in [1 .. 2^m -> 1 .. 2^m]
                      /\ \A i, j \in 1 .. 2^m : Branches(m)[i] = Branches(m)[j] => i = j
                      /\ \A s \in 1 .. 2^m : \E i \in 1 .. 2^m : Branches(m)[i] = s
           Bad == {m \in Nat : ~Good(m)}
<1>1. Good(0)
  BY PowerZero, BranchesUnfold
<1>2. ASSUME NEW m \in Nat, m # 0, Good(m - 1) PROVE Good(m)
  <2> DEFINE P == 2^m
             H == 2^(m - 1)
             new == Branches(m)
             old == Branches(m - 1)
  <2>1. m - 1 \in Nat /\ (m - 1) + 1 = m
    BY <1>2
  <2>2. H \in Nat /\ P = 2 * H /\ P \in Nat
    BY <2>1, DoublingPower
  <2>3. \A b \in 1 .. H : /\ 2 * b - 1 \in 1 .. P /\ 2 * b \in 1 .. P
                          /\ new[2 * b - 1] = old[b] /\ new[2 * b] = P + 1 - old[b]
    BY <1>2, DoubledAt
  <2>4. \A i \in 1 .. P : \E b \in 1 .. H : i = 2 * b - 1 \/ i = 2 * b
    BY <1>2, Halves
  <2>5. new = [i \in 1 .. P |-> new[i]]
    BY <1>2, BranchesUnfold DEF Doubled
  <2>6. /\ old \in [1 .. H -> 1 .. H]
        /\ \A i, j \in 1 .. H : old[i] = old[j] => i = j
        /\ \A s \in 1 .. H : \E i \in 1 .. H : old[i] = s
    BY <1>2
  <2> HIDE DEF P, H, new, old
  <2>7. \A b \in 1 .. H : old[b] \in Nat /\ 1 <= old[b] /\ old[b] <= H
    BY <2>2, <2>6
  <2>8. new \in [1 .. P -> 1 .. P]
    <3>1. ASSUME NEW i \in 1 .. P PROVE new[i] \in 1 .. P
      <4>1. PICK b \in 1 .. H : i = 2 * b - 1 \/ i = 2 * b
        BY <2>4
      <4>2. new[i] = old[b] \/ new[i] = P + 1 - old[b]
        BY <2>3, <4>1
      <4> QED BY <2>2, <2>7, <4>2
    <3> QED BY <2>5, <3>1
  <2>9. ASSUME NEW i \in 1 .. P, NEW j \in 1 .. P, new[i] = new[j] PROVE i = j
    <3>1. PICK b \in 1 .. H : i = 2 * b - 1 \/ i = 2 * b
      BY <2>4
    <3>2. PICK d \in 1 .. H : j = 2 * d - 1 \/ j = 2 * d
      BY <2>4
    <3>3. /\ (i = 2 * b - 1 /\ new[i] = old[b]) \/ (i = 2 * b /\ new[i] = P + 1 - old[b])
          /\ (j = 2 * d - 1 /\ new[j] = old[d]) \/ (j = 2 * d /\ new[j] = P + 1 - old[d])
      BY <2>3, <3>1, <3>2
    <3>4. old[b] = old[d] => b = d
      BY <2>6
    <3>5. /\ old[b] \in Nat /\ 1 <= old[b] /\ old[b] <= H
          /\ old[d] \in Nat /\ 1 <= old[d] /\ old[d] <= H
      BY <2>7
    <3> QED BY <2>2, <2>9, <3>3, <3>4, <3>5
  <2>10. ASSUME NEW s \in 1 .. P PROVE \E i \in 1 .. P : new[i] = s
    <3>1. CASE s <= H
      <4>1. PICK b \in 1 .. H : old[b] = s
        BY <2>2, <2>6, <3>1
      <4> QED BY <2>3, <4>1
    <3>2. CASE ~(s <= H)
      <4>1. P + 1 - s \in 1 .. H
        BY <2>2, <3>2
      <4>2. PICK b \in 1 .. H : old[b] = P + 1 - s
        BY <2>6, <4>1
      <4>3. P + 1 - old[b] = s
        BY <2>2, <4>2
      <4> QED BY <2>3, <4>3
    <3> QED BY <3>1, <3>2
  <2> QED BY <2>8, <2>9, <2>10 DEF P, new
<1> HIDE DEF Good
<1>3. ASSUME Bad # {} PROVE FALSE
  <2>1. PICK m \in Bad : \A i \in Bad : m <= i
    BY <1>3, LeastOf
  <2>2. m # 0
    BY <1>1, <2>1
  <2>3. m - 1 \in Nat /\ ~(m <= m - 1)
    BY <2>1, <2>2
  <2>4. Good(m - 1)
    BY <2>1, <2>3
  <2> QED BY <1>2, <2>1, <2>2, <2>4
<1>4. Good(k)
  BY <1>3
<1> QED BY <1>4 DEF Good

-----------------------------------------------------------------------------
(* Plans: what a proper one is, and that a knockout is one. *)

(* The sources of the sides of a fixture. *)
Side == {1, 2}
SourceAt(f, s) == IF s = 1 THEN f.home ELSE f.away

(* What a side can wait for: the entries, the winners of all fixtures, and *)
(* the losers of qualifying finals.                                        *)
Sources(fixtures, entries) ==
  {Seed(e) : e \in entries} \cup {Winner(f.key) : f \in fixtures}
  \cup {Loser(f.key) : f \in {g \in fixtures : g.key.prefix = "QUALIFYING"}}

(* A part of a plan: each of the sources is waited for at one side of one  *)
(* fixture, of a later round, except for those left.                       *)
PartialPlan(fixtures, entries, left) ==
  /\ IsFiniteSet(fixtures)
  /\ left \subseteq Sources(fixtures, entries)
  /\ \A f \in fixtures : f.round = f.key.round /\ f.round \in Nat
  /\ \A f, g \in fixtures : f.key = g.key => f = g
  /\ \A f, g \in fixtures : \A s, t \in Side : SourceAt(f, s) = SourceAt(g, t) => f = g /\ s = t
  /\ \A f \in fixtures : \A s \in Side : SourceAt(f, s) \in Sources(fixtures, entries) \ left
  /\ \A o \in Sources(fixtures, entries) \ left : \E f \in fixtures : \E s \in Side : SourceAt(f, s) = o
  /\ \A f, g \in fixtures : \A s \in Side :
       SourceAt(f, s) \in {Winner(g.key), Loser(g.key)} => g.round < f.round

(* A whole plan: only the winner of the last fixture is left. *)
ProperPlan(fixtures, entries, last) ==
  /\ PartialPlan(fixtures, entries, {Winner(last.key)})
  /\ last \in fixtures /\ last.key.prefix # "QUALIFYING"
  /\ \A f \in fixtures : f # last => f.round < last.round

(* Two sources are the same only when they name the same. *)
LEMMA SourcesDiffer ==
  /\ \A e, d : Seed(e) = Seed(d) => e = d
  /\ \A k, l : Winner(k) = Winner(l) => k = l
  /\ \A k, l : Loser(k) = Loser(l) => k = l
  /\ \A e, k : Seed(e) # Winner(k) /\ Seed(e) # Loser(k)
  /\ \A k, l : Winner(k) # Loser(l)
<1>1. ASSUME NEW e, NEW d, Seed(e) = Seed(d) PROVE e = d
  <2>1. Seed(e).entry = e /\ Seed(d).entry = d
    BY DEF Seed
  <2> QED BY <1>1, <2>1
<1>2. ASSUME NEW k, NEW l, Winner(k) = Winner(l) PROVE k = l
  <2>1. Winner(k).of = k /\ Winner(l).of = l
    BY DEF Winner
  <2> QED BY <1>2, <2>1
<1>3. ASSUME NEW k, NEW l, Loser(k) = Loser(l) PROVE k = l
  <2>1. Loser(k).of = k /\ Loser(l).of = l
    BY DEF Loser
  <2> QED BY <1>3, <2>1
<1>4. \A e, k : Seed(e).from = "ENTRY" /\ Winner(k).from = "WINNER" /\ Loser(k).from = "LOSER"
  BY DEF Seed, Winner, Loser
<1>5. \A e, k : Seed(e) # Winner(k) /\ Seed(e) # Loser(k)
  BY <1>4
<1>6. \A k, l : Winner(k) # Loser(l)
  BY <1>4
<1> QED BY <1>1, <1>2, <1>3, <1>5, <1>6

(* What the constructors of keys and fixtures put together. *)
LEMMA KeysDiffer ==
  /\ \A p, r, b : /\ Key(p, r, b).prefix = p
                  /\ Key(p, r, b).round = r
                  /\ Key(p, r, b).position = b
  /\ \A k, h, a : /\ Fixture(k, h, a).key = k /\ Fixture(k, h, a).round = k.round
                  /\ Fixture(k, h, a).home = h /\ Fixture(k, h, a).away = a
BY DEF Key, Fixture

(* The slots of a knockout: a power of two of them, every entry in one,    *)
(* and never two byes against each other.                                  *)
ProperSlots(slots, entries, K) ==
  /\ K \in Nat /\ K >= 1 /\ (K = 1 => ~HasBye(slots, 1))
  /\ Bye \notin entries
  /\ slots \in Seq(entries \cup {Bye}) /\ Len(slots) = 2^K
  /\ \A e \in entries : \E i \in 1 .. 2^K : slots[i] = e
  /\ \A i, j \in 1 .. 2^K : slots[i] = slots[j] /\ slots[i] # Bye => i = j
  /\ \A b \in 1 .. 2^(K - 1) : ~(slots[2 * b - 1] = Bye /\ slots[2 * b] = Bye)

(* The fixtures of a knockout one by one: match b of round r waits at side *)
(* s for what comes out of place 2 b - 2 + s of the round before.          *)
Place(prefix, slots, r, c) == IF r = 1 THEN Seed(slots[c]) ELSE Advancer(prefix, slots, r - 1, c)
Match(prefix, slots, r, b) ==
  Fixture(Key(prefix, r, b), Place(prefix, slots, r, 2 * b - 1), Place(prefix, slots, r, 2 * b))
Matches(slots, K) == {x \in (1 .. K) \X Nat : x[2] \in 1 .. 2^(K - x[1]) /\ (x[1] = 1 => ~HasBye(slots, x[2]))}

(* The rounds of a knockout are its matches. *)
LEMMA KnockoutMatches ==
  ASSUME NEW prefix, NEW entries, NEW slots, NEW K, ProperSlots(slots, entries, K)
  PROVE  Knockout(prefix, slots) = {Match(prefix, slots, x[1], x[2]) : x \in Matches(slots, K)}
<1> DEFINE F == Knockout(prefix, slots)
           first == {Fixture(Key(prefix, 1, b), Seed(slots[2 * b - 1]), Seed(slots[2 * b])) :
                       b \in {b \in 1 .. 2^(K - 1) : ~HasBye(slots, b)}}
           round(r) == {Fixture(Key(prefix, r, b), Advancer(prefix, slots, r - 1, 2 * b - 1),
                                                   Advancer(prefix, slots, r - 1, 2 * b)) :
                          b \in 1 .. 2^(K - r)}
           M == {Match(prefix, slots, x[1], x[2]) : x \in Matches(slots, K)}
<1>1. K \in Nat /\ K >= 1 /\ BracketRounds(Len(slots)) = K
  BY RoundsOfPower DEF ProperSlots
<1>2. F = first \cup UNION {round(r) : r \in 2 .. K}
  BY <1>1 DEF Knockout
<1>3. \A r \in 1 .. K : 2^(K - r) \in Nat
  BY <1>1, DoublingPower
<1>4. first = {f \in M : f.key.round = 1}
  <2>1. ASSUME NEW b \in 1 .. 2^(K - 1), ~HasBye(slots, b)
        PROVE  /\ <<1, b>> \in Matches(slots, K)
               /\ Match(prefix, slots, 1, b)
                    = Fixture(Key(prefix, 1, b), Seed(slots[2 * b - 1]), Seed(slots[2 * b]))
               /\ Match(prefix, slots, 1, b).key.round = 1
    BY <1>1, <1>3, <2>1, KeysDiffer DEF Matches, Match, Place
  <2>2. ASSUME NEW x \in Matches(slots, K), Match(prefix, slots, x[1], x[2]).key.round = 1
        PROVE  x[1] = 1 /\ x[2] \in 1 .. 2^(K - 1) /\ ~HasBye(slots, x[2])
    BY <2>2, KeysDiffer DEF Matches, Match
  <2>3. ASSUME NEW f \in first PROVE f \in M /\ f.key.round = 1
    <3>1. PICK b \in 1 .. 2^(K - 1) : ~HasBye(slots, b)
               /\ f = Fixture(Key(prefix, 1, b), Seed(slots[2 * b - 1]), Seed(slots[2 * b]))
      BY <2>3
    <3>2. <<1, b>>[1] = 1 /\ <<1, b>>[2] = b
      OBVIOUS
    <3> QED BY <2>1, <3>1, <3>2
  <2>4. ASSUME NEW f \in M, f.key.round = 1 PROVE f \in first
    <3>1. PICK x \in Matches(slots, K) : f = Match(prefix, slots, x[1], x[2])
      OBVIOUS
    <3> QED BY <2>1, <2>2, <2>4, <3>1
  <2> QED BY <2>3, <2>4
<1>5. UNION {round(r) : r \in 2 .. K} = {f \in M : f.key.round # 1}
  <2>1. ASSUME NEW r \in 2 .. K, NEW b \in 1 .. 2^(K - r)
        PROVE  /\ <<r, b>> \in Matches(slots, K)
               /\ Match(prefix, slots, r, b)
                    = Fixture(Key(prefix, r, b), Advancer(prefix, slots, r - 1, 2 * b - 1),
                                                 Advancer(prefix, slots, r - 1, 2 * b))
               /\ Match(prefix, slots, r, b).key.round = r
    BY <1>1, <1>3, KeysDiffer DEF Matches, Match, Place
  <2>2. ASSUME NEW x \in Matches(slots, K), Match(prefix, slots, x[1], x[2]).key.round # 1
        PROVE  x[1] \in 2 .. K /\ x[2] \in 1 .. 2^(K - x[1])
    BY <1>1, <2>2, KeysDiffer DEF Matches, Match
  <2>3. ASSUME NEW r \in 2 .. K, NEW f \in round(r) PROVE f \in M /\ f.key.round # 1
    <3>1. PICK b \in 1 .. 2^(K - r) : f = Match(prefix, slots, r, b)
      BY <2>1, <2>3
    <3>2. <<r, b>>[1] = r /\ <<r, b>>[2] = b
      OBVIOUS
    <3>3. f.key.round = r
      BY <2>1, <3>1
    <3>4. r # 1
      BY <1>1
    <3> QED BY <2>1, <3>1, <3>2, <3>3, <3>4
  <2>4. ASSUME NEW f \in M, f.key.round # 1 PROVE \E r \in 2 .. K : f \in round(r)
    <3>1. PICK x \in Matches(slots, K) : f = Match(prefix, slots, x[1], x[2])
      OBVIOUS
    <3>2. x[1] \in 2 .. K /\ x[2] \in 1 .. 2^(K - x[1])
      BY <2>2, <2>4, <3>1
    <3> QED BY <2>1, <3>1, <3>2
  <2> QED BY <2>3, <2>4
<1> QED BY <1>2, <1>4, <1>5

(* What a place of a round waits for: the entry of a slot, or the winner   *)
(* of a match of the round before.                                         *)
Entered(prefix, slots, entries, r, c, i) ==
  /\ slots[i] \in entries
  /\ Place(prefix, slots, r, c) = Seed(slots[i])
  /\ \/ r = 1 /\ i = c
     \/ r = 2 /\ HasBye(slots, c) /\ i \in {2 * c - 1, 2 * c}

Followed(prefix, slots, K, r, c) ==
  /\ r >= 2 /\ ~(r = 2 /\ HasBye(slots, c))
  /\ Place(prefix, slots, r, c) = Winner(Key(prefix, r - 1, c))
  /\ <<r - 1, c>> \in Matches(slots, K)

(* A place of a round is waited for by an entry or by the match before it. *)
LEMMA PlaceFacts ==
  ASSUME NEW prefix, NEW entries, NEW slots, NEW K, ProperSlots(slots, entries, K),
         NEW r \in 1 .. K, NEW c \in 1 .. 2^(K - r + 1),
         r = 1 => ~HasBye(slots, (c + 1) \div 2)
  PROVE  \/ \E i \in 1 .. 2^K : Entered(prefix, slots, entries, r, c, i)
         \/ Followed(prefix, slots, K, r, c)
<1>1. K \in Nat /\ K >= 1 /\ 2^K \in Nat /\ \A q \in 0 .. K : 2^(K - q) \in Nat
  BY DoublingPower DEF ProperSlots
<1>2. /\ Bye \notin entries
      /\ \A i \in 1 .. 2^K : slots[i] \in entries \cup {Bye}
      /\ \A b \in 1 .. 2^(K - 1) : ~(slots[2 * b - 1] = Bye /\ slots[2 * b] = Bye)
  BY <1>1 DEF ProperSlots
<1>3. CASE r = 1
  <2>1. K - r + 1 = K
    BY <1>1, <1>3
  <2>2. c \in 1 .. 2^K
    BY <2>1
  <2>3. slots[c] # Bye
    <3>1. c = 2 * ((c + 1) \div 2) - 1 \/ c = 2 * ((c + 1) \div 2)
      BY <1>1, <2>2
    <3> HIDE DEF Bye
    <3>2. HasBye(slots, (c + 1) \div 2) <=> Bye \in {slots[2 * ((c + 1) \div 2) - 1], slots[2 * ((c + 1) \div 2)]}
      BY DEF HasBye
    <3> QED BY <1>3, <3>1, <3>2
  <2>4. Place(prefix, slots, r, c) = Seed(slots[c])
    BY <1>3 DEF Place
  <2> QED BY <1>2, <1>3, <2>2, <2>3, <2>4 DEF Entered
<1>4. CASE r = 2 /\ HasBye(slots, c)
  <2>1. K - r + 1 = K - 1 /\ K - 1 \in Nat /\ (K - 1) + 1 = K
    BY <1>1, <1>4
  <2>2. c \in 1 .. 2^(K - 1) /\ 2^(K - 1) \in Nat /\ 2^K = 2 * 2^(K - 1)
    BY <2>1, DoublingPower
  <2>3. 2 * c - 1 \in 1 .. 2^K /\ 2 * c \in 1 .. 2^K
    BY <2>2
  <2>4. Place(prefix, slots, r, c) = Seed(slots[IF slots[2 * c - 1] = Bye THEN 2 * c ELSE 2 * c - 1])
    BY <1>4 DEF Place, Advancer
  <2>5. CASE slots[2 * c - 1] = Bye
    <3>1. slots[2 * c] \in entries
      BY <1>2, <2>2, <2>3, <2>5
    <3> QED BY <1>4, <2>3, <2>4, <2>5, <3>1 DEF Entered
  <2>6. CASE slots[2 * c - 1] # Bye
    <3>1. slots[2 * c - 1] \in entries
      BY <1>2, <2>2, <2>3, <2>6
    <3> QED BY <1>4, <2>3, <2>4, <2>6, <3>1 DEF Entered
  <2> QED BY <2>5, <2>6
<1>5. CASE r # 1 /\ ~(r = 2 /\ HasBye(slots, c))
  <2>1. K - r + 1 = K - (r - 1) /\ r - 1 \in 1 .. K /\ r >= 2
    BY <1>1, <1>5
  <2>2. Place(prefix, slots, r, c) = Winner(Key(prefix, r - 1, c))
    BY <1>5 DEF Place, Advancer
  <2>3. <<r - 1, c>> \in Matches(slots, K)
    <3>1. c \in Nat /\ c \in 1 .. 2^(K - (r - 1))
      BY <2>1, <1>1
    <3>2. r - 1 = 1 => r = 2
      BY <2>1
    <3> QED BY <1>5, <2>1, <3>1, <3>2 DEF Matches
  <2> QED BY <1>5, <2>1, <2>2, <2>3 DEF Followed
<1> QED BY <1>3, <1>4, <1>5

(* No two places of a knockout wait for the same. *)
LEMMA PlacesDiffer ==
  ASSUME NEW prefix, NEW entries, NEW slots, NEW K, ProperSlots(slots, entries, K),
         NEW r \in 1 .. K, NEW c \in 1 .. 2^(K - r + 1),
         NEW q \in 1 .. K, NEW d \in 1 .. 2^(K - q + 1),
         r = 1 => ~HasBye(slots, (c + 1) \div 2),
         q = 1 => ~HasBye(slots, (d + 1) \div 2),
         Place(prefix, slots, r, c) = Place(prefix, slots, q, d)
  PROVE  r = q /\ c = d
<1>1. K \in Nat /\ K >= 1 /\ \A x \in 0 .. K : 2^(K - x) \in Nat
  BY DoublingPower DEF ProperSlots
<1>2. Bye \notin entries /\ \A i, j \in 1 .. 2^K : slots[i] = slots[j] /\ slots[i] # Bye => i = j
  BY DEF ProperSlots
<1>3. c \in Nat /\ d \in Nat
  <2>1. K - r + 1 = K - (r - 1) /\ r - 1 \in 0 .. K /\ K - q + 1 = K - (q - 1) /\ q - 1 \in 0 .. K
    BY <1>1
  <2> QED BY <1>1, <2>1
<1> DEFINE P(x, y) == Place(prefix, slots, x, y)
           At(x, y, i) == Entered(prefix, slots, entries, x, y, i)
           After(x, y) == Followed(prefix, slots, K, x, y)
<1>4. (\E i \in 1 .. 2^K : At(r, c, i)) \/ After(r, c)
  BY PlaceFacts
<1>5. (\E i \in 1 .. 2^K : At(q, d, i)) \/ After(q, d)
  BY PlaceFacts
<1>6. \A x, y, i : At(x, y, i) => P(x, y) = Seed(slots[i]) /\ slots[i] \in entries
  BY DEF Entered
<1>7. \A x, y : After(x, y) => P(x, y) = Winner(Key(prefix, x - 1, y))
  BY DEF Followed
<1>8. P(r, c) = P(q, d)
  OBVIOUS
<1>9. CASE \E i, j \in 1 .. 2^K : At(r, c, i) /\ At(q, d, j)
  <2>1. PICK i, j \in 1 .. 2^K : At(r, c, i) /\ At(q, d, j)
    BY <1>9
  <2>2. slots[i] = slots[j] /\ slots[i] # Bye
    BY <1>2, <1>6, <1>8, <2>1, SourcesDiffer
  <2>3. i = j
    BY <1>2, <2>2
  <2>4. ASSUME NEW y \in Nat, NEW z \in Nat, z \in {2 * y - 1, 2 * y} PROVE (z + 1) \div 2 = y
    BY <2>4
  <2>5. /\ r = 1 \/ (r = 2 /\ HasBye(slots, c) /\ i \in {2 * c - 1, 2 * c})
        /\ q = 1 \/ (q = 2 /\ HasBye(slots, d) /\ i \in {2 * d - 1, 2 * d})
        /\ r = 1 => i = c
        /\ q = 1 => i = d
    BY <2>1, <2>3 DEF Entered
  <2>6. i \in Nat
    BY <1>1, DoublingPower
  <2> HIDE DEF At, P, After
  <2> QED BY <1>3, <2>4, <2>5, <2>6
<1>10. CASE After(r, c) /\ After(q, d)
  <2>1. Key(prefix, r - 1, c) = Key(prefix, q - 1, d)
    BY <1>7, <1>8, <1>10, SourcesDiffer
  <2>2. r - 1 = q - 1 /\ c = d
    BY <2>1, KeysDiffer
  <2> QED BY <2>2
<1>11. ~(\E i : At(r, c, i) /\ After(q, d)) /\ ~(\E i : At(q, d, i) /\ After(r, c))
  BY <1>6, <1>7, <1>8, SourcesDiffer
<1> QED BY <1>4, <1>5, <1>9, <1>10, <1>11

(* A knockout has finitely many matches, and so has its plan. *)
LEMMA MatchesFinite ==
  ASSUME NEW slots, NEW K \in Nat
  PROVE  IsFiniteSet(Matches(slots, K))
<1>1. 2^K \in Nat /\ \A r \in 1 .. K : 2^(K - r) \in Nat /\ 2^(K - r) <= 2^K
  <2>1. ASSUME NEW r \in 1 .. K PROVE 2^(K - r) \in Nat /\ 2^(K - r) <= 2^K
    <3>1. K - r \in Nat /\ K - r < K
      OBVIOUS
    <3>2. 2^(K - r) \in Nat /\ 2 * 2^(K - r) <= 2^K
      BY <3>1, DoublingPower, PowerOrder
    <3> QED BY <3>2, DoublingPower
  <2> QED BY <2>1, DoublingPower
<1>2. Matches(slots, K) \subseteq (1 .. K) \X (1 .. 2^K)
  <2>1. ASSUME NEW x \in Matches(slots, K) PROVE x \in (1 .. K) \X (1 .. 2^K)
    <3>1. x \in (1 .. K) \X Nat /\ x[2] \in 1 .. 2^(K - x[1])
      BY DEF Matches
    <3>2. x[1] \in 1 .. K /\ x[2] \in 1 .. 2^K
      BY <1>1, <3>1
    <3> QED BY <3>1, <3>2
  <2> QED BY <2>1
<1>3. IsFiniteSet((1 .. K) \X (1 .. 2^K))
  <2>1. IsFiniteSet(1 .. K)
    BY FS_Interval
  <2>2. IsFiniteSet(1 .. 2^K)
    <3> HIDE <1>2
    <3>1. 1 \in Int /\ 2^K \in Int
      BY <1>1
    <3> DEFINE P == 2^K
    <3> HIDE DEF P
    <3>2. IsFiniteSet(1 .. P)
      BY <3>1, FS_Interval DEF P
    <3> QED BY <3>2 DEF P
  <2> QED BY <2>1, <2>2, FS_Product
<1> QED BY <1>2, <1>3, FS_Subset

LEMMA ImageFinite ==
  ASSUME NEW S, IsFiniteSet(S), NEW f, DOMAIN f = S
  PROVE  IsFiniteSet({f[x] : x \in S})
<1> DEFINE g == [x \in S |-> f[x]]
<1>1. g \in Surjection(S, {f[x] : x \in S})
  BY DEF Surjection
<1> QED BY <1>1, FS_Surjection

(* A knockout is a proper plan of its entries, in K rounds, whatever their *)
(* number and whatever slots are byes.                                     *)
LEMMA KnockoutProper ==
  ASSUME NEW prefix, prefix # "QUALIFYING",
         NEW entries, NEW slots, NEW K, ProperSlots(slots, entries, K)
  PROVE  /\ ProperPlan(Knockout(prefix, slots), entries, Match(prefix, slots, K, 1))
         /\ \A f \in Knockout(prefix, slots) : f.key.prefix = prefix /\ f.round \in 1 .. K
         /\ Match(prefix, slots, K, 1).key = Key(prefix, K, 1)
<1> DEFINE F == Knockout(prefix, slots)
           X == Matches(slots, K)
           m(x) == Match(prefix, slots, x[1], x[2])
           last == m(<<K, 1>>)
           place(r, c) == Place(prefix, slots, r, c)
           spot(x, s) == 2 * x[2] - 2 + s
<1>1. /\ K \in Nat /\ K >= 1
      /\ \A r \in 0 .. K : 2^(K - r) \in Nat
      /\ \A r \in 1 .. K : 2^(K - r + 1) = 2 * 2^(K - r)
  BY DoublingPower DEF ProperSlots
<1>2. F = {m(x) : x \in X}
  BY KnockoutMatches
<1>3. \A x \in X : /\ x = <<x[1], x[2]>>
                   /\ x[1] \in 1 .. K /\ x[2] \in Nat /\ x[2] \in 1 .. 2^(K - x[1])
                   /\ x[1] = 1 => ~HasBye(slots, x[2])
  BY DEF Matches
<1>4. \A x : /\ m(x).key = Key(prefix, x[1], x[2]) /\ m(x).round = x[1]
             /\ m(x).home = place(x[1], 2 * x[2] - 1) /\ m(x).away = place(x[1], 2 * x[2])
  BY KeysDiffer DEF Match
<1>5. \A x \in X : \A s \in Side : SourceAt(m(x), s) = place(x[1], spot(x, s))
  <2>1. ASSUME NEW x \in X, NEW s \in Side PROVE SourceAt(m(x), s) = place(x[1], spot(x, s))
    <3>1. CASE s = 1
      <4>1. spot(x, s) = 2 * x[2] - 1
        BY <1>3, <3>1
      <4> HIDE DEF m, place, spot
      <4> QED BY <1>4, <3>1, <4>1 DEF SourceAt
    <3>2. CASE s = 2
      <4>1. spot(x, s) = 2 * x[2]
        BY <1>3, <3>2
      <4> HIDE DEF m, place, spot
      <4> QED BY <1>4, <3>2, <4>1 DEF SourceAt
    <3> QED BY <3>1, <3>2 DEF Side
  <2> QED BY <2>1
<1>6. \A x \in X : \A s \in Side : /\ spot(x, s) \in 1 .. 2^(K - x[1] + 1)
                                   /\ (spot(x, s) + 1) \div 2 = x[2]
  <2>1. ASSUME NEW x \in X, NEW s \in Side
        PROVE  /\ spot(x, s) \in 1 .. 2^(K - x[1] + 1)
               /\ (spot(x, s) + 1) \div 2 = x[2]
    <3>1. 2^(K - x[1]) \in Nat /\ 2^(K - x[1] + 1) = 2 * 2^(K - x[1])
      BY <1>1, <1>3
    <3>2. x[2] \in Nat /\ 1 <= x[2] /\ x[2] <= 2^(K - x[1])
      BY <1>3, <3>1
    <3>3. s = 1 \/ s = 2
      BY DEF Side
    <3>4. \A n, P \in Nat : (1 <= n /\ n <= P) =>
            /\ 2 * n - 1 \in 1 .. 2 * P /\ 2 * n \in 1 .. 2 * P
            /\ ((2 * n - 1) + 1) \div 2 = n /\ (2 * n + 1) \div 2 = n
            /\ 2 * n - 2 + 1 = 2 * n - 1 /\ 2 * n - 2 + 2 = 2 * n
      OBVIOUS
    <3> HIDE DEF m, X, place, F
    <3>5. CASE s = 1
      <4>1. spot(x, s) = 2 * x[2] - 1
        BY <3>2, <3>5
      <4> HIDE DEF spot
      <4> QED BY <3>1, <3>2, <3>4, <4>1
    <3>6. CASE s = 2
      <4>1. spot(x, s) = 2 * x[2]
        BY <3>2, <3>6
      <4> HIDE DEF spot
      <4> QED BY <3>1, <3>2, <3>4, <4>1
    <3> QED BY <3>3, <3>5, <3>6
  <2> QED BY <2>1
<1>7. <<K, 1>> \in X /\ last.key = Key(prefix, K, 1) /\ last.round = K
  <2>1. 1 \in 1 .. 2^(K - K)
    BY <1>1, PowerZero
  <2>2. <<K, 1>> \in X
    <3>1. <<K, 1>> \in (1 .. K) \X Nat /\ <<K, 1>>[1] = K /\ <<K, 1>>[2] = 1
      BY <1>1
    <3>2. K = 1 => ~HasBye(slots, 1)
      BY DEF ProperSlots
    <3> HIDE DEF F, m, place, last
    <3> QED BY <2>1, <3>1, <3>2 DEF Matches
  <2> QED BY <1>4, <2>2
<1> HIDE DEF m, X, place, F
<1>8. IsFiniteSet(F)
  <2> DEFINE g == [x \in X |-> m(x)]
  <2>1. IsFiniteSet(X) /\ DOMAIN g = X
    BY <1>1, MatchesFinite DEF X
  <2>2. F = {g[x] : x \in X}
    BY <1>2
  <2> HIDE DEF g
  <2> QED BY <2>1, <2>2, ImageFinite
<1>9. \A x, y \in X : m(x).key = m(y).key => x = y
  BY <1>3, <1>4, KeysDiffer
<1>10. \A x, y \in X : \A s, t \in Side :
         SourceAt(m(x), s) = SourceAt(m(y), t) => x = y /\ s = t
  <2>1. ASSUME NEW x \in X, NEW y \in X, NEW s \in Side, NEW t \in Side,
               SourceAt(m(x), s) = SourceAt(m(y), t)
        PROVE  x = y /\ s = t
    <3>1. place(x[1], spot(x, s)) = place(y[1], spot(y, t))
      BY <1>5, <2>1
    <3>2. x[1] = y[1] /\ spot(x, s) = spot(y, t)
      <4>1. /\ x[1] \in 1 .. K /\ spot(x, s) \in 1 .. 2^(K - x[1] + 1)
            /\ y[1] \in 1 .. K /\ spot(y, t) \in 1 .. 2^(K - y[1] + 1)
            /\ x[1] = 1 => ~HasBye(slots, (spot(x, s) + 1) \div 2)
            /\ y[1] = 1 => ~HasBye(slots, (spot(y, t) + 1) \div 2)
        BY <1>3, <1>6
      <4> HIDE DEF spot
      <4> QED BY <3>1, <4>1, PlacesDiffer DEF place
    <3>3. x[2] = y[2]
      BY <1>6, <3>2
    <3>4. s = t
      BY <1>3, <3>2, <3>3 DEF Side
    <3> QED BY <1>3, <3>2, <3>3, <3>4
  <2> QED BY <2>1
<1>11. ASSUME NEW x \in X, NEW s \in Side
       PROVE  \/ \E e \in entries : SourceAt(m(x), s) = Seed(e)
              \/ \E y \in X : /\ SourceAt(m(x), s) = Winner(m(y).key)
                              /\ y[1] = x[1] - 1
  <2> DEFINE r == x[1]
             c == spot(x, s)
  <2>1. /\ r \in 1 .. K /\ c \in 1 .. 2^(K - r + 1)
        /\ r = 1 => ~HasBye(slots, (c + 1) \div 2)
    BY <1>3, <1>6
  <2>2. SourceAt(m(x), s) = place(r, c)
    BY <1>5
  <2> HIDE DEF r, c
  <2>3. (\E i \in 1 .. 2^K : Entered(prefix, slots, entries, r, c, i)) \/ Followed(prefix, slots, K, r, c)
    BY <2>1, PlaceFacts
  <2>4. CASE \E i \in 1 .. 2^K : Entered(prefix, slots, entries, r, c, i)
    BY <2>2, <2>4 DEF Entered, place
  <2>5. CASE Followed(prefix, slots, K, r, c)
    <3>1. place(r, c) = Winner(Key(prefix, r - 1, c)) /\ <<r - 1, c>> \in X
      BY <2>5 DEF Followed, X, place
    <3>2. m(<<r - 1, c>>).key = Key(prefix, r - 1, c) /\ <<r - 1, c>>[1] = r - 1
      BY <1>4
    <3> QED BY <2>2, <3>1, <3>2 DEF r
  <2> QED BY <2>3, <2>4, <2>5
<1>12. ASSUME NEW e \in entries PROVE \E x \in X : \E s \in Side : SourceAt(m(x), s) = Seed(e)
  <2>1. PICK i \in 1 .. 2^K : slots[i] = e
    BY DEF ProperSlots
  <2>2. e # Bye
    BY DEF ProperSlots
  <2>3. PICK b \in 1 .. 2^(K - 1) : i = 2 * b - 1 \/ i = 2 * b
    <3>1. K # 0
      BY <1>1
    <3> QED BY <1>1, <3>1, Halves
  <2>4. 2^(K - 1) \in Nat /\ b \in Nat
    BY <1>1
  <2>5. CASE ~HasBye(slots, b)
    <3> DEFINE x == <<1, b>>
               s == i - 2 * b + 2
    <3>1. x \in X /\ x[1] = 1 /\ x[2] = b
      BY <1>1, <2>4, <2>5 DEF X, Matches
    <3>2. s \in Side /\ spot(x, s) = i
      BY <2>3, <2>4 DEF Side
    <3>3. place(1, i) = Seed(e)
      BY <2>1 DEF place, Place
    <3> HIDE DEF x, s
    <3> QED BY <1>5, <3>1, <3>2, <3>3
  <2>6. CASE HasBye(slots, b)
    <3>1. K >= 2
      <4>1. K # 1
        <5>1. ASSUME K = 1 PROVE FALSE
          <6>1. b = 1
            BY <2>3, <5>1, PowerZero
          <6> QED BY <2>6, <5>1, <6>1 DEF ProperSlots
        <5> QED BY <5>1
      <4> QED BY <1>1, <4>1
    <3>2. place(2, b) = Seed(e)
      <4>1. place(2, b) = Seed(slots[IF slots[2 * b - 1] = Bye THEN 2 * b ELSE 2 * b - 1])
        BY <2>6 DEF place, Place, Advancer
      <4>2. slots[2 * b - 1] = Bye \/ slots[2 * b] = Bye
        BY <2>6 DEF HasBye
      <4>3. i = IF slots[2 * b - 1] = Bye THEN 2 * b ELSE 2 * b - 1
        BY <2>1, <2>2, <2>3, <4>2
      <4> QED BY <2>1, <4>1, <4>3
    <3>3. PICK d \in 1 .. 2^(K - 2) : b = 2 * d - 1 \/ b = 2 * d
      <4>1. K - 1 \in Nat /\ K - 1 # 0 /\ (K - 1) - 1 = K - 2
        BY <1>1, <3>1
      <4> QED BY <4>1, Halves
    <3>4. 2^(K - 2) \in Nat /\ d \in Nat /\ 2 \in 1 .. K
      BY <1>1, <3>1
    <3> DEFINE x == <<2, d>>
               s == b - 2 * d + 2
    <3>5. x \in X /\ x[1] = 2 /\ x[2] = d
      BY <1>1, <3>4 DEF X, Matches
    <3>6. s \in Side /\ spot(x, s) = b
      BY <2>4, <3>3, <3>4 DEF Side
    <3> HIDE DEF x, s
    <3> QED BY <1>5, <3>2, <3>5, <3>6
  <2> QED BY <2>5, <2>6
<1>13. ASSUME NEW y \in X, y # <<K, 1>>
       PROVE  \E x \in X : \E s \in Side : SourceAt(m(x), s) = Winner(m(y).key)
  <2> DEFINE r == y[1] + 1
             c == y[2]
  <2>1. y[1] \in 1 .. K /\ c \in Nat /\ c \in 1 .. 2^(K - y[1]) /\ y = <<y[1], c>>
    BY <1>3
  <2>2. y[1] # K
    <3>1. ASSUME y[1] = K PROVE FALSE
      <4>1. 2^(K - K) = 1
        BY <1>1, PowerZero
      <4>2. c = 1
        BY <2>1, <3>1, <4>1
      <4> QED BY <1>13, <2>1, <3>1, <4>2
    <3> QED BY <3>1
  <2>3. r \in 2 .. K /\ K - y[1] \in Nat /\ K - y[1] # 0 /\ (K - y[1]) - 1 = K - r
    BY <1>1, <2>1, <2>2
  <2>4. PICK d \in 1 .. 2^(K - r) : c = 2 * d - 1 \/ c = 2 * d
    <3> HIDE DEF r, c
    <3> QED BY <2>1, <2>3, Halves
  <2>5. 2^(K - r) \in Nat /\ d \in Nat
    BY <1>1, <2>3
  <2>6. place(r, c) = Winner(m(y).key)
    <3>1. ~(r - 1 = 1 /\ HasBye(slots, c))
      BY <1>3, <2>1
    <3>2. r # 1 /\ r - 1 = y[1]
      BY <2>1
    <3>3. place(r, c) = Winner(Key(prefix, r - 1, c))
      <4> HIDE DEF r, c
      <4> QED BY <3>1, <3>2 DEF place, Place, Advancer
    <3>4. m(y).key = Key(prefix, r - 1, c)
      BY <1>4, <3>2
    <3> QED BY <3>3, <3>4
  <2> DEFINE x == <<r, d>>
             s == c - 2 * d + 2
  <2>7. x \in X /\ x[1] = r /\ x[2] = d
    BY <1>1, <2>3, <2>5 DEF X, Matches
  <2>8. s \in Side /\ spot(x, s) = c
    BY <2>1, <2>4, <2>5 DEF Side
  <2> HIDE DEF x, s, r, c
  <2> QED BY <1>5, <2>6, <2>7, <2>8
<1>14. \A f \in F : f.key.prefix = prefix /\ f.round \in 1 .. K
  BY <1>2, <1>3, <1>4, KeysDiffer
<1> HIDE DEF last
<1>16. last = m(<<K, 1>>) /\ last \in F /\ \A x \in X : m(x) = last => x = <<K, 1>>
  BY <1>2, <1>7, <1>9 DEF last
<1>15. /\ Winner(last.key) \in Sources(F, entries)
       /\ Sources(F, entries) \ {Winner(last.key)}
            = {Seed(e) : e \in entries} \cup {Winner(f.key) : f \in F \ {last}}
  <2>1. Sources(F, entries) = {Seed(e) : e \in entries} \cup {Winner(f.key) : f \in F}
    BY <1>14 DEF Sources
  <2>2. \A f \in F : f.key = last.key => f = last
    BY <1>2, <1>9, <1>16
  <2>3. ASSUME NEW o \in Sources(F, entries), o # Winner(last.key)
        PROVE  o \in {Seed(e) : e \in entries} \cup {Winner(f.key) : f \in F \ {last}}
    BY <2>1, <2>3
  <2>4. ASSUME NEW o \in {Seed(e) : e \in entries} \cup {Winner(f.key) : f \in F \ {last}}
        PROVE  o \in Sources(F, entries) /\ o # Winner(last.key)
    <3>1. CASE o \in {Seed(e) : e \in entries}
      BY <2>1, <3>1, SourcesDiffer
    <3>2. CASE o \in {Winner(f.key) : f \in F \ {last}}
      BY <2>1, <2>2, <3>2, SourcesDiffer
    <3> QED BY <2>4, <3>1, <3>2
  <2>5. Winner(last.key) \in Sources(F, entries)
    BY <1>16, <2>1
  <2> QED BY <2>3, <2>4, <2>5
<1>17. ProperPlan(F, entries, last)
  <2>1. last.key.prefix # "QUALIFYING"
    BY <1>14, <1>16
  <2>2. \A f \in F : f.round = f.key.round /\ f.round \in Nat
    <3>1. ASSUME NEW x \in X PROVE m(x).round = m(x).key.round /\ m(x).round \in Nat
      <4>1. x[1] \in Nat
        BY <1>1, <1>3
      <4>2. m(x).key = Key(prefix, x[1], x[2]) /\ m(x).round = x[1]
        BY <1>4
      <4>3. m(x).key.round = x[1]
        BY <4>2, KeysDiffer
      <4> QED BY <4>1, <4>2, <4>3
    <3> QED BY <1>2, <3>1
  <2>3. ASSUME NEW f \in F, f # last PROVE f.round < last.round
    <3>1. PICK x \in X : f = m(x)
      BY <1>2
    <3>2. x[1] \in 1 .. K /\ x[2] \in 1 .. 2^(K - x[1]) /\ x # <<K, 1>> /\ x = <<x[1], x[2]>>
      BY <1>3, <1>16, <2>3, <3>1
    <3>3. x[1] # K
      <4>1. ASSUME x[1] = K PROVE FALSE
        <5>1. x[2] = 1
          <6>1. K - x[1] = 0 /\ 2^0 = 1
            BY <1>1, <4>1, PowerZero
          <6>2. x[2] \in 1 .. 1
            BY <3>2, <6>1
          <6> QED BY <6>2
        <5> QED BY <3>2, <4>1, <5>1
      <4> QED BY <4>1
    <3>4. f.round = x[1] /\ last.round = K
      BY <1>4, <1>7, <1>16, <3>1
    <3> QED BY <1>1, <3>2, <3>3, <3>4
  <2>4. \A f, g \in F : f.key = g.key => f = g
    BY <1>2, <1>9
  <2>5. \A f, g \in F : \A s, t \in Side : SourceAt(f, s) = SourceAt(g, t) => f = g /\ s = t
    BY <1>2, <1>10
  <2>6. ASSUME NEW f \in F, NEW s \in Side PROVE SourceAt(f, s) \in Sources(F, entries) \ {Winner(last.key)}
    <3>1. PICK x \in X : f = m(x)
      BY <1>2
    <3>2. CASE \E e \in entries : SourceAt(m(x), s) = Seed(e)
      BY <1>15, <3>1, <3>2
    <3>3. CASE \E y \in X : SourceAt(m(x), s) = Winner(m(y).key) /\ y[1] = x[1] - 1
      <4>1. PICK y \in X : SourceAt(m(x), s) = Winner(m(y).key) /\ y[1] = x[1] - 1
        BY <3>3
      <4>2. m(y) \in F /\ m(y) # last
        <5>1. x[1] \in 1 .. K /\ y[1] # K
          BY <1>1, <1>3, <4>1
        <5>2. y # <<K, 1>>
          BY <5>1
        <5> QED BY <1>2, <1>16, <5>2
      <4> QED BY <1>15, <3>1, <4>1, <4>2
    <3> QED BY <1>11, <3>2, <3>3
  <2>7. ASSUME NEW o \in Sources(F, entries) \ {Winner(last.key)} PROVE \E f \in F : \E s \in Side : SourceAt(f, s) = o
    <3>1. CASE \E e \in entries : o = Seed(e)
      BY <1>2, <1>12, <3>1
    <3>2. CASE \E f \in F \ {last} : o = Winner(f.key)
      <4>1. PICK f \in F \ {last} : o = Winner(f.key)
        BY <3>2
      <4>2. PICK y \in X : f = m(y)
        BY <1>2
      <4>3. y # <<K, 1>>
        BY <1>16, <4>1, <4>2
      <4> QED BY <1>2, <1>13, <4>1, <4>2, <4>3
    <3> QED BY <1>15, <3>1, <3>2
  <2>8. ASSUME NEW f \in F, NEW g \in F, NEW s \in Side,
               SourceAt(f, s) \in {Winner(g.key), Loser(g.key)}
        PROVE  g.round < f.round
    <3>1. PICK x \in X : f = m(x)
      BY <1>2
    <3>2. PICK y \in X : SourceAt(m(x), s) = Winner(m(y).key) /\ y[1] = x[1] - 1
      BY <1>11, <2>8, <3>1, SourcesDiffer
    <3>3. g.key = m(y).key
      BY <2>8, <3>1, <3>2, SourcesDiffer
    <3>4. g = m(y)
      BY <1>2, <2>4, <3>3
    <3> QED BY <1>3, <1>4, <3>1, <3>2, <3>4
  <2> QED BY <1>8, <1>16, <2>1, <2>2, <2>3, <2>4, <2>5, <2>6, <2>7, <2>8, <1>15 DEF ProperPlan, PartialPlan
<1>18. Match(prefix, slots, K, 1) = last
  BY DEF last, m
<1> QED BY <1>7, <1>14, <1>17, <1>18 DEF F

-----------------------------------------------------------------------------
(* Seeding. *)

(* Entries in the order of their seeds: all of them, each once. *)
ProperOrder(order, entries) ==
  /\ order \in Seq(entries) /\ Bye \notin entries
  /\ \A e \in entries : \E s \in 1 .. Len(order) : order[s] = e
  /\ \A s, t \in 1 .. Len(order) : order[s] = order[t] => s = t

(* The slots of a seeded bracket hold the seeds of its branches. *)
LEMMA SlotsOfSeeds ==
  ASSUME NEW order, NEW entries, ProperOrder(order, entries), Len(order) >= 1
  PROVE  LET K == BracketRounds(Len(order)) IN
         /\ DOMAIN SeededSlots(order) = 1 .. 2^K
         /\ \A i \in 1 .. 2^K :
              /\ Branches(K)[i] \in 1 .. 2^K
              /\ Branches(K)[i] <= Len(order) => SeededSlots(order)[i] = order[Branches(K)[i]]
              /\ Branches(K)[i] > Len(order) => SeededSlots(order)[i] = Bye
<1> DEFINE K == BracketRounds(Len(order))
           seeds == Branches(K)
<1>1. Len(order) \in Nat /\ K \in Nat
  BY RoundsOfBracket DEF ProperOrder
<1> HIDE DEF K
<1>2. seeds \in [1 .. 2^K -> 1 .. 2^K] /\ 2^K \in Nat
  BY <1>1, BranchesPermute, DoublingPower
<1> HIDE DEF seeds
<1>3. SeededSlots(order) = [i \in DOMAIN seeds |-> IF seeds[i] <= Len(order) THEN order[seeds[i]] ELSE Bye]
  BY DEF SeededSlots, K, seeds
<1>4. \A i \in 1 .. 2^K :
        /\ seeds[i] \in 1 .. 2^K
        /\ seeds[i] <= Len(order) => SeededSlots(order)[i] = order[seeds[i]]
        /\ seeds[i] > Len(order) => SeededSlots(order)[i] = Bye
  BY <1>1, <1>2, <1>3
<1> QED BY <1>2, <1>3, <1>4 DEF K, seeds

(* Seeding never puts two byes against each other and leaves nobody out. *)
LEMMA SeededProper ==
  ASSUME NEW order, NEW entries, ProperOrder(order, entries), Len(order) >= 2
  PROVE  ProperSlots(SeededSlots(order), entries, BracketRounds(Len(order)))
<1> DEFINE n == Len(order)
           K == BracketRounds(n)
           seeds == Branches(K)
           slots == SeededSlots(order)
<1>1. /\ n \in Nat /\ n >= 2
      /\ \A s \in 1 .. n : order[s] \in entries /\ order[s] # Bye
      /\ \A e \in entries : \E s \in 1 .. n : order[s] = e
      /\ \A s, t \in 1 .. n : order[s] = order[t] => s = t
  BY DEF ProperOrder
<1>2. K \in Nat /\ n <= 2^K /\ \A j \in Nat : j < K => 2^j < n
  BY <1>1, RoundsOfBracket
<1>3. /\ DOMAIN slots = 1 .. 2^K
      /\ \A i \in 1 .. 2^K :
           /\ seeds[i] \in 1 .. 2^K
           /\ seeds[i] <= n => slots[i] = order[seeds[i]]
           /\ seeds[i] > n => slots[i] = Bye
  BY <1>1, SlotsOfSeeds
<1>4. slots = [i \in 1 .. 2^K |-> slots[i]]
  <2>1. slots = [i \in DOMAIN seeds |-> IF seeds[i] <= n THEN order[seeds[i]] ELSE Bye]
    BY DEF SeededSlots
  <2> HIDE DEF slots, seeds
  <2>2. DOMAIN slots = DOMAIN seeds
    BY <2>1
  <2> QED BY <1>3, <2>1, <2>2
<1> HIDE DEF n, K, slots
<1>5. K >= 1
  <2>1. 2^0 = 1
    BY PowerZero
  <2>2. ASSUME K = 0 PROVE FALSE
    <3>1. n <= 2^0
      BY <1>2, <2>2
    <3> QED BY <1>1, <2>1, <3>1
  <2> QED BY <1>2, <2>2
<1>6. 2^K \in Nat /\ 2^(K - 1) \in Nat /\ 2^K = 2 * 2^(K - 1) /\ 2^(K - 1) < n
  <2>1. K - 1 \in Nat /\ K - 1 < K /\ (K - 1) + 1 = K
    BY <1>2, <1>5
  <2> QED BY <1>2, <2>1, DoublingPower
<1>7. seeds \in [1 .. 2^K -> 1 .. 2^K]
      /\ (\A i, j \in 1 .. 2^K : seeds[i] = seeds[j] => i = j)
      /\ (\A s \in 1 .. 2^K : \E i \in 1 .. 2^K : seeds[i] = s)
  BY <1>2, BranchesPermute
<1>8. \A b \in 1 .. 2^(K - 1) : 2 * b - 1 \in 1 .. 2^K /\ seeds[2 * b - 1] <= n
  <2>1. ASSUME NEW b \in 1 .. 2^(K - 1) PROVE 2 * b - 1 \in 1 .. 2^K /\ seeds[2 * b - 1] <= n
    <3>1. /\ 2 * b - 1 \in 1 .. 2^K
          /\ seeds[2 * b - 1] = Branches(K - 1)[b]
      BY <1>2, <1>5, DoubledAt
    <3>2. K - 1 \in Nat
      BY <1>2, <1>5
    <3>3. Branches(K - 1)[b] \in 1 .. 2^(K - 1)
      BY <3>2, BranchesPermute
    <3> QED BY <1>1, <1>6, <3>1, <3>3
  <2> QED BY <2>1
<1> HIDE DEF seeds
<1>9. \A i \in 1 .. 2^K : slots[i] \in entries \cup {Bye} /\ (slots[i] # Bye <=> seeds[i] <= n)
  BY <1>1, <1>3, <1>6
<1>10. slots \in Seq(entries \cup {Bye}) /\ Len(slots) = 2^K
  <2>1. slots \in [1 .. 2^K -> entries \cup {Bye}]
    BY <1>4, <1>9
  <2> QED BY <1>6, <2>1
<1>11. ASSUME NEW e \in entries PROVE \E i \in 1 .. 2^K : slots[i] = e
  <2>1. PICK s \in 1 .. n : order[s] = e
    BY <1>1
  <2>2. s \in 1 .. 2^K
    BY <1>1, <1>2, <1>6
  <2>3. PICK i \in 1 .. 2^K : seeds[i] = s
    BY <1>7, <2>2
  <2> QED BY <1>3, <2>1, <2>3, <1>1
<1>12. ASSUME NEW i \in 1 .. 2^K, NEW j \in 1 .. 2^K, slots[i] = slots[j], slots[i] # Bye PROVE i = j
  <2>1. seeds[i] \in 1 .. n /\ seeds[j] \in 1 .. n
    BY <1>1, <1>3, <1>9, <1>12
  <2>2. seeds[i] = seeds[j]
    BY <1>1, <1>3, <1>12, <2>1
  <2> QED BY <1>7, <2>2
<1>13. ASSUME K = 1 PROVE ~HasBye(slots, 1)
  <2>1. 2^(K - 1) = 1
    <3>1. K - 1 = 0
      BY <1>13
    <3> QED BY <3>1, PowerZero
  <2>2. 2^K = 2
    BY <1>6, <2>1
  <2>3. 1 \in 1 .. 2^K /\ 2 \in 1 .. 2^K
    BY <2>2
  <2>4. slots[1] # Bye /\ slots[2] # Bye
    BY <1>1, <1>2, <1>3, <1>9, <2>2, <2>3
  <2>5. 2 * 1 - 1 = 1 /\ 2 * 1 = 2
    OBVIOUS
  <2> QED BY <2>4, <2>5 DEF HasBye
<1>14. \A b \in 1 .. 2^(K - 1) : ~(slots[2 * b - 1] = Bye /\ slots[2 * b] = Bye)
  BY <1>8, <1>9
<1>15. Bye \notin entries
  BY DEF ProperOrder
<1> QED BY <1>2, <1>5, <1>10, <1>11, <1>12, <1>13, <1>14, <1>15 DEF ProperSlots, n, K, slots

-----------------------------------------------------------------------------
(* Plans put together of parts. *)

(* Entries without a fixture yet are all left. *)
LEMMA NoFixtureYet ==
  ASSUME NEW entries
  PROVE  PartialPlan({}, entries, {Seed(e) : e \in entries})
<1>1. Sources({}, entries) = {Seed(e) : e \in entries}
  BY DEF Sources
<1> QED BY <1>1, FS_EmptySet DEF PartialPlan

(* Parts of a plan with different entries and fixtures make one. *)
LEMMA PartsJoin ==
  ASSUME NEW F, NEW D, NEW A, PartialPlan(F, D, A),
         NEW G, NEW E, NEW B, PartialPlan(G, E, B),
         D \cap E = {}, \A f \in F, g \in G : f.key # g.key
  PROVE  PartialPlan(F \cup G, D \cup E, A \cup B)
<1> DEFINE H == F \cup G
           S == Sources(F, D)
           T == Sources(G, E)
           U == Sources(H, D \cup E)
<1>1. U = S \cup T
  BY DEF Sources
<1>2. S \cap T = {}
  <2>1. ASSUME NEW o \in S, NEW p \in T, o = p PROVE FALSE
    <3>1. (\E e \in D : o = Seed(e)) \/ (\E f \in F : o = Winner(f.key)) \/ (\E f \in F : o = Loser(f.key))
      BY DEF Sources
    <3>2. (\E e \in E : p = Seed(e)) \/ (\E f \in G : p = Winner(f.key)) \/ (\E f \in G : p = Loser(f.key))
      BY DEF Sources
    <3> HIDE DEF S, T
    <3> QED BY <2>1, <3>1, <3>2, SourcesDiffer
  <2> QED BY <2>1
<1>3. /\ IsFiniteSet(F) /\ A \subseteq S
      /\ \A f \in F : f.round = f.key.round /\ f.round \in Nat
      /\ \A f, g \in F : f.key = g.key => f = g
      /\ \A f, g \in F : \A s, t \in Side : SourceAt(f, s) = SourceAt(g, t) => f = g /\ s = t
      /\ \A f \in F : \A s \in Side : SourceAt(f, s) \in S \ A
      /\ \A o \in S \ A : \E f \in F : \E s \in Side : SourceAt(f, s) = o
      /\ \A f, g \in F : \A s \in Side :
           SourceAt(f, s) \in {Winner(g.key), Loser(g.key)} => g.round < f.round
  BY DEF PartialPlan
<1>4. /\ IsFiniteSet(G) /\ B \subseteq T
      /\ \A f \in G : f.round = f.key.round /\ f.round \in Nat
      /\ \A f, g \in G : f.key = g.key => f = g
      /\ \A f, g \in G : \A s, t \in Side : SourceAt(f, s) = SourceAt(g, t) => f = g /\ s = t
      /\ \A f \in G : \A s \in Side : SourceAt(f, s) \in T \ B
      /\ \A o \in T \ B : \E f \in G : \E s \in Side : SourceAt(f, s) = o
      /\ \A f, g \in G : \A s \in Side :
           SourceAt(f, s) \in {Winner(g.key), Loser(g.key)} => g.round < f.round
  BY DEF PartialPlan
<1>5. U \ (A \cup B) = (S \ A) \cup (T \ B)
  BY <1>1, <1>2, <1>3, <1>4
<1>6. \A f \in F : \A s \in Side : \A g \in G : SourceAt(f, s) \notin {Winner(g.key), Loser(g.key)}
  <2>1. ASSUME NEW f \in F, NEW s \in Side, NEW g \in G, SourceAt(f, s) \in {Winner(g.key), Loser(g.key)}
        PROVE  FALSE
    <3>1. SourceAt(f, s) \in S
      BY <1>3
    <3>2. (\E e \in D : SourceAt(f, s) = Seed(e)) \/ (\E h \in F : SourceAt(f, s) \in {Winner(h.key), Loser(h.key)})
      BY <3>1 DEF Sources
    <3> QED BY <2>1, <3>2, SourcesDiffer
  <2> QED BY <2>1
<1>7. \A f \in G : \A s \in Side : \A g \in F : SourceAt(f, s) \notin {Winner(g.key), Loser(g.key)}
  <2>1. ASSUME NEW f \in G, NEW s \in Side, NEW g \in F, SourceAt(f, s) \in {Winner(g.key), Loser(g.key)}
        PROVE  FALSE
    <3>1. SourceAt(f, s) \in T
      BY <1>4
    <3>2. (\E e \in E : SourceAt(f, s) = Seed(e)) \/ (\E h \in G : SourceAt(f, s) \in {Winner(h.key), Loser(h.key)})
      BY <3>1 DEF Sources
    <3> QED BY <2>1, <3>2, SourcesDiffer
  <2> QED BY <2>1
<1> HIDE DEF S, T, U
<1>8. IsFiniteSet(H)
  BY <1>3, <1>4, FS_Union
<1>9. A \cup B \subseteq U
  BY <1>1, <1>3, <1>4
<1>10. \A f \in H : f.round = f.key.round /\ f.round \in Nat
  BY <1>3, <1>4
<1>11. \A f, g \in H : f.key = g.key => f = g
  BY <1>3, <1>4
<1>12. \A f, g \in H : \A s, t \in Side : SourceAt(f, s) = SourceAt(g, t) => f = g /\ s = t
  BY <1>2, <1>3, <1>4
<1>13. \A f \in H : \A s \in Side : SourceAt(f, s) \in U \ (A \cup B)
  BY <1>3, <1>4, <1>5
<1>14. \A o \in U \ (A \cup B) : \E f \in H : \E s \in Side : SourceAt(f, s) = o
  BY <1>3, <1>4, <1>5
<1>15. \A f, g \in H : \A s \in Side :
         SourceAt(f, s) \in {Winner(g.key), Loser(g.key)} => g.round < f.round
  BY <1>3, <1>4, <1>6, <1>7
<1> QED BY <1>8, <1>9, <1>10, <1>11, <1>12, <1>13, <1>14, <1>15 DEF PartialPlan, U

(* A fixture between two that are left takes them away and leaves its      *)
(* winner, and its loser when it is a qualifying final.                    *)
LEMMA FixtureAdded ==
  ASSUME NEW F, NEW entries, NEW left, NEW rest, NEW home, NEW away, NEW key, NEW f, NEW next,
         PartialPlan(F, entries, left), left = {home, away} \cup rest, f = Fixture(key, home, away),
         next = rest \cup {Winner(key)} \cup IF key.prefix = "QUALIFYING" THEN {Loser(key)} ELSE {},
         home # away, home \notin rest, away \notin rest,
         key.round \in Nat, \A g \in F : g.key # key,
         \A g \in F : {home, away} \cap {Winner(g.key), Loser(g.key)} # {} => g.round < key.round
  PROVE  PartialPlan(F \cup {f}, entries, next)
<1> DEFINE new == {Winner(key)} \cup IF key.prefix = "QUALIFYING" THEN {Loser(key)} ELSE {}
           G == F \cup {f}
           S == Sources(F, entries)
           T == Sources(G, entries)
<1>1. f.key = key /\ f.round = key.round /\ SourceAt(f, 1) = home /\ SourceAt(f, 2) = away
  BY DEF Fixture, SourceAt
<1>2. /\ IsFiniteSet(F) /\ {home, away} \cup rest \subseteq S
      /\ \A g \in F : g.round = g.key.round /\ g.round \in Nat
      /\ \A g, h \in F : g.key = h.key => g = h
      /\ \A g, h \in F : \A s, t \in Side : SourceAt(g, s) = SourceAt(h, t) => g = h /\ s = t
      /\ \A g \in F : \A s \in Side : SourceAt(g, s) \in S \ ({home, away} \cup rest)
      /\ \A o \in S \ ({home, away} \cup rest) : \E g \in F : \E s \in Side : SourceAt(g, s) = o
      /\ \A g, h \in F : \A s \in Side :
           SourceAt(g, s) \in {Winner(h.key), Loser(h.key)} => h.round < g.round
  BY DEF PartialPlan
<1>3. T = S \cup new
  BY <1>1 DEF Sources
<1>4. S \cap {Winner(key), Loser(key)} = {}
  <2>1. ASSUME NEW o \in S, o \in {Winner(key), Loser(key)} PROVE FALSE
    <3>1. (\E e \in entries : o = Seed(e)) \/ (\E g \in F : o \in {Winner(g.key), Loser(g.key)})
      BY DEF Sources
    <3> HIDE DEF S
    <3> QED BY <2>1, <3>1, SourcesDiffer
  <2> QED BY <2>1
<1>5. new \subseteq {Winner(key), Loser(key)}
  OBVIOUS
<1> HIDE DEF S, T, new
<1>5a. next = rest \cup new
  BY DEF new
<1>6. T \ next = (S \ ({home, away} \cup rest)) \cup {home, away}
  BY <1>2, <1>3, <1>4, <1>5, <1>5a
<1>7. \A s : s \in Side <=> s = 1 \/ s = 2
  BY DEF Side
<1>8. IsFiniteSet(G) /\ next \subseteq T
  BY <1>2, <1>3, <1>5a, FS_AddElement
<1>9. \A g \in G : g.round = g.key.round /\ g.round \in Nat
  BY <1>1, <1>2
<1>10. \A g, h \in G : g.key = h.key => g = h
  BY <1>1, <1>2
<1>11. \A s \in Side : SourceAt(f, s) \in {home, away}
  BY <1>1, <1>7
<1>12. \A g, h \in G : \A s, t \in Side : SourceAt(g, s) = SourceAt(h, t) => g = h /\ s = t
  <2>1. ASSUME NEW g \in G, NEW h \in G, NEW s \in Side, NEW t \in Side, SourceAt(g, s) = SourceAt(h, t)
        PROVE  g = h /\ s = t
    <3>1. CASE g \in F /\ h \in F
      BY <1>2, <2>1, <3>1
    <3>2. CASE g = f /\ h = f
      BY <1>1, <1>7, <2>1, <3>2
    <3>3. CASE g \in F /\ h = f
      BY <1>2, <1>11, <2>1, <3>3
    <3>4. CASE g = f /\ h \in F
      BY <1>2, <1>11, <2>1, <3>4
    <3> QED BY <3>1, <3>2, <3>3, <3>4
  <2> QED BY <2>1
<1>13. \A g \in G : \A s \in Side : SourceAt(g, s) \in T \ next
  BY <1>2, <1>6, <1>11
<1>14. \A o \in T \ next : \E g \in G : \E s \in Side : SourceAt(g, s) = o
  BY <1>1, <1>2, <1>6, <1>7
<1>15. ASSUME NEW g \in G, NEW h \in G, NEW s \in Side, SourceAt(g, s) \in {Winner(h.key), Loser(h.key)}
       PROVE  h.round < g.round
  <2>1. SourceAt(g, s) \in S
    BY <1>2, <1>11
  <2>2. h \in F
    BY <1>1, <1>4, <1>15, <2>1
  <2>3. CASE g \in F
    BY <1>2, <1>15, <2>2, <2>3
  <2>4. CASE g = f
    BY <1>1, <1>11, <1>15, <2>2, <2>4
  <2> QED BY <2>3, <2>4
<1>16. PartialPlan(G, entries, next)
  BY <1>8, <1>9, <1>10, <1>12, <1>13, <1>14, <1>15 DEF PartialPlan, T
<1> QED BY <1>16

-----------------------------------------------------------------------------
(* The lower entries of a double chance and their branches. *)

(* The entries below the elite, and those of one of their branches. *)
LowerOf(order) == {order[s] : s \in EliteCount(Len(order)) + 1 .. Len(order)}
BranchOf(order, i) == {LowerBranch(order, i)[j] : j \in 1 .. Len(LowerBranch(order, i))}

(* With fewer than eight entries all but two are in one branch. *)
LEMMA OneBranch ==
  ASSUME NEW order, NEW entries, ProperOrder(order, entries), Len(order) >= 3, Len(order) < 8
  PROVE  /\ EliteCount(Len(order)) = 2 /\ EliteCount(Len(order)) \div 2 = 1
         /\ ProperOrder(LowerBranch(order, 1), BranchOf(order, 1))
         /\ Len(LowerBranch(order, 1)) >= 1
         /\ BranchOf(order, 1) = LowerOf(order)
         /\ entries = {order[1], order[2]} \cup LowerOf(order)
         /\ order[1] \notin LowerOf(order) /\ order[2] \notin LowerOf(order) /\ order[1] # order[2]
<1> DEFINE n == Len(order)
           branch == LowerBranch(order, 1)
<1>1. n \in Nat /\ n >= 3 /\ n < 8 /\ Bye \notin entries
      /\ (\A s \in 1 .. n : order[s] \in entries)
      /\ (\A e \in entries : \E s \in 1 .. n : order[s] = e)
      /\ (\A s, t \in 1 .. n : order[s] = order[t] => s = t)
  BY DEF ProperOrder
<1>2. EliteCount(n) = 2 /\ EliteCount(n) \div 2 = 1
  BY <1>1 DEF EliteCount
<1>3. branch = [j \in 1 .. n - 2 |-> order[2 + j]]
  <2>1. (n - 2 - 1 + 1) \div 1 = n - 2
    BY <1>1
  <2>2. \A j \in 1 .. n - 2 : 2 + 1 + (j - 1) * 1 = 2 + j
    BY <1>1
  <2>3. branch = [j \in 1 .. (n - 2 - 1 + 1) \div 1 |-> order[2 + 1 + (j - 1) * 1]]
    BY <1>2 DEF LowerBranch
  <2> HIDE DEF n, branch
  <2> QED BY <2>1, <2>2, <2>3
<1> HIDE DEF n, branch
<1>4. branch \in Seq(entries) /\ Len(branch) = n - 2
  <2>1. branch \in [1 .. n - 2 -> entries] /\ n - 2 \in Nat
    BY <1>1, <1>3
  <2> QED BY <2>1
<1>5. BranchOf(order, 1) = {branch[j] : j \in 1 .. n - 2}
  BY <1>4 DEF BranchOf, branch
<1>6. branch \in Seq(BranchOf(order, 1))
  <2>1. branch \in [1 .. n - 2 -> BranchOf(order, 1)] /\ n - 2 \in Nat
    BY <1>1, <1>3, <1>5
  <2> QED BY <2>1
<1>7. ProperOrder(branch, BranchOf(order, 1))
  <2>1. Bye \notin BranchOf(order, 1)
    BY <1>1, <1>3, <1>5
  <2>2. \A s, t \in 1 .. n - 2 : branch[s] = branch[t] => s = t
    <3>1. ASSUME NEW s \in 1 .. n - 2, NEW t \in 1 .. n - 2, branch[s] = branch[t] PROVE s = t
      <4>1. 2 + s \in 1 .. n /\ 2 + t \in 1 .. n /\ order[2 + s] = order[2 + t]
        BY <1>1, <1>3, <3>1
      <4>2. 2 + s = 2 + t
        BY <1>1, <4>1
      <4> QED BY <4>2
    <3> QED BY <3>1
  <2> QED BY <1>4, <1>5, <1>6, <2>1, <2>2 DEF ProperOrder
<1>8. LowerOf(order) = {order[s] : s \in 3 .. n}
  BY <1>2 DEF LowerOf, n
<1>9. BranchOf(order, 1) = LowerOf(order)
  <2>1. ASSUME NEW j \in 1 .. n - 2 PROVE 2 + j \in 3 .. n /\ branch[j] = order[2 + j]
    BY <1>1, <1>3
  <2>2. ASSUME NEW s \in 3 .. n PROVE s - 2 \in 1 .. n - 2 /\ branch[s - 2] = order[s]
    <3>1. s - 2 \in 1 .. n - 2 /\ 2 + (s - 2) = s
      BY <1>1
    <3> QED BY <1>3, <3>1
  <2>3. ASSUME NEW e, e \in BranchOf(order, 1) PROVE e \in LowerOf(order)
    BY <1>5, <1>8, <2>1, <2>3
  <2>4. ASSUME NEW e, e \in LowerOf(order) PROVE e \in BranchOf(order, 1)
    BY <1>5, <1>8, <2>2, <2>4
  <2> QED BY <2>3, <2>4
<1>10. entries = {order[1], order[2]} \cup LowerOf(order)
  <2>1. \A s \in 1 .. n : s = 1 \/ s = 2 \/ s \in 3 .. n
    BY <1>1
  <2>2. 1 \in 1 .. n /\ 2 \in 1 .. n /\ \A s \in 3 .. n : s \in 1 .. n
    BY <1>1
  <2> QED BY <1>1, <1>8, <2>1, <2>2
<1>11. order[1] \notin LowerOf(order) /\ order[2] \notin LowerOf(order) /\ order[1] # order[2]
  BY <1>1, <1>8
<1> QED BY <1>1, <1>2, <1>4, <1>7, <1>9, <1>10, <1>11 DEF n, branch

(* With eight or more all but four are dealt out to two branches. *)
LEMMA TwoBranches ==
  ASSUME NEW order, NEW entries, ProperOrder(order, entries), Len(order) >= 8
  PROVE  /\ EliteCount(Len(order)) = 4 /\ EliteCount(Len(order)) \div 2 = 2
         /\ \A i \in {1, 2} : /\ ProperOrder(LowerBranch(order, i), BranchOf(order, i))
                              /\ Len(LowerBranch(order, i)) >= 2
         /\ BranchOf(order, 1) \cap BranchOf(order, 2) = {}
         /\ BranchOf(order, 1) \cup BranchOf(order, 2) = LowerOf(order)
         /\ entries = {order[1], order[2], order[3], order[4]} \cup LowerOf(order)
         /\ \A s \in {1, 2, 3, 4} : order[s] \notin LowerOf(order)
         /\ \A s, t \in {1, 2, 3, 4} : order[s] = order[t] => s = t
<1> DEFINE n == Len(order)
           branch(i) == LowerBranch(order, i)
           size(i) == (n - 2 - i) \div 2
<1>1. n \in Nat /\ n >= 8 /\ Bye \notin entries
      /\ (\A s \in 1 .. n : order[s] \in entries)
      /\ (\A e \in entries : \E s \in 1 .. n : order[s] = e)
      /\ (\A s, t \in 1 .. n : order[s] = order[t] => s = t)
  BY DEF ProperOrder
<1>2. EliteCount(n) = 4 /\ EliteCount(n) \div 2 = 2
  BY <1>1 DEF EliteCount
<1>3. \A i \in {1, 2} : branch(i) = [j \in 1 .. size(i) |-> order[2 + i + 2 * j]]
  <2>1. \A i \in {1, 2} : (n - 4 - i + 2) \div 2 = size(i)
    BY <1>1
  <2>2. \A i \in {1, 2} : \A j \in 1 .. size(i) : 4 + i + (j - 1) * 2 = 2 + i + 2 * j
    BY <1>1
  <2>3. \A i \in {1, 2} : branch(i) = [j \in 1 .. (n - 4 - i + 2) \div 2 |-> order[4 + i + (j - 1) * 2]]
    BY <1>2 DEF LowerBranch
  <2> HIDE DEF n, branch, size
  <2> QED BY <2>1, <2>2, <2>3
<1>4. \A i \in {1, 2} : size(i) \in Nat /\ size(i) >= 2
  BY <1>1
<1>5. \A i \in {1, 2} : \A j \in 1 .. size(i) : 2 + i + 2 * j \in 5 .. n
  BY <1>1
<1> HIDE DEF n, branch
<1>6. \A i \in {1, 2} : branch(i) \in Seq(entries) /\ Len(branch(i)) = size(i)
  <2>1. ASSUME NEW i \in {1, 2} PROVE branch(i) \in [1 .. size(i) -> entries] /\ size(i) \in Nat
    <3>1. \A j \in 1 .. size(i) : order[2 + i + 2 * j] \in entries
      BY <1>1, <1>5
    <3> HIDE DEF size
    <3> QED BY <1>3, <1>4, <3>1
  <2>2. ASSUME NEW i \in {1, 2} PROVE branch(i) \in Seq(entries) /\ Len(branch(i)) = size(i)
    <3> HIDE DEF size
    <3> QED BY <2>1
  <2> QED BY <2>2
<1>7. \A i \in {1, 2} : BranchOf(order, i) = {branch(i)[j] : j \in 1 .. size(i)}
  BY <1>6 DEF BranchOf, branch
<1>8. \A i \in {1, 2} : \A j \in 1 .. size(i) : branch(i)[j] = order[2 + i + 2 * j]
  <2> HIDE DEF size
  <2>1. ASSUME NEW i \in {1, 2}, NEW j \in 1 .. size(i) PROVE branch(i)[j] = order[2 + i + 2 * j]
    <3>1. branch(i) = [k \in 1 .. size(i) |-> order[2 + i + 2 * k]]
      BY <1>3
    <3> QED BY <3>1
  <2> QED BY <2>1
<1>9. ASSUME NEW i \in {1, 2} PROVE ProperOrder(branch(i), BranchOf(order, i))
  <2>1. Bye \notin BranchOf(order, i)
    <3>1. \A j \in 1 .. size(i) : order[2 + i + 2 * j] \in entries
      BY <1>1, <1>5
    <3> HIDE DEF size
    <3>2. \A j \in 1 .. size(i) : branch(i)[j] \in entries
      BY <1>8, <3>1
    <3>3. BranchOf(order, i) = {branch(i)[j] : j \in 1 .. size(i)}
      BY <1>7
    <3>4. BranchOf(order, i) \subseteq entries
      BY <3>2, <3>3
    <3> QED BY <1>1, <3>4
  <2>2. \A s, t \in 1 .. size(i) : branch(i)[s] = branch(i)[t] => s = t
    <3>1. ASSUME NEW s \in 1 .. size(i), NEW t \in 1 .. size(i), branch(i)[s] = branch(i)[t] PROVE s = t
      <4>1. order[2 + i + 2 * s] = order[2 + i + 2 * t]
        BY <1>8, <3>1
      <4>2. 2 + i + 2 * s \in 1 .. n /\ 2 + i + 2 * t \in 1 .. n
        BY <1>1, <1>5
      <4>3. 2 + i + 2 * s = 2 + i + 2 * t
        BY <1>1, <4>1, <4>2
      <4>4. s \in Nat /\ t \in Nat
        BY <1>4
      <4> QED BY <4>3, <4>4
    <3> QED BY <3>1
  <2> HIDE DEF size
  <2>3. branch(i) \in Seq(BranchOf(order, i))
    <3>1. branch(i) \in [1 .. size(i) -> BranchOf(order, i)]
      BY <1>3, <1>7
    <3> QED BY <1>4, <3>1
  <2>4. \A e \in BranchOf(order, i) : \E s \in 1 .. size(i) : branch(i)[s] = e
    BY <1>7
  <2> QED BY <1>6, <2>1, <2>2, <2>3, <2>4 DEF ProperOrder
<1>10. LowerOf(order) = {order[s] : s \in 5 .. n}
  BY <1>2 DEF LowerOf, n
<1>11. BranchOf(order, 1) \cup BranchOf(order, 2) = LowerOf(order)
  <2>1. ASSUME NEW i \in {1, 2}, NEW e \in BranchOf(order, i) PROVE e \in LowerOf(order)
    <3>1. PICK j \in 1 .. size(i) : e = branch(i)[j]
      BY <1>7
    <3>2. 2 + i + 2 * j \in 5 .. n
      BY <1>5
    <3>3. e = order[2 + i + 2 * j]
      BY <1>8, <3>1
    <3> QED BY <1>10, <3>2, <3>3
  <2>2. ASSUME NEW e \in LowerOf(order) PROVE e \in BranchOf(order, 1) \cup BranchOf(order, 2)
    <3>1. PICK s \in 5 .. n : e = order[s]
      BY <1>10
    <3>2. \/ (s - 3) \div 2 \in 1 .. size(1) /\ s = 2 + 1 + 2 * ((s - 3) \div 2)
          \/ (s - 4) \div 2 \in 1 .. size(2) /\ s = 2 + 2 + 2 * ((s - 4) \div 2)
      BY <1>1
    <3> HIDE DEF size
    <3> QED BY <1>7, <1>8, <3>1, <3>2
  <2> QED BY <2>1, <2>2
<1>12. BranchOf(order, 1) \cap BranchOf(order, 2) = {}
  <2>1. ASSUME NEW e \in BranchOf(order, 1), e \in BranchOf(order, 2) PROVE FALSE
    <3>1. PICK j \in 1 .. size(1) : e = order[2 + 1 + 2 * j]
      BY <1>7, <1>8
    <3>2. PICK k \in 1 .. size(2) : e = order[2 + 2 + 2 * k]
      BY <1>7, <1>8, <2>1
    <3>3. 2 + 1 + 2 * j \in 1 .. n /\ 2 + 2 + 2 * k \in 1 .. n /\ j \in Nat /\ k \in Nat
      BY <1>1, <1>4, <1>5
    <3>4. 2 + 1 + 2 * j = 2 + 2 + 2 * k
      BY <1>1, <3>1, <3>2, <3>3
    <3> QED BY <3>3, <3>4
  <2> QED BY <2>1
<1>13. entries = {order[1], order[2], order[3], order[4]} \cup LowerOf(order)
  <2>1. \A s \in 1 .. n : s = 1 \/ s = 2 \/ s = 3 \/ s = 4 \/ s \in 5 .. n
    BY <1>1
  <2>2. {1, 2, 3, 4} \cup 5 .. n \subseteq 1 .. n
    BY <1>1
  <2> QED BY <1>1, <1>10, <2>1, <2>2
<1>14. /\ \A s \in {1, 2, 3, 4} : order[s] \notin LowerOf(order)
       /\ \A s, t \in {1, 2, 3, 4} : order[s] = order[t] => s = t
  BY <1>1, <1>10
<1> QED BY <1>2, <1>4, <1>6, <1>9, <1>11, <1>12, <1>13, <1>14 DEF n, branch

(* A branch of the lower entries leaves its survivor. *)
LEMMA LowerPart ==
  ASSUME NEW order, NEW i \in {1, 2},
         ProperOrder(LowerBranch(order, i), BranchOf(order, i)), Len(LowerBranch(order, i)) >= 1
  PROVE  /\ PartialPlan(LowerFixtures(order, i), BranchOf(order, i), {LowerSurvivor(order, i)})
         /\ \A f \in LowerFixtures(order, i) :
              f.key.prefix = LowerPath[i] /\ f.key.prefix # "QUALIFYING" /\ f.round \in Nat
         /\ LowerFixtures(order, i) # {} =>
              \E f \in LowerFixtures(order, i) : \A g \in LowerFixtures(order, i) : g.round <= f.round
<1> DEFINE branch == LowerBranch(order, i)
           entries == BranchOf(order, i)
           F == LowerFixtures(order, i)
           out == LowerSurvivor(order, i)
<1>0. ProperOrder(branch, entries)
  OBVIOUS
<1>1. Len(branch) >= 1 /\ Len(branch) \in Nat
  <2>1. branch \in Seq(entries)
    BY <1>0 DEF ProperOrder
  <2> QED BY <2>1
<1>2. LowerPath[i] # "QUALIFYING"
  <2>1. LowerPath[1] = "LOWER1" /\ LowerPath[2] = "LOWER2"
    BY DEF LowerPath
  <2> QED BY <2>1
<1>3. CASE Len(branch) = 1
  <2>1. F = {} /\ out = Seed(branch[1])
    BY <1>3 DEF LowerFixtures, LowerSurvivor
  <2>2. entries = {branch[1]}
    <3>1. 1 .. Len(branch) = {1}
      BY <1>3
    <3> QED BY <3>1 DEF BranchOf
  <2>3. {out} = {Seed(e) : e \in entries}
    BY <2>1, <2>2
  <2>4. PartialPlan(F, entries, {out})
    BY <2>1, <2>3, NoFixtureYet
  <2> QED BY <2>1, <2>4
<1>4. CASE Len(branch) # 1
  <2> HIDE DEF branch, entries, F, out
  <2> DEFINE K == BracketRounds(Len(branch))
             slots == SeededSlots(branch)
             last == Match(LowerPath[i], slots, K, 1)
  <2>1. F = Knockout(LowerPath[i], slots) /\ out = Winner(Key(LowerPath[i], K, 1))
    BY <1>4 DEF LowerFixtures, LowerSurvivor, branch, F, out
  <2>2. ProperSlots(slots, entries, K)
    <3>1. Len(branch) >= 2
      <4> DEFINE n == Len(branch)
      <4>1. n \in Nat /\ n >= 1 /\ n # 1
        BY <1>1, <1>4
      <4> HIDE DEF n
      <4>2. n >= 2
        BY <4>1
      <4> QED BY <4>2 DEF n
    <3> QED BY <1>0, <3>1, SeededProper
  <2>3. /\ ProperPlan(F, entries, last) /\ last.key = Key(LowerPath[i], K, 1)
        /\ \A f \in F : f.key.prefix = LowerPath[i] /\ f.round \in 1 .. K
    <3> DEFINE prefix == LowerPath[i]
    <3>1. prefix # "QUALIFYING" /\ F = Knockout(prefix, slots)
      BY <1>2, <2>1
    <3> HIDE DEF slots, K, prefix, last
    <3>2. ProperPlan(Knockout(prefix, slots), entries, Match(prefix, slots, K, 1))
      BY <2>2, <3>1, KnockoutProper
    <3>3. \A f \in Knockout(prefix, slots) : f.key.prefix = prefix /\ f.round \in 1 .. K
      BY <2>2, <3>1, KnockoutProper
    <3>4. Match(prefix, slots, K, 1).key = Key(prefix, K, 1)
      BY KeysDiffer DEF Match
    <3> QED BY <3>1, <3>2, <3>3, <3>4 DEF prefix, last
  <2> HIDE DEF last, K, slots
  <2>4. PartialPlan(F, entries, {out}) /\ last \in F
        /\ (\A f \in F : f.round \in Nat) /\ (\A f \in F : f # last => f.round < last.round)
    BY <2>1, <2>3 DEF ProperPlan, PartialPlan
  <2>5. \A f \in F : f.round <= last.round
    BY <2>4
  <2> QED BY <1>2, <2>3, <2>4, <2>5 DEF F, out, entries
<1> QED BY <1>3, <1>4

-----------------------------------------------------------------------------
(* The fixtures of a double chance. *)

(* The fixtures of a double chance above the lower branches. *)
QualifyingFinal(order, first, i) ==
  Fixture(Key("QUALIFYING", first, i), Seed(order[i]), Seed(order[EliteCount(Len(order)) + 1 - i]))
SecondChance(order, first, i) ==
  Fixture(Key("SECOND", first + 1, i), Loser(Key("QUALIFYING", first, i)), LowerSurvivor(order, i))
Semifinal(first, i) ==
  Fixture(Key("SEMI", first + 2, i), Winner(Key("QUALIFYING", first, i)),
                                     Winner(Key("SECOND", first + 1, 3 - i)))
FinalOfTwo(first) ==
  Fixture(Key("FINAL", first + 2, 1), Winner(Key("QUALIFYING", first, 1)),
                                      Winner(Key("SECOND", first + 1, 1)))
FinalOfFour(first) ==
  Fixture(Key("FINAL", first + 3, 1), Winner(Key("SEMI", first + 2, 1)),
                                      Winner(Key("SEMI", first + 2, 2)))

(* The round of the qualifying finals. *)
FirstRound(lower) == IF lower = {} THEN 1
                     ELSE CHOOSE r \in {f.round : f \in lower} : \A f \in lower : f.round <= r

(* The elite come in when the lower entries are done. *)
LEMMA FirstRoundBounds ==
  ASSUME NEW lower, \A f \in lower : f.round \in Nat,
         lower # {} => \E f \in lower : \A g \in lower : g.round <= f.round
  PROVE  FirstRound(lower) \in Nat /\ \A f \in lower : f.round <= FirstRound(lower)
<1>1. CASE lower = {}
  BY <1>1 DEF FirstRound
<1>2. CASE lower # {}
  <2> DEFINE P(r) == \A f \in lower : f.round <= r
  <2>1. \E r \in {f.round : f \in lower} : P(r)
    BY <1>2
  <2>2. FirstRound(lower) = CHOOSE r \in {f.round : f \in lower} : P(r)
    BY <1>2 DEF FirstRound
  <2>3. FirstRound(lower) \in {f.round : f \in lower} /\ P(FirstRound(lower))
    <3> HIDE DEF P
    <3> QED BY <2>1, <2>2
  <2> QED BY <2>3
<1> QED BY <1>1, <1>2

(* The double chance as the sum of its fixtures. *)
LEMMA DoubleChanceOfTwo ==
  ASSUME NEW order, EliteCount(Len(order)) = 2
  PROVE  LET first == FirstRound(LowerFixtures(order, 1)) IN
         DoubleChance(order) =
           (((LowerFixtures(order, 1) \cup {QualifyingFinal(order, first, 1)})
             \cup {SecondChance(order, first, 1)}) \cup {FinalOfTwo(first)})
<1> DEFINE lower == UNION {LowerFixtures(order, i) : i \in 1 .. 2 \div 2}
           first == FirstRound(lower)
<1>1. 1 .. 2 \div 2 = {1}
  OBVIOUS
<1>2. lower = LowerFixtures(order, 1)
  BY <1>1
<1>3. DoubleChance(order) =
        lower
        \cup {Fixture(Key("QUALIFYING", first, i), Seed(order[i]), Seed(order[2 + 1 - i])) : i \in 1 .. 2 \div 2}
        \cup {Fixture(Key("SECOND", first + 1, i), Loser(Key("QUALIFYING", first, i)), LowerSurvivor(order, i)) :
                i \in 1 .. 2 \div 2}
        \cup {Fixture(Key("FINAL", first + 2, 1), Winner(Key("QUALIFYING", first, 1)),
                                                  Winner(Key("SECOND", first + 1, 1)))}
  BY DEF DoubleChance, FirstRound
<1> HIDE DEF lower, first
<1>4. {Fixture(Key("QUALIFYING", first, i), Seed(order[i]), Seed(order[2 + 1 - i])) : i \in 1 .. 2 \div 2}
        = {QualifyingFinal(order, first, 1)}
  BY <1>1 DEF QualifyingFinal
<1>5. {Fixture(Key("SECOND", first + 1, i), Loser(Key("QUALIFYING", first, i)), LowerSurvivor(order, i)) :
                i \in 1 .. 2 \div 2} = {SecondChance(order, first, 1)}
  BY <1>1 DEF SecondChance
<1>6. DoubleChance(order) = (((lower \cup {QualifyingFinal(order, first, 1)})
                              \cup {SecondChance(order, first, 1)}) \cup {FinalOfTwo(first)})
  BY <1>3, <1>4, <1>5 DEF FinalOfTwo
<1> QED BY <1>2, <1>6 DEF first

LEMMA DoubleChanceOfFour ==
  ASSUME NEW order, EliteCount(Len(order)) = 4
  PROVE  LET lower == LowerFixtures(order, 1) \cup LowerFixtures(order, 2)
             first == FirstRound(lower) IN
         DoubleChance(order) =
           lower \cup {QualifyingFinal(order, first, 1)} \cup {QualifyingFinal(order, first, 2)}
                 \cup {SecondChance(order, first, 1)} \cup {SecondChance(order, first, 2)}
                 \cup {Semifinal(first, 1)} \cup {Semifinal(first, 2)} \cup {FinalOfFour(first)}
<1> DEFINE pairs == 1 .. 4 \div 2
           lower == UNION {LowerFixtures(order, i) : i \in pairs}
           first == FirstRound(lower)
           from(i) == CHOOSE j \in pairs : SemifinalOfSecondChance(j) = i
           qualifying == {Fixture(Key("QUALIFYING", first, i), Seed(order[i]), Seed(order[4 + 1 - i])) : i \in pairs}
           second == {Fixture(Key("SECOND", first + 1, i), Loser(Key("QUALIFYING", first, i)), LowerSurvivor(order, i)) :
                        i \in pairs}
           semi == {Fixture(Key("SEMI", first + 2, i), Winner(Key("QUALIFYING", first, i)),
                                                       Winner(Key("SECOND", first + 1, from(i)))) : i \in pairs}
<1>1. pairs = {1, 2}
  OBVIOUS
<1>2. lower = LowerFixtures(order, 1) \cup LowerFixtures(order, 2)
  <2> HIDE DEF pairs
  <2> QED BY <1>1
<1>3. from(1) = 2 /\ from(2) = 1
  <2>1. \A j \in pairs : (SemifinalOfSecondChance(j) = 1 <=> j = 2) /\ (SemifinalOfSecondChance(j) = 2 <=> j = 1)
    BY <1>1 DEF SemifinalOfSecondChance
  <2> QED BY <1>1, <2>1
<1>4. DoubleChance(order) = lower \cup qualifying \cup second
        \cup (semi \cup {Fixture(Key("FINAL", first + 3, 1), Winner(Key("SEMI", first + 2, 1)),
                                                              Winner(Key("SEMI", first + 2, 2)))})
  BY DEF DoubleChance, FirstRound
<1> HIDE DEF pairs, lower, first, from
<1>5. qualifying = {QualifyingFinal(order, first, 1), QualifyingFinal(order, first, 2)}
  BY <1>1 DEF QualifyingFinal
<1>6. second = {SecondChance(order, first, 1), SecondChance(order, first, 2)}
  BY <1>1 DEF SecondChance
<1>7. semi = {Semifinal(first, 1), Semifinal(first, 2)}
  <2>1. semi = {Fixture(Key("SEMI", first + 2, i), Winner(Key("QUALIFYING", first, i)),
                                                       Winner(Key("SECOND", first + 1, 3 - i))) : i \in pairs}
    <3>1. \A i \in pairs : from(i) = 3 - i
      BY <1>1, <1>3
    <3> QED BY <3>1
  <2> HIDE DEF semi
  <2> QED BY <1>1, <2>1 DEF Semifinal
<1> HIDE DEF qualifying, second, semi
<1>8. DoubleChance(order) =
           lower \cup {QualifyingFinal(order, first, 1)} \cup {QualifyingFinal(order, first, 2)}
                 \cup {SecondChance(order, first, 1)} \cup {SecondChance(order, first, 2)}
                 \cup {Semifinal(first, 1)} \cup {Semifinal(first, 2)} \cup {FinalOfFour(first)}
  BY <1>4, <1>5, <1>6, <1>7 DEF FinalOfFour
<1> QED BY <1>2, <1>8 DEF first

-----------------------------------------------------------------------------
(* Who may meet in a double chance. *)

(* The entries between which a fixture of a double chance can be, and      *)
(* those who can come to a side of one, whatever the results.              *)
PairOf(order, i) == {order[i], order[EliteCount(Len(order)) + 1 - i]}
MayMeet(order, key) ==
  IF key.prefix \in {"LOWER1", "LOWER2"} THEN LowerOf(order)
  ELSE IF key.prefix = "QUALIFYING" THEN PairOf(order, key.position)
  ELSE IF key.prefix = "SECOND" THEN PairOf(order, key.position) \cup LowerOf(order)
  ELSE Range(order)
Possible(order, side) == IF side.from = "ENTRY" THEN {side.entry} ELSE MayMeet(order, side.of)

(* Who may come out of each source. *)
LEMMA PossibleAt ==
  ASSUME NEW order
  PROVE  /\ \A e : Possible(order, Seed(e)) = {e}
         /\ \A k : Possible(order, Winner(k)) = MayMeet(order, k)
         /\ \A k : Possible(order, Loser(k)) = MayMeet(order, k)
BY DEF Possible, Seed, Winner, Loser

(* The order has all entries, those below the elite among them. *)
LEMMA OrderRange ==
  ASSUME NEW order, NEW entries, ProperOrder(order, entries)
  PROVE  Range(order) = entries /\ LowerOf(order) \subseteq entries
<1>1. /\ order \in Seq(entries) /\ Len(order) \in Nat /\ DOMAIN order = 1 .. Len(order)
      /\ \A e \in entries : \E s \in 1 .. Len(order) : order[s] = e
  BY DEF ProperOrder
<1>2. \A s \in 1 .. Len(order) : order[s] \in entries
  BY <1>1
<1>3. Range(order) = entries
  BY <1>1, <1>2 DEF Range
<1>4. EliteCount(Len(order)) + 1 .. Len(order) \subseteq 1 .. Len(order)
  <2>1. EliteCount(Len(order)) \in {2, 4}
    BY DEF EliteCount
  <2> QED BY <1>1, <2>1
<1> QED BY <1>2, <1>3, <1>4 DEF LowerOf

(* The fixtures of a branch wait for entries of the branch only, and so    *)
(* does who waits for its survivor.                                        *)
LEMMA BranchSources ==
  ASSUME NEW order, NEW i \in {1, 2},
         ProperOrder(LowerBranch(order, i), BranchOf(order, i)), Len(LowerBranch(order, i)) >= 1
  PROVE  /\ \A f \in LowerFixtures(order, i) : \A s \in Side :
              \/ \E e \in BranchOf(order, i) : SourceAt(f, s) = Seed(e)
              \/ \E g \in LowerFixtures(order, i) : SourceAt(f, s) = Winner(g.key)
         /\ \/ \E e \in BranchOf(order, i) : LowerSurvivor(order, i) = Seed(e)
            \/ \E g \in LowerFixtures(order, i) : LowerSurvivor(order, i) = Winner(g.key)
<1> DEFINE F == LowerFixtures(order, i)
           E == BranchOf(order, i)
           out == LowerSurvivor(order, i)
<1>1. PartialPlan(F, E, {out}) /\ \A f \in F : f.key.prefix # "QUALIFYING"
  BY LowerPart
<1> HIDE DEF F, E, out
<1>2. \A o \in Sources(F, E) : (\E e \in E : o = Seed(e)) \/ (\E g \in F : o = Winner(g.key))
  BY <1>1 DEF Sources
<1>3. out \in Sources(F, E) /\ \A f \in F : \A s \in Side : SourceAt(f, s) \in Sources(F, E)
  BY <1>1 DEF PartialPlan
<1>4. /\ \A f \in F : \A s \in Side :
           (\E e \in E : SourceAt(f, s) = Seed(e)) \/ (\E g \in F : SourceAt(f, s) = Winner(g.key))
      /\ (\E e \in E : out = Seed(e)) \/ (\E g \in F : out = Winner(g.key))
  BY <1>2, <1>3
<1> QED BY <1>4 DEF F, E, out

(* What a plan of a double chance promises of rematches: nobody gets to a  *)
(* fixture who cannot meet there, and before the last fixture never both   *)
(* of a qualifying final.                                                  *)
NoRematches(fixtures, order, last) ==
  /\ \A f \in fixtures : \A s \in Side : Possible(order, SourceAt(f, s)) \subseteq MayMeet(order, f.key)
  /\ \A f \in fixtures \ {last} : \A q \in fixtures \ {f} :
       q.key.prefix = "QUALIFYING" =>
         \E s \in Side : Possible(order, SourceAt(f, s)) \cap MayMeet(order, q.key) = {}

(* The double chance of at most seven entries, fixture by fixture. *)
LEMMA DoubleChanceOfTwoProper ==
  ASSUME NEW order, NEW entries, ProperOrder(order, entries), Len(order) >= 3, Len(order) < 8
  PROVE  \E last : /\ ProperPlan(DoubleChance(order), entries, last)
                   /\ NoRematches(DoubleChance(order), order, last)
<1> DEFINE lower == LowerFixtures(order, 1)
           first == FirstRound(lower)
           below == LowerOf(order)
           out == LowerSurvivor(order, 1)
           qk == Key("QUALIFYING", first, 1)
           sk == Key("SECOND", first + 1, 1)
           fk == Key("FINAL", first + 2, 1)
           Q == QualifyingFinal(order, first, 1)
           S == SecondChance(order, first, 1)
           last == FinalOfTwo(first)
<1>1. /\ EliteCount(Len(order)) = 2
      /\ ProperOrder(LowerBranch(order, 1), BranchOf(order, 1))
      /\ Len(LowerBranch(order, 1)) >= 1
      /\ BranchOf(order, 1) = below
      /\ entries = {order[1], order[2]} \cup below
      /\ order[1] \notin below /\ order[2] \notin below /\ order[1] # order[2]
  BY OneBranch
<1>2. /\ PartialPlan(lower, below, {out})
      /\ \A f \in lower : f.key.prefix = "LOWER1" /\ f.round \in Nat
      /\ lower # {} => \E f \in lower : \A g \in lower : g.round <= f.round
  <2>1. LowerPath[1] = "LOWER1" /\ 1 \in {1, 2}
    BY DEF LowerPath
  <2> QED BY <1>1, <2>1, LowerPart
<1>3. /\ \A f \in lower : \A s \in Side :
           (\E e \in below : SourceAt(f, s) = Seed(e)) \/ (\E g \in lower : SourceAt(f, s) = Winner(g.key))
      /\ (\E e \in below : out = Seed(e)) \/ (\E g \in lower : out = Winner(g.key))
  BY <1>1, BranchSources
<1>4. first \in Nat /\ \A f \in lower : f.round <= first
  BY <1>2, FirstRoundBounds
<1>5. DoubleChance(order) = ((lower \cup {Q}) \cup {S}) \cup {last}
  BY <1>1, DoubleChanceOfTwo
<1>6. /\ Q = Fixture(qk, Seed(order[1]), Seed(order[2]))
      /\ S = Fixture(sk, Loser(qk), out)
      /\ last = Fixture(fk, Winner(qk), Winner(sk))
  <2>1. 2 + 1 - 1 = 2
    OBVIOUS
  <2> QED BY <1>1, <2>1 DEF QualifyingFinal, SecondChance, FinalOfTwo
<1>7. /\ qk.prefix = "QUALIFYING" /\ qk.round = first /\ qk.position = 1
      /\ sk.prefix = "SECOND" /\ sk.round = first + 1 /\ sk.position = 1
      /\ fk.prefix = "FINAL" /\ fk.round = first + 2
  BY KeysDiffer
<1>8. Q.key = qk /\ Q.round = first /\ S.key = sk /\ S.round = first + 1 /\ last.key = fk /\ last.round = first + 2
  BY <1>6, <1>7, KeysDiffer
<1> HIDE DEF lower, first, below, out, qk, sk, fk, Q, S, last
<1>9. PartialPlan(lower, entries, {Seed(order[1]), Seed(order[2])} \cup {out})
  <2>1. PartialPlan({}, {order[1], order[2]}, {Seed(order[1]), Seed(order[2])})
    <3>1. {Seed(e) : e \in {order[1], order[2]}} = {Seed(order[1]), Seed(order[2])}
      OBVIOUS
    <3> QED BY <3>1, NoFixtureYet
  <2>2. {order[1], order[2]} \cap below = {}
    BY <1>1
  <2>3. PartialPlan({} \cup lower, {order[1], order[2]} \cup below, {Seed(order[1]), Seed(order[2])} \cup {out})
    BY <1>2, <2>1, <2>2, PartsJoin
  <2>4. {} \cup lower = lower
    OBVIOUS
  <2> QED BY <1>1, <2>3, <2>4
<1>10. /\ \A e : (out = Seed(e) => e \in below)
       /\ \A k : (out = Winner(k) => k.prefix = "LOWER1") /\ out # Loser(k)
  BY <1>2, <1>3, SourcesDiffer
<1>11. PartialPlan(lower \cup {Q}, entries, {out} \cup {Winner(qk)} \cup {Loser(qk)})
  <2>1. Seed(order[1]) # Seed(order[2]) /\ Seed(order[1]) \notin {out} /\ Seed(order[2]) \notin {out}
    BY <1>1, <1>10, SourcesDiffer
  <2>2. qk.round \in Nat /\ \A g \in lower : g.key # qk
    BY <1>2, <1>4, <1>7
  <2>3. \A g \in lower : ~({Seed(order[1]), Seed(order[2])} \cap {Winner(g.key), Loser(g.key)} # {})
    BY SourcesDiffer
  <2>4. {out} \cup {Winner(qk)} \cup {Loser(qk)}
          = {out} \cup {Winner(qk)} \cup IF qk.prefix = "QUALIFYING" THEN {Loser(qk)} ELSE {}
    BY <1>7
  <2> QED BY <1>6, <1>9, <2>1, <2>2, <2>3, <2>4, FixtureAdded
<1>12. PartialPlan((lower \cup {Q}) \cup {S}, entries, {Winner(qk)} \cup {Winner(sk)})
  <2> DEFINE F == lower \cup {Q}
             left == {out} \cup {Winner(qk)} \cup {Loser(qk)}
             rest == {Winner(qk)}
             next == {Winner(qk)} \cup {Winner(sk)}
             home == Loser(qk)
  <2>1. home # out /\ home \notin rest /\ out \notin rest
    BY <1>7, <1>10, SourcesDiffer
  <2>2. sk.round \in Nat /\ \A g \in F : g.key # sk
    BY <1>2, <1>4, <1>7, <1>8
  <2>3. \A g \in F : {home, out} \cap {Winner(g.key), Loser(g.key)} # {} => g.round < sk.round
    BY <1>2, <1>4, <1>7, <1>8
  <2>4. left = {home, out} \cup rest
    OBVIOUS
  <2>5. next = rest \cup {Winner(sk)} \cup IF sk.prefix = "QUALIFYING" THEN {Loser(sk)} ELSE {}
    BY <1>7
  <2>6. PartialPlan(F, entries, left) /\ S = Fixture(sk, home, out)
    BY <1>6, <1>11
  <2> HIDE DEF F, left, rest, next, home
  <2>7. PartialPlan(F \cup {S}, entries, next)
    BY <2>1, <2>2, <2>3, <2>4, <2>5, <2>6, FixtureAdded
  <2> QED BY <2>7 DEF F, next
<1>13. PartialPlan(((lower \cup {Q}) \cup {S}) \cup {last}, entries, {Winner(fk)})
  <2> DEFINE F == (lower \cup {Q}) \cup {S}
             left == {Winner(qk)} \cup {Winner(sk)}
             rest == {}
             next == {Winner(fk)}
             home == Winner(qk)
             away == Winner(sk)
  <2>1. home # away /\ home \notin rest /\ away \notin rest
    BY <1>7, SourcesDiffer
  <2>2. fk.round \in Nat /\ \A g \in F : g.key # fk
    BY <1>2, <1>4, <1>7, <1>8
  <2>3. \A g \in F : {home, away} \cap {Winner(g.key), Loser(g.key)} # {} => g.round < fk.round
    BY <1>2, <1>4, <1>7, <1>8
  <2>4. left = {home, away} \cup rest
    OBVIOUS
  <2>5. next = rest \cup {Winner(fk)} \cup IF fk.prefix = "QUALIFYING" THEN {Loser(fk)} ELSE {}
    BY <1>7
  <2>6. PartialPlan(F, entries, left) /\ last = Fixture(fk, home, away)
    BY <1>6, <1>12
  <2> HIDE DEF F, left, rest, next, home, away
  <2>7. PartialPlan(F \cup {last}, entries, next)
    BY <2>1, <2>2, <2>3, <2>4, <2>5, <2>6, FixtureAdded
  <2> QED BY <2>7 DEF F, next
<1>14. ProperPlan(DoubleChance(order), entries, last)
  <2>1. \A f \in DoubleChance(order) : f # last => f.round < last.round
    BY <1>2, <1>4, <1>5, <1>8
  <2> QED BY <1>5, <1>7, <1>8, <1>13, <2>1 DEF ProperPlan
<1>15. /\ \A f \in lower : MayMeet(order, f.key) = below
       /\ MayMeet(order, qk) = {order[1], order[2]}
       /\ MayMeet(order, sk) = {order[1], order[2]} \cup below
       /\ MayMeet(order, fk) = entries
  <2>1. PairOf(order, 1) = {order[1], order[2]}
    BY <1>1 DEF PairOf
  <2> QED BY <1>2, <1>7, <2>1, OrderRange DEF MayMeet, below
<1>16. /\ \A f \in lower : \A s \in Side : Possible(order, SourceAt(f, s)) \subseteq below
       /\ Possible(order, out) \subseteq below
  <2>1. /\ \A e \in below : Possible(order, Seed(e)) \subseteq below
        /\ \A g \in lower : Possible(order, Winner(g.key)) \subseteq below
    BY <1>15, PossibleAt
  <2> QED BY <1>3, <2>1
<1>17. /\ SourceAt(Q, 1) = Seed(order[1]) /\ SourceAt(Q, 2) = Seed(order[2])
       /\ SourceAt(S, 1) = Loser(qk) /\ SourceAt(S, 2) = out
       /\ SourceAt(last, 1) = Winner(qk) /\ SourceAt(last, 2) = Winner(sk)
  BY <1>6, KeysDiffer DEF SourceAt
<1>18. 1 \in Side /\ 2 \in Side /\ \A s \in Side : s = 1 \/ s = 2
  BY DEF Side
<1>19. \A f \in DoubleChance(order) : \A s \in Side : Possible(order, SourceAt(f, s)) \subseteq MayMeet(order, f.key)
  <2>1. \A s \in Side : Possible(order, SourceAt(Q, s)) \subseteq MayMeet(order, qk)
    BY <1>15, <1>17, <1>18, PossibleAt
  <2>2. \A s \in Side : Possible(order, SourceAt(S, s)) \subseteq MayMeet(order, sk)
    BY <1>15, <1>16, <1>17, <1>18, PossibleAt
  <2>3. \A s \in Side : Possible(order, SourceAt(last, s)) \subseteq MayMeet(order, fk)
    BY <1>1, <1>15, <1>17, <1>18, PossibleAt
  <2>4. \A f \in lower : \A s \in Side : Possible(order, SourceAt(f, s)) \subseteq MayMeet(order, f.key)
    BY <1>15, <1>16
  <2> QED BY <1>5, <1>8, <2>1, <2>2, <2>3, <2>4
<1>20. ASSUME NEW f \in DoubleChance(order) \ {last}, NEW q \in DoubleChance(order) \ {f},
              q.key.prefix = "QUALIFYING"
       PROVE  \E s \in Side : Possible(order, SourceAt(f, s)) \cap MayMeet(order, q.key) = {}
  <2>1. q = Q
    BY <1>2, <1>5, <1>7, <1>8, <1>20
  <2>2. MayMeet(order, q.key) \cap below = {}
    BY <1>1, <1>8, <1>15, <2>1
  <2>3. f \in lower \/ f = S
    BY <1>5, <2>1
  <2> QED BY <1>16, <1>17, <1>18, <2>2, <2>3
<1> QED BY <1>14, <1>19, <1>20 DEF NoRematches

(* The double chance of eight entries and more, fixture by fixture. *)
LEMMA DoubleChanceOfFourProper ==
  ASSUME NEW order, NEW entries, ProperOrder(order, entries), Len(order) >= 8
  PROVE  \E last : /\ ProperPlan(DoubleChance(order), entries, last)
                   /\ NoRematches(DoubleChance(order), order, last)
<1> DEFINE lower1 == LowerFixtures(order, 1)
           lower2 == LowerFixtures(order, 2)
           lower == lower1 \cup lower2
           first == FirstRound(lower)
           below1 == BranchOf(order, 1)
           below2 == BranchOf(order, 2)
           below == LowerOf(order)
           out1 == LowerSurvivor(order, 1)
           out2 == LowerSurvivor(order, 2)
           o1 == order[1]
           o2 == order[2]
           o3 == order[3]
           o4 == order[4]
           q1 == Key("QUALIFYING", first, 1)
           q2 == Key("QUALIFYING", first, 2)
           s1 == Key("SECOND", first + 1, 1)
           s2 == Key("SECOND", first + 1, 2)
           m1 == Key("SEMI", first + 2, 1)
           m2 == Key("SEMI", first + 2, 2)
           fk == Key("FINAL", first + 3, 1)
           Q1 == QualifyingFinal(order, first, 1)
           Q2 == QualifyingFinal(order, first, 2)
           S1 == SecondChance(order, first, 1)
           S2 == SecondChance(order, first, 2)
           M1 == Semifinal(first, 1)
           M2 == Semifinal(first, 2)
           last == FinalOfFour(first)
<1>1. /\ EliteCount(Len(order)) = 4
      /\ \A i \in {1, 2} : /\ ProperOrder(LowerBranch(order, i), BranchOf(order, i))
                           /\ Len(LowerBranch(order, i)) >= 2
      /\ below1 \cap below2 = {} /\ below1 \cup below2 = below
      /\ entries = {o1, o2, o3, o4} \cup below
      /\ \A s \in {1, 2, 3, 4} : order[s] \notin LowerOf(order)
      /\ \A s, t \in {1, 2, 3, 4} : order[s] = order[t] => s = t
  BY TwoBranches
<1>2. /\ o1 \notin below /\ o2 \notin below /\ o3 \notin below /\ o4 \notin below
      /\ o1 # o2 /\ o1 # o3 /\ o1 # o4 /\ o2 # o3 /\ o2 # o4 /\ o3 # o4
  BY <1>1
<1>3. \A i \in {1, 2} :
        /\ PartialPlan(LowerFixtures(order, i), BranchOf(order, i), {LowerSurvivor(order, i)})
        /\ \A f \in LowerFixtures(order, i) : f.key.prefix = LowerPath[i] /\ f.round \in Nat
        /\ LowerFixtures(order, i) # {} =>
             \E f \in LowerFixtures(order, i) : \A g \in LowerFixtures(order, i) : g.round <= f.round
  <2>1. ASSUME NEW i \in {1, 2}
        PROVE  ProperOrder(LowerBranch(order, i), BranchOf(order, i)) /\ Len(LowerBranch(order, i)) >= 1
    <3>1. Len(LowerBranch(order, i)) \in Nat
      BY <1>1 DEF ProperOrder
    <3> QED BY <1>1, <3>1
  <2> QED BY <2>1, LowerPart
<1>4. /\ PartialPlan(lower1, below1, {out1}) /\ PartialPlan(lower2, below2, {out2})
      /\ \A f \in lower1 : f.key.prefix = "LOWER1" /\ f.round \in Nat
      /\ \A f \in lower2 : f.key.prefix = "LOWER2" /\ f.round \in Nat
  <2>1. LowerPath[1] = "LOWER1" /\ LowerPath[2] = "LOWER2"
    BY DEF LowerPath
  <2> QED BY <1>3, <2>1
<1>5. /\ \A f \in lower1 : \A s \in Side :
           (\E e \in below1 : SourceAt(f, s) = Seed(e)) \/ (\E g \in lower1 : SourceAt(f, s) = Winner(g.key))
      /\ \A f \in lower2 : \A s \in Side :
           (\E e \in below2 : SourceAt(f, s) = Seed(e)) \/ (\E g \in lower2 : SourceAt(f, s) = Winner(g.key))
      /\ (\E e \in below1 : out1 = Seed(e)) \/ (\E g \in lower1 : out1 = Winner(g.key))
      /\ (\E e \in below2 : out2 = Seed(e)) \/ (\E g \in lower2 : out2 = Winner(g.key))
  <2>1. ASSUME NEW i \in {1, 2}
        PROVE  ProperOrder(LowerBranch(order, i), BranchOf(order, i)) /\ Len(LowerBranch(order, i)) >= 1
    <3>1. Len(LowerBranch(order, i)) \in Nat
      BY <1>1 DEF ProperOrder
    <3> QED BY <1>1, <3>1
  <2>2. 1 \in {1, 2} /\ 2 \in {1, 2}
    OBVIOUS
  <2> QED BY <2>1, <2>2, BranchSources
<1>6. first \in Nat /\ \A f \in lower : f.round <= first
  <2>1. \A f \in lower : f.round \in Nat
    BY <1>4
  <2>2. /\ lower1 # {} => \E f \in lower1 : \A g \in lower1 : g.round <= f.round
        /\ lower2 # {} => \E f \in lower2 : \A g \in lower2 : g.round <= f.round
    BY <1>3
  <2> HIDE DEF lower1, lower2
  <2>3. ASSUME lower # {} PROVE \E f \in lower : \A g \in lower : g.round <= f.round
    <3>1. CASE lower1 = {}
      BY <2>2, <2>3, <3>1
    <3>2. CASE lower2 = {}
      BY <2>2, <2>3, <3>2
    <3>3. CASE lower1 # {} /\ lower2 # {}
      <4>1. PICK f \in lower1 : \A g \in lower1 : g.round <= f.round
        BY <2>2, <3>3
      <4>2. PICK h \in lower2 : \A g \in lower2 : g.round <= h.round
        BY <2>2, <3>3
      <4>3. \/ \A g \in lower : g.round <= f.round
            \/ \A g \in lower : g.round <= h.round
        BY <2>1, <4>1, <4>2
      <4> QED BY <4>3
    <3> QED BY <3>1, <3>2, <3>3
  <2> HIDE DEF lower
  <2> QED BY <2>1, <2>3, FirstRoundBounds
<1>7. DoubleChance(order) = lower \cup {Q1} \cup {Q2} \cup {S1} \cup {S2} \cup {M1} \cup {M2} \cup {last}
  BY <1>1, DoubleChanceOfFour
<1>8. /\ Q1 = Fixture(q1, Seed(o1), Seed(o4)) /\ Q2 = Fixture(q2, Seed(o2), Seed(o3))
      /\ S1 = Fixture(s1, Loser(q1), out1) /\ S2 = Fixture(s2, Loser(q2), out2)
      /\ M1 = Fixture(m1, Winner(q1), Winner(s2)) /\ M2 = Fixture(m2, Winner(q2), Winner(s1))
      /\ last = Fixture(fk, Winner(m1), Winner(m2))
  <2>1. 4 + 1 - 1 = 4 /\ 4 + 1 - 2 = 3 /\ 3 - 1 = 2 /\ 3 - 2 = 1
    OBVIOUS
  <2> QED BY <1>1, <2>1 DEF QualifyingFinal, SecondChance, Semifinal, FinalOfFour
<1>9. /\ q1.prefix = "QUALIFYING" /\ q1.round = first /\ q1.position = 1
      /\ q2.prefix = "QUALIFYING" /\ q2.round = first /\ q2.position = 2
      /\ s1.prefix = "SECOND" /\ s1.round = first + 1 /\ s1.position = 1
      /\ s2.prefix = "SECOND" /\ s2.round = first + 1 /\ s2.position = 2
      /\ m1.prefix = "SEMI" /\ m1.round = first + 2 /\ m1.position = 1
      /\ m2.prefix = "SEMI" /\ m2.round = first + 2 /\ m2.position = 2
      /\ fk.prefix = "FINAL" /\ fk.round = first + 3
  BY KeysDiffer
<1>10. /\ Q1.key = q1 /\ Q1.round = first /\ Q2.key = q2 /\ Q2.round = first
       /\ S1.key = s1 /\ S1.round = first + 1 /\ S2.key = s2 /\ S2.round = first + 1
       /\ M1.key = m1 /\ M1.round = first + 2 /\ M2.key = m2 /\ M2.round = first + 2
       /\ last.key = fk /\ last.round = first + 3
  BY <1>8, <1>9, KeysDiffer
<1> HIDE DEF lower1, lower2, lower, first, below1, below2, below, out1, out2, o1, o2, o3, o4
<1> HIDE DEF q1, q2, s1, s2, m1, m2, fk, Q1, Q2, S1, S2, M1, M2, last
<1>11. /\ \A e : (out1 = Seed(e) => e \in below1) /\ (out2 = Seed(e) => e \in below2)
       /\ \A k : /\ out1 = Winner(k) => k.prefix = "LOWER1"
                 /\ out2 = Winner(k) => k.prefix = "LOWER2"
                 /\ out1 # Loser(k) /\ out2 # Loser(k)
       /\ out1 # out2
  <2>1. /\ \A e : (out1 = Seed(e) => e \in below1) /\ (out2 = Seed(e) => e \in below2)
        /\ \A k : /\ out1 = Winner(k) => k.prefix = "LOWER1"
                  /\ out2 = Winner(k) => k.prefix = "LOWER2"
                  /\ out1 # Loser(k) /\ out2 # Loser(k)
    BY <1>4, <1>5, SourcesDiffer
  <2>2. out1 # out2
    BY <1>1, <1>5, <2>1
  <2> QED BY <2>1, <2>2
<1>12. \A f \in lower : f.key.prefix \in {"LOWER1", "LOWER2"} /\ f.round \in Nat
  BY <1>4 DEF lower
<1>13. PartialPlan(lower, entries, {Seed(o1), Seed(o2), Seed(o3), Seed(o4), out1, out2})
  <2> DEFINE elite == {o1, o2, o3, o4}
             seeds == {Seed(o1), Seed(o2), Seed(o3), Seed(o4)}
  <2>1. PartialPlan({}, elite, seeds)
    <3>1. {Seed(e) : e \in elite} = seeds
      OBVIOUS
    <3> QED BY <3>1, NoFixtureYet
  <2>2. PartialPlan(lower, below, {out1} \cup {out2})
    <3>1. \A f \in lower1, g \in lower2 : f.key # g.key
      BY <1>4
    <3> QED BY <1>1, <1>4, <3>1, PartsJoin DEF lower
  <2>3. elite \cap below = {} /\ entries = elite \cup below
    BY <1>1, <1>2
  <2> HIDE DEF elite, seeds
  <2>4. PartialPlan({} \cup lower, elite \cup below, seeds \cup ({out1} \cup {out2}))
    BY <2>1, <2>2, <2>3, PartsJoin
  <2>5. /\ {} \cup lower = lower
        /\ seeds \cup ({out1} \cup {out2}) = {Seed(o1), Seed(o2), Seed(o3), Seed(o4), out1, out2}
    BY DEF seeds
  <2> QED BY <2>3, <2>4, <2>5
<1>14. PartialPlan(lower \cup {Q1}, entries, {Seed(o2), Seed(o3), out1, out2, Winner(q1), Loser(q1)})
  <2> DEFINE F == lower
             left == {Seed(o1), Seed(o2), Seed(o3), Seed(o4), out1, out2}
             rest == {Seed(o2), Seed(o3), out1, out2}
             next == {Seed(o2), Seed(o3), out1, out2, Winner(q1), Loser(q1)}
             home == Seed(o1)
             away == Seed(o4)
  <2>1. home # away /\ home \notin rest /\ away \notin rest
    BY <1>2, <1>1, <1>9, <1>11, SourcesDiffer
  <2>2. q1.round \in Nat /\ \A g \in F : g.key # q1
    BY <1>6, <1>9, <1>10, <1>12
  <2>3. \A g \in F : {home, away} \cap {Winner(g.key), Loser(g.key)} # {} => g.round < q1.round
    BY <1>6, <1>9, <1>10, <1>11, <1>12, SourcesDiffer
  <2>4. left = {home, away} \cup rest
    OBVIOUS
  <2>5. next = rest \cup {Winner(q1)} \cup IF q1.prefix = "QUALIFYING" THEN {Loser(q1)} ELSE {}
    BY <1>9
  <2>6. PartialPlan(F, entries, left) /\ Q1 = Fixture(q1, home, away)
    BY <1>8, <1>13
  <2> HIDE DEF F, left, rest, next, home, away
  <2>7. PartialPlan(F \cup {Q1}, entries, next)
    BY <2>1, <2>2, <2>3, <2>4, <2>5, <2>6, FixtureAdded
  <2> QED BY <2>7 DEF F, next
<1>15. PartialPlan(lower \cup {Q1} \cup {Q2}, entries, {out1, out2, Winner(q1), Loser(q1), Winner(q2), Loser(q2)})
  <2> DEFINE F == lower \cup {Q1}
             left == {Seed(o2), Seed(o3), out1, out2, Winner(q1), Loser(q1)}
             rest == {out1, out2, Winner(q1), Loser(q1)}
             next == {out1, out2, Winner(q1), Loser(q1), Winner(q2), Loser(q2)}
             home == Seed(o2)
             away == Seed(o3)
  <2>1. home # away /\ home \notin rest /\ away \notin rest
    BY <1>2, <1>1, <1>9, <1>11, SourcesDiffer
  <2>2. q2.round \in Nat /\ \A g \in F : g.key # q2
    BY <1>6, <1>9, <1>10, <1>12
  <2>3. \A g \in F : {home, away} \cap {Winner(g.key), Loser(g.key)} # {} => g.round < q2.round
    BY <1>6, <1>9, <1>10, <1>11, <1>12, SourcesDiffer
  <2>4. left = {home, away} \cup rest
    OBVIOUS
  <2>5. next = rest \cup {Winner(q2)} \cup IF q2.prefix = "QUALIFYING" THEN {Loser(q2)} ELSE {}
    BY <1>9
  <2>6. PartialPlan(F, entries, left) /\ Q2 = Fixture(q2, home, away)
    BY <1>8, <1>14
  <2> HIDE DEF F, left, rest, next, home, away
  <2>7. PartialPlan(F \cup {Q2}, entries, next)
    BY <2>1, <2>2, <2>3, <2>4, <2>5, <2>6, FixtureAdded
  <2> QED BY <2>7 DEF F, next
<1>16. PartialPlan(lower \cup {Q1} \cup {Q2} \cup {S1}, entries, {out2, Winner(q1), Winner(q2), Loser(q2), Winner(s1)})
  <2> DEFINE F == lower \cup {Q1} \cup {Q2}
             left == {out1, out2, Winner(q1), Loser(q1), Winner(q2), Loser(q2)}
             rest == {out2, Winner(q1), Winner(q2), Loser(q2)}
             next == {out2, Winner(q1), Winner(q2), Loser(q2), Winner(s1)}
             home == Loser(q1)
             away == out1
  <2>1. home # away /\ home \notin rest /\ away \notin rest
    BY <1>2, <1>1, <1>9, <1>11, SourcesDiffer
  <2>2. s1.round \in Nat /\ \A g \in F : g.key # s1
    BY <1>6, <1>9, <1>10, <1>12
  <2>3. \A g \in F : {home, away} \cap {Winner(g.key), Loser(g.key)} # {} => g.round < s1.round
    BY <1>6, <1>9, <1>10, <1>11, <1>12, SourcesDiffer
  <2>4. left = {home, away} \cup rest
    OBVIOUS
  <2>5. next = rest \cup {Winner(s1)} \cup IF s1.prefix = "QUALIFYING" THEN {Loser(s1)} ELSE {}
    BY <1>9
  <2>6. PartialPlan(F, entries, left) /\ S1 = Fixture(s1, home, away)
    BY <1>8, <1>15
  <2> HIDE DEF F, left, rest, next, home, away
  <2>7. PartialPlan(F \cup {S1}, entries, next)
    BY <2>1, <2>2, <2>3, <2>4, <2>5, <2>6, FixtureAdded
  <2> QED BY <2>7 DEF F, next
<1>17. PartialPlan(lower \cup {Q1} \cup {Q2} \cup {S1} \cup {S2}, entries, {Winner(q1), Winner(q2), Winner(s1), Winner(s2)})
  <2> DEFINE F == lower \cup {Q1} \cup {Q2} \cup {S1}
             left == {out2, Winner(q1), Winner(q2), Loser(q2), Winner(s1)}
             rest == {Winner(q1), Winner(q2), Winner(s1)}
             next == {Winner(q1), Winner(q2), Winner(s1), Winner(s2)}
             home == Loser(q2)
             away == out2
  <2>1. home # away /\ home \notin rest /\ away \notin rest
    BY <1>2, <1>1, <1>9, <1>11, SourcesDiffer
  <2>2. s2.round \in Nat /\ \A g \in F : g.key # s2
    BY <1>6, <1>9, <1>10, <1>12
  <2>3. \A g \in F : {home, away} \cap {Winner(g.key), Loser(g.key)} # {} => g.round < s2.round
    BY <1>6, <1>9, <1>10, <1>11, <1>12, SourcesDiffer
  <2>4. left = {home, away} \cup rest
    OBVIOUS
  <2>5. next = rest \cup {Winner(s2)} \cup IF s2.prefix = "QUALIFYING" THEN {Loser(s2)} ELSE {}
    BY <1>9
  <2>6. PartialPlan(F, entries, left) /\ S2 = Fixture(s2, home, away)
    BY <1>8, <1>16
  <2> HIDE DEF F, left, rest, next, home, away
  <2>7. PartialPlan(F \cup {S2}, entries, next)
    BY <2>1, <2>2, <2>3, <2>4, <2>5, <2>6, FixtureAdded
  <2> QED BY <2>7 DEF F, next
<1>18. PartialPlan(lower \cup {Q1} \cup {Q2} \cup {S1} \cup {S2} \cup {M1}, entries, {Winner(q2), Winner(s1), Winner(m1)})
  <2> DEFINE F == lower \cup {Q1} \cup {Q2} \cup {S1} \cup {S2}
             left == {Winner(q1), Winner(q2), Winner(s1), Winner(s2)}
             rest == {Winner(q2), Winner(s1)}
             next == {Winner(q2), Winner(s1), Winner(m1)}
             home == Winner(q1)
             away == Winner(s2)
  <2>1. home # away /\ home \notin rest /\ away \notin rest
    BY <1>2, <1>1, <1>9, <1>11, SourcesDiffer
  <2>2. m1.round \in Nat /\ \A g \in F : g.key # m1
    BY <1>6, <1>9, <1>10, <1>12
  <2>3. \A g \in F : {home, away} \cap {Winner(g.key), Loser(g.key)} # {} => g.round < m1.round
    BY <1>6, <1>9, <1>10, <1>11, <1>12, SourcesDiffer
  <2>4. left = {home, away} \cup rest
    OBVIOUS
  <2>5. next = rest \cup {Winner(m1)} \cup IF m1.prefix = "QUALIFYING" THEN {Loser(m1)} ELSE {}
    BY <1>9
  <2>6. PartialPlan(F, entries, left) /\ M1 = Fixture(m1, home, away)
    BY <1>8, <1>17
  <2> HIDE DEF F, left, rest, next, home, away
  <2>7. PartialPlan(F \cup {M1}, entries, next)
    BY <2>1, <2>2, <2>3, <2>4, <2>5, <2>6, FixtureAdded
  <2> QED BY <2>7 DEF F, next
<1>19. PartialPlan(lower \cup {Q1} \cup {Q2} \cup {S1} \cup {S2} \cup {M1} \cup {M2}, entries, {Winner(m1), Winner(m2)})
  <2> DEFINE F == lower \cup {Q1} \cup {Q2} \cup {S1} \cup {S2} \cup {M1}
             left == {Winner(q2), Winner(s1), Winner(m1)}
             rest == {Winner(m1)}
             next == {Winner(m1), Winner(m2)}
             home == Winner(q2)
             away == Winner(s1)
  <2>1. home # away /\ home \notin rest /\ away \notin rest
    BY <1>2, <1>1, <1>9, <1>11, SourcesDiffer
  <2>2. m2.round \in Nat /\ \A g \in F : g.key # m2
    BY <1>6, <1>9, <1>10, <1>12
  <2>3. \A g \in F : {home, away} \cap {Winner(g.key), Loser(g.key)} # {} => g.round < m2.round
    BY <1>6, <1>9, <1>10, <1>11, <1>12, SourcesDiffer
  <2>4. left = {home, away} \cup rest
    OBVIOUS
  <2>5. next = rest \cup {Winner(m2)} \cup IF m2.prefix = "QUALIFYING" THEN {Loser(m2)} ELSE {}
    BY <1>9
  <2>6. PartialPlan(F, entries, left) /\ M2 = Fixture(m2, home, away)
    BY <1>8, <1>18
  <2> HIDE DEF F, left, rest, next, home, away
  <2>7. PartialPlan(F \cup {M2}, entries, next)
    BY <2>1, <2>2, <2>3, <2>4, <2>5, <2>6, FixtureAdded
  <2> QED BY <2>7 DEF F, next
<1>20. PartialPlan(lower \cup {Q1} \cup {Q2} \cup {S1} \cup {S2} \cup {M1} \cup {M2} \cup {last}, entries, {Winner(fk)})
  <2> DEFINE F == lower \cup {Q1} \cup {Q2} \cup {S1} \cup {S2} \cup {M1} \cup {M2}
             left == {Winner(m1), Winner(m2)}
             rest == {}
             next == {Winner(fk)}
             home == Winner(m1)
             away == Winner(m2)
  <2>1. home # away /\ home \notin rest /\ away \notin rest
    BY <1>2, <1>1, <1>9, <1>11, SourcesDiffer
  <2>2. fk.round \in Nat /\ \A g \in F : g.key # fk
    BY <1>6, <1>9, <1>10, <1>12
  <2>3. \A g \in F : {home, away} \cap {Winner(g.key), Loser(g.key)} # {} => g.round < fk.round
    BY <1>6, <1>9, <1>10, <1>11, <1>12, SourcesDiffer
  <2>4. left = {home, away} \cup rest
    OBVIOUS
  <2>5. next = rest \cup {Winner(fk)} \cup IF fk.prefix = "QUALIFYING" THEN {Loser(fk)} ELSE {}
    BY <1>9
  <2>6. PartialPlan(F, entries, left) /\ last = Fixture(fk, home, away)
    BY <1>8, <1>19
  <2> HIDE DEF F, left, rest, next, home, away
  <2>7. PartialPlan(F \cup {last}, entries, next)
    BY <2>1, <2>2, <2>3, <2>4, <2>5, <2>6, FixtureAdded
  <2> QED BY <2>7 DEF F, next
<1>21. ProperPlan(DoubleChance(order), entries, last)
  <2>1. \A f \in DoubleChance(order) : f # last => f.round < last.round
    BY <1>6, <1>7, <1>10, <1>12
  <2> QED BY <1>7, <1>9, <1>10, <1>20, <2>1 DEF ProperPlan
<1>22. /\ \A f \in lower : MayMeet(order, f.key) = below
       /\ MayMeet(order, q1) = {o1, o4} /\ MayMeet(order, q2) = {o2, o3}
       /\ MayMeet(order, s1) = {o1, o4} \cup below /\ MayMeet(order, s2) = {o2, o3} \cup below
       /\ MayMeet(order, m1) = entries /\ MayMeet(order, m2) = entries /\ MayMeet(order, fk) = entries
  <2>1. PairOf(order, 1) = {o1, o4} /\ PairOf(order, 2) = {o2, o3}
    <3>1. 4 + 1 - 1 = 4 /\ 4 + 1 - 2 = 3
      OBVIOUS
    <3> QED BY <1>1, <3>1 DEF PairOf, o1, o2, o3, o4
  <2> QED BY <1>9, <1>12, <2>1, OrderRange DEF MayMeet, below
<1>23. /\ \A f \in lower : \A s \in Side : Possible(order, SourceAt(f, s)) \subseteq below
       /\ Possible(order, out1) \subseteq below /\ Possible(order, out2) \subseteq below
  <2>1. /\ \A e \in below : Possible(order, Seed(e)) \subseteq below
        /\ \A g \in lower : Possible(order, Winner(g.key)) \subseteq below
    BY <1>22, PossibleAt
  <2>2. lower1 \subseteq lower /\ lower2 \subseteq lower /\ below1 \subseteq below /\ below2 \subseteq below
    BY <1>1 DEF lower
  <2>3. \A f \in lower : f \in lower1 \/ f \in lower2
    BY DEF lower
  <2> QED BY <1>5, <2>1, <2>2, <2>3
<1>24. /\ SourceAt(Q1, 1) = Seed(o1) /\ SourceAt(Q1, 2) = Seed(o4)
       /\ SourceAt(Q2, 1) = Seed(o2) /\ SourceAt(Q2, 2) = Seed(o3)
       /\ SourceAt(S1, 1) = Loser(q1) /\ SourceAt(S1, 2) = out1
       /\ SourceAt(S2, 1) = Loser(q2) /\ SourceAt(S2, 2) = out2
       /\ SourceAt(M1, 1) = Winner(q1) /\ SourceAt(M1, 2) = Winner(s2)
       /\ SourceAt(M2, 1) = Winner(q2) /\ SourceAt(M2, 2) = Winner(s1)
       /\ SourceAt(last, 1) = Winner(m1) /\ SourceAt(last, 2) = Winner(m2)
  BY <1>8, KeysDiffer DEF SourceAt
<1>25. 1 \in Side /\ 2 \in Side /\ \A s \in Side : s = 1 \/ s = 2
  BY DEF Side
<1>26. \A f \in DoubleChance(order) : \A s \in Side : Possible(order, SourceAt(f, s)) \subseteq MayMeet(order, f.key)
  <2>1. \A s \in Side : /\ Possible(order, SourceAt(Q1, s)) \subseteq MayMeet(order, q1)
                        /\ Possible(order, SourceAt(Q2, s)) \subseteq MayMeet(order, q2)
    BY <1>22, <1>24, <1>25, PossibleAt
  <2>2. \A s \in Side : /\ Possible(order, SourceAt(S1, s)) \subseteq MayMeet(order, s1)
                        /\ Possible(order, SourceAt(S2, s)) \subseteq MayMeet(order, s2)
    BY <1>22, <1>23, <1>24, <1>25, PossibleAt
  <2>3. \A s \in Side : /\ Possible(order, SourceAt(M1, s)) \subseteq MayMeet(order, m1)
                        /\ Possible(order, SourceAt(M2, s)) \subseteq MayMeet(order, m2)
                        /\ Possible(order, SourceAt(last, s)) \subseteq MayMeet(order, fk)
    BY <1>1, <1>22, <1>24, <1>25, PossibleAt
  <2>4. \A f \in lower : \A s \in Side : Possible(order, SourceAt(f, s)) \subseteq MayMeet(order, f.key)
    BY <1>22, <1>23
  <2> QED BY <1>7, <1>10, <2>1, <2>2, <2>3, <2>4
<1>27. ASSUME NEW f \in DoubleChance(order) \ {last}, NEW q \in DoubleChance(order) \ {f},
              q.key.prefix = "QUALIFYING"
       PROVE  \E s \in Side : Possible(order, SourceAt(f, s)) \cap MayMeet(order, q.key) = {}
  <2>1. q = Q1 \/ q = Q2
    BY <1>7, <1>9, <1>10, <1>12, <1>27
  <2>2. MayMeet(order, q.key) \cap below = {}
    BY <1>2, <1>10, <1>22, <2>1
  <2>3. CASE f \in lower
    BY <1>23, <1>25, <2>2, <2>3
  <2>4. CASE f = S1 \/ f = S2
    BY <1>23, <1>24, <1>25, <2>2, <2>4
  <2>5. CASE f = Q1 \/ f = Q2
    <3>1. (f = Q1 /\ q = Q2) \/ (f = Q2 /\ q = Q1)
      BY <1>27, <2>1, <2>5
    <3> QED BY <1>2, <1>10, <1>22, <1>24, <1>25, <3>1, PossibleAt
  <2>6. CASE f = M1
    <3>1. /\ Possible(order, SourceAt(f, 1)) = {o1, o4}
          /\ Possible(order, SourceAt(f, 2)) = {o2, o3} \cup below
      BY <1>22, <1>24, <2>6, PossibleAt
    <3> QED BY <1>2, <1>10, <1>22, <1>25, <2>1, <3>1
  <2>7. CASE f = M2
    <3>1. /\ Possible(order, SourceAt(f, 1)) = {o2, o3}
          /\ Possible(order, SourceAt(f, 2)) = {o1, o4} \cup below
      BY <1>22, <1>24, <2>7, PossibleAt
    <3> QED BY <1>2, <1>10, <1>22, <1>25, <2>1, <3>1
  <2> QED BY <1>7, <2>3, <2>4, <2>5, <2>6, <2>7
<1> QED BY <1>21, <1>26, <1>27 DEF NoRematches

-----------------------------------------------------------------------------
(* Who comes where in a seeded bracket. *)

(* The entries that can get to a fixture of a seeded bracket: the best     *)
(* seed of its branch, and those behind the best of all its round's        *)
(* branches.                                                               *)
Outsiders(order, round) ==
  {order[s] : s \in {t \in 1 .. Len(order) : t > 2^(BracketRounds(Len(order)) - round)}}
Contenders(order, key) ==
  {order[s] : s \in {t \in 1 .. Len(order) : t = Branches(BracketRounds(Len(order)) - key.round)[key.position]}}
  \cup Outsiders(order, key.round)
Arriving(order, side) == IF side.from = "ENTRY" THEN {side.entry} ELSE Contenders(order, side.of)

(* Who may come out of each source of a seeded bracket. *)
LEMMA ArrivingAt ==
  ASSUME NEW order
  PROVE  /\ \A e : Arriving(order, Seed(e)) = {e}
         /\ \A k : Arriving(order, Winner(k)) = Contenders(order, k)
BY DEF Arriving, Seed, Winner

(* What a seeded bracket promises: the away side of a fixture is for the   *)
(* outsiders of its round, and in the first round seeds meet that sum up   *)
(* to one more than the places.                                            *)
WellSeeded(fixtures, order) ==
  \A f \in fixtures :
    /\ f.round \in 1 .. BracketRounds(Len(order))
    /\ \A s \in Side : Arriving(order, SourceAt(f, s)) \subseteq Contenders(order, f.key)
    /\ Arriving(order, f.away) \subseteq Outsiders(order, f.round)
    /\ f.round = 1 =>
         \E i, j \in 1 .. Len(order) : /\ i + j = 2^BracketRounds(Len(order)) + 1
                                       /\ f.home = Seed(order[i]) /\ f.away = Seed(order[j])

(* Every seeded bracket keeps what seeding promises. *)
LEMMA BracketWellSeeded ==
  ASSUME NEW order, NEW entries, ProperOrder(order, entries), Len(order) >= 2
  PROVE  WellSeeded(Knockout("ko", SeededSlots(order)), order)
<1> DEFINE n == Len(order)
           K == BracketRounds(n)
           slots == SeededSlots(order)
           place(r, c) == Place("ko", slots, r, c)
           Behind(m) == {order[s] : s \in {t \in 1 .. n : t > m}}
           At(m) == {order[s] : s \in {t \in 1 .. n : t = m}}
<1>1. n \in Nat /\ n >= 2 /\ order \in Seq(entries) /\ Bye \notin entries
  BY DEF ProperOrder
<1>2. ProperSlots(slots, entries, K)
  BY SeededProper
<1>3. /\ K \in Nat /\ K >= 1
      /\ \A r \in 0 .. K : K - r \in Nat /\ 2^(K - r) \in Nat
      /\ \A r \in 1 .. K : 2^(K - r + 1) = 2 * 2^(K - r) /\ 2^(K - r) >= 1
  <2>1. K \in Nat /\ K >= 1
    BY <1>2 DEF ProperSlots
  <2>2. \A r \in 0 .. K : K - r \in Nat
    BY <2>1
  <2> HIDE DEF K
  <2>3. \A r \in 0 .. K : 2^(K - r) \in Nat /\ 2^(K - r + 1) = 2 * 2^(K - r) /\ 2^(K - r) > K - r
    BY <2>2, DoublingPower, PowerAbove
  <2> QED BY <2>1, <2>2, <2>3
<1>4. \A i \in 1 .. 2^K :
        /\ Branches(K)[i] \in 1 .. 2^K
        /\ Branches(K)[i] <= n => slots[i] = order[Branches(K)[i]]
        /\ Branches(K)[i] > n => slots[i] = Bye
  BY <1>1, SlotsOfSeeds
<1> HIDE DEF n, slots, K
<1>5. \A r \in 1 .. K : \A b \in 1 .. 2^(K - r) :
        /\ Branches(K - r)[b] \in 1 .. 2^(K - r)
        /\ 2 * b - 1 \in 1 .. 2^(K - r + 1) /\ 2 * b \in 1 .. 2^(K - r + 1)
        /\ Branches(K - r + 1)[2 * b - 1] = Branches(K - r)[b]
        /\ Branches(K - r + 1)[2 * b] = 2^(K - r + 1) + 1 - Branches(K - r)[b]
  <2>1. ASSUME NEW r \in 1 .. K, NEW b \in 1 .. 2^(K - r)
        PROVE  /\ Branches(K - r)[b] \in 1 .. 2^(K - r)
               /\ 2 * b - 1 \in 1 .. 2^(K - r + 1) /\ 2 * b \in 1 .. 2^(K - r + 1)
               /\ Branches(K - r + 1)[2 * b - 1] = Branches(K - r)[b]
               /\ Branches(K - r + 1)[2 * b] = 2^(K - r + 1) + 1 - Branches(K - r)[b]
    <3> DEFINE k == K - r + 1
    <3>1. k \in Nat /\ k # 0 /\ k - 1 = K - r /\ K - r \in Nat
      BY <1>3
    <3> HIDE DEF k
    <3>2. b \in 1 .. 2^(k - 1)
      BY <3>1
    <3>3. /\ 2 * b - 1 \in 1 .. 2^k /\ 2 * b \in 1 .. 2^k
          /\ Branches(k)[2 * b - 1] = Branches(k - 1)[b]
          /\ Branches(k)[2 * b] = 2^k + 1 - Branches(k - 1)[b]
      BY <3>1, <3>2, DoubledAt
    <3>4. Branches(K - r)[b] \in 1 .. 2^(K - r)
      BY <3>1, BranchesPermute
    <3> QED BY <3>1, <3>3, <3>4 DEF k
  <2> QED BY <2>1
<1>6. \A key : Contenders(order, key) = At(Branches(K - key.round)[key.position]) \cup Behind(2^(K - key.round))
  BY DEF Contenders, Outsiders, K, n
<1>7. \A round : Outsiders(order, round) = Behind(2^(K - round))
  BY DEF Outsiders, K, n
<1>8. ASSUME NEW r \in 1 .. K, NEW c \in 1 .. 2^(K - r + 1), r = 1 => ~HasBye(slots, (c + 1) \div 2)
      PROVE  Arriving(order, place(r, c)) \subseteq At(Branches(K - r + 1)[c]) \cup Behind(2^(K - r + 1))
  <2>1. \A i \in 1 .. 2^K : slots[i] \in entries => slots[i] \in At(Branches(K)[i])
    <3>1. ASSUME NEW i \in 1 .. 2^K, slots[i] \in entries PROVE slots[i] \in At(Branches(K)[i])
      <4>1. slots[i] # Bye
        BY <1>1, <3>1
      <4>2. 2^K \in Nat
        BY <1>3, DoublingPower
      <4>3. Branches(K)[i] \in 1 .. n /\ slots[i] = order[Branches(K)[i]]
        BY <1>1, <1>4, <4>1, <4>2
      <4> QED BY <4>3
    <3> QED BY <3>1
  <2>2. CASE \E i \in 1 .. 2^K : Entered("ko", slots, entries, r, c, i)
    <3>1. PICK i \in 1 .. 2^K : Entered("ko", slots, entries, r, c, i)
      BY <2>2
    <3>2. Arriving(order, place(r, c)) = {slots[i]} /\ slots[i] \in At(Branches(K)[i])
      BY <2>1, <3>1, ArrivingAt DEF Entered
    <3>3. CASE r = 1 /\ i = c
      <4>1. K - r + 1 = K
        BY <1>3, <3>3
      <4> HIDE DEF place, At, Behind
      <4> QED BY <3>2, <3>3, <4>1
    <3>4. CASE r = 2 /\ i \in {2 * c - 1, 2 * c}
      <4>1. K - r + 1 = K - 1 /\ K - 1 + 1 = K /\ 1 \in 1 .. K
        BY <1>3, <3>4
      <4>2. c \in 1 .. 2^(K - 1)
        BY <4>1
      <4>3. /\ Branches(K - 1)[c] \in 1 .. 2^(K - 1)
            /\ Branches(K)[2 * c - 1] = Branches(K - 1)[c]
            /\ Branches(K)[2 * c] = 2^K + 1 - Branches(K - 1)[c]
            /\ 2^K = 2 * 2^(K - 1) /\ 2^(K - 1) \in Nat
        <5>1. K \in Nat /\ K # 0 /\ K - 1 \in Nat
          BY <1>3
        <5>2. 2^(K - 1) \in Nat /\ 2^K = 2 * 2^(K - 1)
          BY <4>1, <5>1, DoublingPower
        <5>3. Branches(K - 1)[c] \in 1 .. 2^(K - 1)
          BY <4>2, <5>1, BranchesPermute
        <5> QED BY <4>2, <5>1, <5>2, <5>3, DoubledAt
      <4>4. Branches(K)[2 * c] > 2^(K - 1)
        BY <4>3
      <4>5. At(Branches(K)[2 * c]) \subseteq Behind(2^(K - 1))
        BY <4>4
      <4> HIDE DEF place, At, Behind
      <4> QED BY <3>2, <3>4, <4>1, <4>3, <4>5
    <3> QED BY <3>1, <3>3, <3>4 DEF Entered
  <2>3. CASE Followed("ko", slots, K, r, c)
    <3>1. place(r, c) = Winner(Key("ko", r - 1, c)) /\ K - (r - 1) = K - r + 1
      BY <1>3, <2>3 DEF Followed
    <3>2. Key("ko", r - 1, c).round = r - 1 /\ Key("ko", r - 1, c).position = c
      BY KeysDiffer
    <3>3. Arriving(order, place(r, c)) = Contenders(order, Key("ko", r - 1, c))
      BY <3>1, ArrivingAt
    <3> HIDE DEF place, At, Behind
    <3> QED BY <1>6, <3>1, <3>2, <3>3
  <2>4. (\E i \in 1 .. 2^K : Entered("ko", slots, entries, r, c, i)) \/ Followed("ko", slots, K, r, c)
    BY <1>2, <1>8, PlaceFacts
  <2> QED BY <2>2, <2>3, <2>4
<1>9. ASSUME NEW x \in Matches(slots, K)
      PROVE  LET f == Match("ko", slots, x[1], x[2]) IN
             /\ f.round \in 1 .. K
             /\ \A s \in Side : Arriving(order, SourceAt(f, s)) \subseteq Contenders(order, f.key)
             /\ Arriving(order, f.away) \subseteq Outsiders(order, f.round)
             /\ f.round = 1 =>
                  \E i, j \in 1 .. n : i + j = 2^K + 1 /\ f.home = Seed(order[i]) /\ f.away = Seed(order[j])
  <2> DEFINE r == x[1]
             b == x[2]
             f == Match("ko", slots, r, b)
  <2>1. r \in 1 .. K /\ b \in Nat /\ b \in 1 .. 2^(K - r) /\ (r = 1 => ~HasBye(slots, b))
    BY DEF Matches
  <2>2. /\ f.key = Key("ko", r, b) /\ f.key.round = r /\ f.key.position = b /\ f.round = r
        /\ f.home = place(r, 2 * b - 1) /\ f.away = place(r, 2 * b)
    BY KeysDiffer DEF Match
  <2> HIDE DEF r, b, f
  <2>3. /\ 2 * b - 1 \in 1 .. 2^(K - r + 1) /\ 2 * b \in 1 .. 2^(K - r + 1)
        /\ ((2 * b - 1) + 1) \div 2 = b /\ (2 * b + 1) \div 2 = b
    BY <1>5, <2>1
  <2>4. /\ Arriving(order, f.home) \subseteq At(Branches(K - r + 1)[2 * b - 1]) \cup Behind(2^(K - r + 1))
        /\ Arriving(order, f.away) \subseteq At(Branches(K - r + 1)[2 * b]) \cup Behind(2^(K - r + 1))
    <3> HIDE DEF At, Behind, place
    <3> QED BY <1>8, <2>1, <2>2, <2>3
  <2>5. /\ 2^(K - r) \in Nat /\ 2^(K - r + 1) = 2 * 2^(K - r)
        /\ Branches(K - r)[b] \in 1 .. 2^(K - r)
        /\ Branches(K - r + 1)[2 * b - 1] = Branches(K - r)[b]
        /\ Branches(K - r + 1)[2 * b] = 2^(K - r + 1) + 1 - Branches(K - r)[b]
    BY <1>3, <1>5, <2>1
  <2>6. Behind(2^(K - r + 1)) \subseteq Behind(2^(K - r))
    BY <1>1, <2>5
  <2>7. At(Branches(K - r + 1)[2 * b]) \subseteq Behind(2^(K - r))
    <3>1. Branches(K - r + 1)[2 * b] > 2^(K - r)
      BY <2>5
    <3> QED BY <3>1
  <2>8. Contenders(order, f.key) = At(Branches(K - r)[b]) \cup Behind(2^(K - r))
    BY <1>6, <2>2
  <2>9. Outsiders(order, f.round) = Behind(2^(K - r))
    BY <1>7, <2>2
  <2>10. /\ Arriving(order, f.home) \subseteq Contenders(order, f.key)
         /\ Arriving(order, f.away) \subseteq Outsiders(order, f.round)
         /\ Arriving(order, f.away) \subseteq Contenders(order, f.key)
    <3> HIDE DEF At, Behind, place
    <3> QED BY <2>4, <2>5, <2>6, <2>7, <2>8, <2>9
  <2>11. ASSUME r = 1
         PROVE  \E i, j \in 1 .. n : i + j = 2^K + 1 /\ f.home = Seed(order[i]) /\ f.away = Seed(order[j])
    <3>1. K - r + 1 = K
      BY <1>3, <2>11
    <3>2. 2 * b - 1 \in 1 .. 2^K /\ 2 * b \in 1 .. 2^K
      BY <2>3, <3>1
    <3>3. slots[2 * b - 1] # Bye /\ slots[2 * b] # Bye
      BY <2>1, <2>11 DEF HasBye
    <3>4. /\ Branches(K)[2 * b - 1] \in 1 .. n /\ slots[2 * b - 1] = order[Branches(K)[2 * b - 1]]
          /\ Branches(K)[2 * b] \in 1 .. n /\ slots[2 * b] = order[Branches(K)[2 * b]]
      BY <1>1, <1>3, <1>4, <3>2, <3>3
    <3>5. Branches(K)[2 * b - 1] + Branches(K)[2 * b] = 2^K + 1
      BY <2>5, <3>1
    <3>6. f.home = Seed(slots[2 * b - 1]) /\ f.away = Seed(slots[2 * b])
      BY <2>2, <2>11 DEF Place
    <3> QED BY <3>4, <3>5, <3>6
  <2>12. \A s \in Side : SourceAt(f, s) = f.home \/ SourceAt(f, s) = f.away
    BY DEF SourceAt
  <2> QED BY <2>1, <2>2, <2>10, <2>11, <2>12 DEF r, b, f
<1>10. Knockout("ko", slots) = {Match("ko", slots, x[1], x[2]) : x \in Matches(slots, K)}
  BY <1>2, KnockoutMatches
<1> QED BY <1>9, <1>10 DEF WellSeeded, n, K, slots

-----------------------------------------------------------------------------
(* The inductive invariant. *)

(* The setup: a ranking has every entry once, each in the group of its     *)
(* rank; and there are enough of them for the format.                      *)
ValidRanking(r) ==
  /\ r \in Seq(Nat \ {0}) /\ Len(r) = Len(ranking)
  /\ \A i, j \in 1 .. Len(r) : r[i] = r[j] => i = j
  /\ \A i \in 1 .. Len(r) : GroupOf(r[i], groups) = GroupOf(i, groups)

SetupInv ==
  /\ teams \in Nat /\ groups \in Nat \ {0}
  /\ ValidRanking(ranking)
  /\ Qualifiers \in Nat /\ Qualifiers >= 2 /\ Qualifiers <= Len(ranking)
  /\ format = "DOUBLE_CHANCE" => Qualifiers >= 3
  /\ saving # None => (saving.format = "DOUBLE_CHANCE" => Qualifiers >= 3)
  /\ request # None => ValidRanking(request.ranking) /\ (request.format = "DOUBLE_CHANCE" => Qualifiers >= 3)

(* The bracket: a proper plan of the entries drawn. *)
BracketInv ==
  /\ ProperOrder(drawn.seeds, Entries) /\ Len(drawn.seeds) >= 2
  /\ \A i \in 1 .. Len(drawn.seeds) : GroupOf(drawn.seeds[i], groups) = GroupOf(i, groups)
  /\ ProperPlan(plan, Entries, Final)
  /\ drawn.format = "DOUBLE_CHANCE" => NoRematches(plan, drawn.seeds, Final)
  /\ drawn.format # "DOUBLE_CHANCE" => WellSeeded(plan, drawn.seeds)

(* The entries that a fixture can have, and that a side can get. *)
Reach(key) == IF drawn.format = "DOUBLE_CHANCE" THEN MayMeet(drawn.seeds, key) ELSE Contenders(drawn.seeds, key)
Coming(side) == IF side.from = "ENTRY" THEN {side.entry} ELSE Reach(side.of)

At(f, s) == Entrant(SourceAt(f, s))
Settled(side) == side.from # "ENTRY" => Played(side.of)
InPlay(e) == \A w \in winners : w.loser = e => w.key.prefix = "QUALIFYING"

(* What has been played: every outcome is of a fixture whose sides were    *)
(* settled, between entries that could meet in it.                         *)
OutcomesInv ==
  /\ IsFiniteSet(winners)
  /\ \A v, w \in winners : v.key = w.key => v = w
  /\ \A w \in winners : \E f \in plan : f.key = w.key /\ \A s \in Side : Settled(SourceAt(f, s))
  /\ \A w \in winners : {w.winner, w.loser} \subseteq Entries \cap Reach(w.key)

(* What is still to be played: nobody is at two sides, nobody who is out   *)
(* is at any, and everybody else is at one, but for the champion.          *)
SidesInv ==
  /\ \A f, g \in Open : \A s, t \in Side : At(f, s) # Bye /\ At(f, s) = At(g, t) => f = g /\ s = t
  /\ \A f \in Open : \A s \in Side : At(f, s) # Bye => At(f, s) \in Entries /\ InPlay(At(f, s))
  /\ \A e \in Entries : InPlay(e) => \/ \E f \in Open : \E s \in Side : At(f, s) = e
                                     \/ Played(Final.key) /\ Outcome(Final.key).winner = e
  /\ Played(Final.key) => InPlay(Outcome(Final.key).winner)

PlayoffInv ==
  /\ SetupInv
  /\ plan = {} => winners = {}
  /\ plan # {} => BracketInv /\ OutcomesInv /\ SidesInv

-----------------------------------------------------------------------------
(* Whatever is drawn is proper. *)

(* A plan of either format and of any number of entries has every entry,   *)
(* every winner but the last and every loser of a qualifying final at      *)
(* exactly one side of a later fixture; and it keeps its promise, of no    *)
(* rematch or of the seeding.                                              *)
THEOREM PlanIsProper ==
  ASSUME NEW fmt, NEW order, NEW entries, ProperOrder(order, entries), Len(order) >= 2,
         fmt = "DOUBLE_CHANCE" => Len(order) >= 3
  PROVE  \E last : /\ ProperPlan(Plan(fmt, order), entries, last)
                   /\ fmt = "DOUBLE_CHANCE" => NoRematches(Plan(fmt, order), order, last)
                   /\ fmt # "DOUBLE_CHANCE" => WellSeeded(Plan(fmt, order), order)
<1>1. Len(order) \in Nat
  BY DEF ProperOrder
<1>2. CASE fmt = "DOUBLE_CHANCE"
  <2>1. Plan(fmt, order) = DoubleChance(order)
    BY <1>2 DEF Plan
  <2>2. CASE Len(order) < 8
    BY <1>2, <2>1, <2>2, DoubleChanceOfTwoProper
  <2>3. CASE Len(order) >= 8
    BY <1>2, <2>1, <2>3, DoubleChanceOfFourProper
  <2> QED BY <1>1, <2>2, <2>3
<1>3. CASE fmt # "DOUBLE_CHANCE"
  <2> DEFINE slots == SeededSlots(order)
             K == BracketRounds(Len(order))
  <2>1. Plan(fmt, order) = Knockout("ko", slots)
    BY <1>3 DEF Plan
  <2>2. WellSeeded(Knockout("ko", slots), order)
    BY BracketWellSeeded
  <2>3. ProperSlots(slots, entries, K)
    BY SeededProper
  <2> HIDE DEF slots, K
  <2>4. ProperPlan(Knockout("ko", slots), entries, Match("ko", slots, K, 1))
    BY <2>3, KnockoutProper
  <2> QED BY <1>3, <2>1, <2>2, <2>4
<1> QED BY <1>2, <1>3

(* The final is the last fixture of a plan. *)
LEMMA LastIsFinal ==
  ASSUME NEW F, NEW entries, NEW last, ProperPlan(F, entries, last)
  PROVE  last = CHOOSE f \in F : \A o \in F : o.round <= f.round
<1>1. /\ last \in F /\ \A f \in F : f.round \in Nat
      /\ \A f \in F : f # last => f.round < last.round
  BY DEF ProperPlan, PartialPlan
<1>2. \A o \in F : o.round <= last.round
  BY <1>1
<1>3. \A f \in F : (\A o \in F : o.round <= f.round) => f = last
  BY <1>1
<1> QED BY <1>1, <1>2, <1>3

(* The groups take turns. *)
LEMMA GroupsRepeat ==
  ASSUME NEW g \in Nat \ {0}, NEW i \in Nat \ {0}
  PROVE  GroupOf(i + g, g) = GroupOf(i, g)
<1>1. (i + g) - 1 = (i - 1) + g /\ i - 1 \in Nat
  OBVIOUS
<1>2. ASSUME NEW x \in Nat PROVE (x + g) % g = x % g
  <2>1. /\ x % g \in 0 .. g - 1 /\ x \div g \in Int /\ x = g * (x \div g) + (x % g)
        /\ (x + g) % g \in 0 .. g - 1 /\ (x + g) \div g \in Int
        /\ x + g = g * ((x + g) \div g) + ((x + g) % g)
    OBVIOUS
  <2>2. \A p, q \in Int, r, t \in 0 .. g - 1 : g * p + r = g * q + t => r = t
    <3>1. \A k \in Int : (k >= 1 => g * k >= g) /\ (k <= -1 => g * k <= -g)
      OBVIOUS
    <3>2. ASSUME NEW p \in Int, NEW q \in Int, NEW r \in 0 .. g - 1, NEW t \in 0 .. g - 1,
                 g * p + r = g * q + t
          PROVE  r = t
      <4>1. g * (p - q) = t - r /\ p - q \in Int
        BY <3>2
      <4>2. p - q >= 1 \/ p - q <= -1 \/ p = q
        OBVIOUS
      <4> QED BY <3>1, <3>2, <4>1, <4>2
    <3> QED BY <3>2
  <2>3. x + g = g * ((x \div g) + 1) + (x % g)
    BY <2>1
  <2> DEFINE p == (x + g) \div g
             q == (x \div g) + 1
             r == (x + g) % g
             t == x % g
  <2>4. p \in Int /\ q \in Int /\ r \in 0 .. g - 1 /\ t \in 0 .. g - 1 /\ g * p + r = g * q + t
    BY <2>1, <2>3
  <2> HIDE DEF p, q, r, t
  <2>5. r = t
    BY <2>2, <2>4
  <2> QED BY <2>5 DEF r, t
<1> QED BY <1>1, <1>2 DEF GroupOf

(* Of an even number of groups, an odd and an even rank are of two. *)
LEMMA EvenGroupsDiffer ==
  ASSUME NEW g \in Nat \ {0}, g % 2 = 0, NEW i \in Nat \ {0}, NEW j \in Nat \ {0}, (i + j) % 2 = 1
  PROVE  GroupOf(i, g) # GroupOf(j, g)
<1>1. PICK h \in Nat : g = 2 * h
  OBVIOUS
<1>2. \A x \in Nat : x % g \in Nat /\ x = g * (x \div g) + (x % g) /\ x \div g \in Nat
  OBVIOUS
<1>3. \A x \in Nat : (x % g) % 2 = x % 2
  <2>1. ASSUME NEW x \in Nat PROVE (x % g) % 2 = x % 2
    <3>1. PICK y \in Nat : y = h * (x \div g)
      BY <1>2
    <3>2. g * (x \div g) = 2 * y
      <4>1. \A d \in Nat : (2 * h) * d = 2 * (h * d)
        OBVIOUS
      <4> DEFINE d == x \div g
      <4>2. d \in Nat /\ y = h * d
        BY <1>2, <3>1
      <4> HIDE DEF d
      <4>3. g * d = 2 * y
        BY <1>1, <4>1, <4>2
      <4> QED BY <4>3 DEF d
    <3>3. x = 2 * y + (x % g) /\ x % g \in Nat
      BY <1>2, <3>2
    <3> QED BY <3>3
  <2> QED BY <2>1
<1>4. ASSUME GroupOf(i, g) = GroupOf(j, g) PROVE FALSE
  <2>1. i - 1 \in Nat /\ j - 1 \in Nat
    OBVIOUS
  <2>2. (i - 1) % g = (j - 1) % g
    BY <1>2, <1>4, <2>1 DEF GroupOf
  <2>3. (i - 1) % 2 = (j - 1) % 2
    BY <1>3, <2>1, <2>2
  <2> QED BY <2>3
<1> QED BY <1>4

-----------------------------------------------------------------------------
(* The setup stays valid. *)

(* A cup always has between two qualifiers and all its teams. *)
LEMMA AutomaticBounds ==
  ASSUME NEW n \in Nat, n >= 2
  PROVE  AutomaticQualifiers(n) \in Nat /\ AutomaticQualifiers(n) >= 2 /\ AutomaticQualifiers(n) <= n
<1>1. CASE n <= 3
  BY <1>1 DEF AutomaticQualifiers
<1>2. CASE n > 3
  <2> DEFINE S == {q \in {2, 4, 8, 16} : q <= n}
  <2>1. AutomaticQualifiers(n) = Max(S)
    BY <1>2 DEF AutomaticQualifiers
  <2>2. S \subseteq Nat /\ 4 \in S /\ \A q \in S : q >= 2 /\ q <= n
    BY <1>2
  <2>3. \E x \in S : \A y \in S : x >= y
    <3>1. CASE n < 8
      BY <1>2, <3>1
    <3>2. CASE n >= 8 /\ n < 16
      <4>1. 8 \in S /\ \A y \in S : 8 >= y
        BY <3>2
      <4> QED BY <4>1
    <3>3. CASE n >= 16
      <4>1. 16 \in S /\ \A y \in S : 16 >= y
        BY <3>3
      <4> QED BY <4>1
    <3> QED BY <3>1, <3>2, <3>3
  <2>4. Max(S) \in S
    <3> HIDE DEF S
    <3> QED BY <2>3 DEF Max
  <2> QED BY <2>1, <2>2, <2>4
<1> QED BY <1>1, <1>2

(* Two neighbours of a table changing places leave everybody ranked once. *)
LEMMA RevisedStaysValid ==
  ASSUME groups \in Nat \ {0}, NEW r, ValidRanking(r), NEW s \in Revised(r)
  PROVE  ValidRanking(s)
<1>1. CASE s = r
  BY <1>1
<1>2. CASE s # r
  <2> DEFINE n == Len(r)
  <2>1. PICK i \in 1 .. n - groups : s = [r EXCEPT ![i] = r[i + groups], ![i + groups] = r[i]]
    BY <1>2 DEF Revised
  <2>2. /\ r \in Seq(Nat \ {0}) /\ n \in Nat /\ n = Len(ranking)
        /\ \A a, b \in 1 .. n : r[a] = r[b] => a = b
        /\ \A a \in 1 .. n : GroupOf(r[a], groups) = GroupOf(a, groups)
    BY DEF ValidRanking
  <2> DEFINE j == i + groups
  <2>3. i \in 1 .. n /\ j \in 1 .. n /\ i # j /\ i \in Nat \ {0}
    BY <2>2
  <2>4. GroupOf(j, groups) = GroupOf(i, groups)
    BY <2>3, GroupsRepeat
  <2> HIDE DEF n, j
  <2>5. s = [r EXCEPT ![i] = r[j], ![j] = r[i]]
    BY <2>1 DEF j
  <2>6. r \in [1 .. n -> Nat \ {0}]
    BY <2>2 DEF n
  <2>7. s \in [1 .. n -> Nat \ {0}] /\ s[i] = r[j] /\ s[j] = r[i] /\ \A a \in 1 .. n \ {i, j} : s[a] = r[a]
    BY <2>3, <2>5, <2>6
  <2>8. s \in Seq(Nat \ {0}) /\ Len(s) = n
    <3>1. n \in Nat
      BY <2>2
    <3>2. s \in [1 .. n -> Nat \ {0}]
      BY <2>7
    <3> QED BY <3>1, <3>2
  <2> DEFINE to(a) == IF a = i THEN j ELSE IF a = j THEN i ELSE a
  <2>11. \A a \in 1 .. n : to(a) \in 1 .. n /\ s[a] = r[to(a)]
    BY <2>3, <2>7
  <2>12. \A a, b \in 1 .. n : to(a) = to(b) => a = b
    BY <2>3
  <2>13. \A a \in 1 .. n : GroupOf(to(a), groups) = GroupOf(a, groups)
    BY <2>4
  <2> HIDE DEF to
  <2>9. ASSUME NEW a \in 1 .. n, NEW b \in 1 .. n, s[a] = s[b]
        PROVE  a = b
    <3>1. to(a) \in 1 .. n /\ to(b) \in 1 .. n /\ r[to(a)] = r[to(b)]
      BY <2>9, <2>11
    <3>2. to(a) = to(b)
      BY <2>2, <3>1
    <3> QED BY <2>12, <3>2
  <2>10. ASSUME NEW a \in 1 .. n
         PROVE  GroupOf(s[a], groups) = GroupOf(a, groups)
    <3>1. GroupOf(r[to(a)], groups) = GroupOf(to(a), groups)
      BY <2>2, <2>11
    <3> QED BY <2>11, <2>13, <3>1
  <2> QED BY <2>2, <2>8, <2>9, <2>10 DEF ValidRanking
<1> QED BY <1>1, <1>2

(* The seeds of a valid ranking are an order of the entries drawn. *)
LEMMA SeedsAreProper ==
  ASSUME NEW r, ValidRanking(r), Qualifiers \in Nat, Qualifiers <= Len(ranking)
  PROVE  /\ ProperOrder(Seeds(r), Range(Seeds(r))) /\ Len(Seeds(r)) = Qualifiers
         /\ \A i \in 1 .. Len(Seeds(r)) : GroupOf(Seeds(r)[i], groups) = GroupOf(i, groups)
<1> DEFINE q == Qualifiers
           o == Seeds(r)
<1>1. /\ r \in Seq(Nat \ {0}) /\ Len(r) \in Nat /\ q \in Nat /\ q <= Len(r)
      /\ \A a, b \in 1 .. Len(r) : r[a] = r[b] => a = b
      /\ \A a \in 1 .. Len(r) : GroupOf(r[a], groups) = GroupOf(a, groups)
  BY DEF ValidRanking
<1> HIDE DEF q
<1>2. o = SubSeq(r, 1, q)
  BY DEF Seeds, q
<1>3. o \in Seq(Nat \ {0}) /\ Len(o) = q /\ \A a \in 1 .. q : o[a] = r[a] /\ a \in 1 .. Len(r)
  BY <1>1, <1>2
<1> HIDE DEF o
<1>4. DOMAIN o = 1 .. q /\ o = [a \in 1 .. q |-> o[a]]
  BY <1>3
<1>5. Range(o) = {o[a] : a \in 1 .. q}
  BY <1>4 DEF Range
<1>6. o \in Seq(Range(o))
  <2>1. o \in [1 .. q -> Range(o)]
    BY <1>4, <1>5
  <2> QED BY <1>1, <2>1
<1>7. Bye \notin Range(o)
  <2>1. \A a \in 1 .. q : o[a] \in Nat \ {0}
    BY <1>1, <1>3
  <2> QED BY <1>5, <2>1 DEF Bye
<1>8. ProperOrder(o, Range(o))
  BY <1>1, <1>3, <1>5, <1>6, <1>7 DEF ProperOrder
<1>9. \A i \in 1 .. q : GroupOf(o[i], groups) = GroupOf(i, groups)
  BY <1>1, <1>3
<1> QED BY <1>3, <1>8, <1>9 DEF o, q

(* The tournament begins with a valid setup. *)
LEMMA SetupInitially == Init => SetupInv
<1> SUFFICES ASSUME Init PROVE SetupInv
  OBVIOUS
<1>1. ASSUME NEW n \in Nat \ {0, 1}, ranking = [i \in 1 .. n |-> i], groups \in Nat \ {0}
      PROVE  ValidRanking(ranking) /\ Len(ranking) = n
  <2>1. ranking \in Seq(Nat \ {0}) /\ Len(ranking) = n /\ \A i \in 1 .. n : ranking[i] = i
    <3>1. ranking \in [1 .. n -> Nat \ {0}]
      BY <1>1
    <3> QED BY <1>1, <3>1
  <2> QED BY <2>1 DEF ValidRanking
<1>2. request = None /\ saving = None /\ (format = "DOUBLE_CHANCE" => Qualifiers >= 3)
  BY DEF Init
<1>3. CASE teams = 0 /\ groups \in Nat \ {0} /\ \E n \in Sizes : ranking = [i \in 1 .. n |-> i]
  <2>1. PICK n \in Sizes : ranking = [i \in 1 .. n |-> i]
    BY <1>3
  <2>2. n \in Nat \ {0, 1}
    BY SizesAssumption
  <2>3. ValidRanking(ranking)
    BY <1>1, <1>3, <2>1, <2>2
  <2>4. Len(ranking) = n /\ teams = 0
    BY <1>1, <1>3, <2>1, <2>2
  <2>5. Qualifiers = Len(ranking)
    BY <2>4 DEF Qualifiers
  <2>6. Qualifiers \in Nat /\ Qualifiers >= 2 /\ Qualifiers <= Len(ranking)
    <3> HIDE DEF Qualifiers
    <3> QED BY <2>2, <2>4, <2>5
  <2>7. teams \in Nat /\ groups \in Nat \ {0}
    BY <1>3
  <2> QED BY <1>2, <2>3, <2>6, <2>7 DEF SetupInv
<1>4. CASE teams \in CupSizes /\ ranking = [i \in 1 .. teams |-> i] /\ groups = 1
  <2>1. teams \in Nat \ {0, 1} /\ groups \in Nat \ {0}
    BY <1>4, SizesAssumption
  <2>2. ValidRanking(ranking) /\ Len(ranking) = teams
    BY <1>1, <1>4, <2>1
  <2>3. Qualifiers = AutomaticQualifiers(teams)
    BY <2>1 DEF Qualifiers
  <2>4. Qualifiers \in Nat /\ Qualifiers >= 2 /\ Qualifiers <= teams
    BY <2>1, <2>3, AutomaticBounds
  <2> QED BY <1>2, <2>1, <2>2, <2>4 DEF SetupInv
<1>5. \/ teams = 0 /\ groups = 1 /\ \E n \in Sizes : ranking = [i \in 1 .. n |-> i]
      \/ /\ teams = 0 /\ groups \in (IF format = "PROTECTED_SEED" THEN GroupCounts ELSE {1})
         /\ \E n \in Sizes : ranking = [i \in 1 .. n |-> i]
      \/ teams \in CupSizes /\ ranking = [i \in 1 .. teams |-> i] /\ groups = 1
  BY DEF Init
<1>6. groups \in (IF format = "PROTECTED_SEED" THEN GroupCounts ELSE {1}) => groups \in Nat \ {0}
  BY SizesAssumption
<1> QED BY <1>3, <1>4, <1>5, <1>6

(* Every step leaves it valid. *)
LEMMA SetupStays ==
  ASSUME SetupInv, [Next]_vars
  PROVE  SetupInv'
<1> USE DEF SetupInv
<1>1. CASE UNCHANGED << tournament, ranking, format, saving, request >>
  BY <1>1 DEF tournament, ValidRanking, Qualifiers
<1>2. ASSUME UNCHANGED << tournament, format, saving, request >>, ranking' \in Revised(ranking)
      PROVE  SetupInv'
  <2>1. ValidRanking(ranking')
    BY <1>2, RevisedStaysValid
  <2>2. Len(ranking') = Len(ranking) /\ UNCHANGED << teams, groups >>
    BY <1>2, <2>1 DEF ValidRanking, tournament
  <2>3. Qualifiers' = Qualifiers
    BY <2>2 DEF Qualifiers
  <2>4. \A r : ValidRanking(r) => ValidRanking(r)'
    BY <2>2 DEF ValidRanking
  <2> QED BY <1>2, <2>1, <2>2, <2>3, <2>4 DEF ValidRanking
<1>3. CASE generateFixtures
  BY <1>1, <1>3 DEF generateFixtures
<1>4. CASE FinishStage
  <2>1. ranking' \in Revised(ranking)
    BY <1>4 DEF FinishStage, Revised
  <2> QED BY <1>2, <1>4, <2>1 DEF FinishStage
<1>5. CASE ReviseStage
  <2>1. ranking' \in Revised(ranking)
    BY <1>5 DEF ReviseStage, Revised
  <2> QED BY <1>2, <1>5, <2>1 DEF ReviseStage
<1>6. ASSUME UNCHANGED << tournament, ranking >>
      PROVE  /\ Qualifiers' = Qualifiers /\ teams' = teams /\ groups' = groups /\ ranking' = ranking
             /\ \A r : ValidRanking(r) => ValidRanking(r)'
             /\ ValidRanking(ranking)'
  BY <1>6 DEF tournament, ValidRanking, Qualifiers
<1>7. CASE CheckFormat
  <2>1. UNCHANGED << tournament, ranking >>
    BY <1>7 DEF CheckFormat, tables
  <2>2. PICK f \in Formats : saving' = [kind |-> "FORMAT", format |-> f] /\ (f = "DOUBLE_CHANCE" => Qualifiers >= 3)
    BY <1>7 DEF CheckFormat
  <2>3. saving'.format = f /\ format' = format /\ request' = request
    BY <1>7, <2>2 DEF CheckFormat
  <2> QED BY <1>6, <2>1, <2>2, <2>3
<1>8. CASE SaveFormat
  <2>1. UNCHANGED << tournament, ranking >>
    BY <1>8 DEF SaveFormat, tables
  <2>2. saving # None /\ format' = saving.format /\ saving' = None /\ request' = request
    BY <1>8 DEF SaveFormat
  <2> QED BY <1>6, <2>1, <2>2
<1>9. ASSUME NEW kind \in {"GENERATE", "RESEED"}, ReadTables(kind) PROVE SetupInv'
  <2>1. UNCHANGED << tournament, ranking >>
    BY <1>9 DEF ReadTables, tables
  <2>2. /\ request' = [kind |-> kind, format |-> format, ranking |-> ranking]
        /\ format' = format /\ saving' = saving
    BY <1>9 DEF ReadTables
  <2>3. request'.ranking = ranking /\ request'.format = format
    BY <2>2
  <2> QED BY <1>6, <2>1, <2>2, <2>3
<1>10. CASE WriteBracket
  <2>1. UNCHANGED << tournament, ranking, format, saving >> /\ request' = None
    BY <1>10 DEF WriteBracket, tables
  <2> QED BY <1>6, <2>1
<1>11. CASE Refuse
  <2>1. UNCHANGED << tournament, ranking, format, saving >> /\ request' = None
    BY <1>11 DEF Refuse, tables
  <2> QED BY <1>6, <2>1
<1>12. ASSUME NEW f \in Playable, NEW winner \in Pair(f), Play(f, winner) PROVE SetupInv'
  BY <1>1, <1>12 DEF Play, tables
<1>13. CASE Champion
  BY <1>1, <1>13 DEF Champion, vars, tables
<1>14. CASE UNCHANGED vars
  BY <1>1, <1>14 DEF vars, tables
<1> QED BY <1>3, <1>4, <1>5, <1>7, <1>8, <1>9, <1>10, <1>11, <1>12, <1>13, <1>14 DEF Next

-----------------------------------------------------------------------------
(* Reading the bracket. *)

(* Who is at a source, by its kind. *)
LEMMA EntrantIs ==
  /\ \A e : Entrant(Seed(e)) = e
  /\ \A k : Entrant(Winner(k)) = IF Played(k) THEN Outcome(k).winner ELSE Bye
  /\ \A k : Entrant(Loser(k)) = IF Played(k) THEN Outcome(k).loser ELSE Bye
  /\ \A e : Settled(Seed(e))
  /\ \A k : (Settled(Winner(k)) <=> Played(k)) /\ (Settled(Loser(k)) <=> Played(k))
<1>1. /\ \A e : Seed(e).from = "ENTRY" /\ Seed(e).entry = e
      /\ \A k : Winner(k).from = "WINNER" /\ Winner(k).of = k
      /\ \A k : Loser(k).from = "LOSER" /\ Loser(k).of = k
  BY DEF Seed, Winner, Loser
<1>2. \A side : /\ side.from = "ENTRY" => Entrant(side) = side.entry
                /\ side.from = "WINNER" => Entrant(side) = IF Played(side.of) THEN Outcome(side.of).winner ELSE Bye
                /\ side.from = "LOSER" => Entrant(side) = IF Played(side.of) THEN Outcome(side.of).loser ELSE Bye
  BY DEF Entrant
<1> QED BY <1>1, <1>2 DEF Settled

(* The same after a step. *)
LEMMA EntrantNext ==
  /\ \A e : Entrant(Seed(e))' = e
  /\ \A k : Entrant(Winner(k))' = IF Played(k)' THEN Outcome(k)'.winner ELSE Bye
  /\ \A k : Entrant(Loser(k))' = IF Played(k)' THEN Outcome(k)'.loser ELSE Bye
  /\ \A e : Settled(Seed(e))'
  /\ \A k : (Settled(Winner(k))' <=> Played(k)') /\ (Settled(Loser(k))' <=> Played(k)')
<1>1. /\ \A e : Seed(e).from = "ENTRY" /\ Seed(e).entry = e
      /\ \A k : Winner(k).from = "WINNER" /\ Winner(k).of = k
      /\ \A k : Loser(k).from = "LOSER" /\ Loser(k).of = k
  BY DEF Seed, Winner, Loser
<1>2. \A side : /\ side.from = "ENTRY" => Entrant(side)' = side.entry
                /\ side.from = "WINNER" => Entrant(side)' = IF Played(side.of)' THEN Outcome(side.of)'.winner ELSE Bye
                /\ side.from = "LOSER" => Entrant(side)' = IF Played(side.of)' THEN Outcome(side.of)'.loser ELSE Bye
  BY DEF Entrant
<1> QED BY <1>1, <1>2 DEF Settled

(* The outcome of a played fixture is the one recorded for it. *)
LEMMA OutcomeIs ==
  ASSUME OutcomesInv
  PROVE  /\ \A w \in winners : Played(w.key) /\ Outcome(w.key) = w
         /\ \A k : Played(k) => Outcome(k) \in winners /\ Outcome(k).key = k
BY DEF OutcomesInv, Played, Outcome

(* What a proper plan says of its fixtures one by one. *)
LEMMA PlanSources ==
  ASSUME NEW fixtures, NEW entries, NEW last, ProperPlan(fixtures, entries, last)
  PROVE  /\ last \in fixtures /\ last.key.prefix # "QUALIFYING"
         /\ \A f \in fixtures : f.round \in Nat /\ (f # last => f.round < last.round)
         /\ \A f, g \in fixtures : f.key = g.key => f = g
         /\ \A f, g \in fixtures : \A s, t \in Side : SourceAt(f, s) = SourceAt(g, t) => f = g /\ s = t
         /\ \A f \in fixtures : \A s \in Side :
              \/ \E e \in entries : SourceAt(f, s) = Seed(e)
              \/ \E g \in fixtures : g # last /\ SourceAt(f, s) = Winner(g.key)
              \/ \E g \in fixtures : g.key.prefix = "QUALIFYING" /\ SourceAt(f, s) = Loser(g.key)
         /\ \A f, g \in fixtures : \A s \in Side :
              SourceAt(f, s) \in {Winner(g.key), Loser(g.key)} => g.round < f.round
         /\ \A e \in entries : \E f \in fixtures : \E s \in Side : SourceAt(f, s) = Seed(e)
         /\ \A g \in fixtures : g # last => \E f \in fixtures : \E s \in Side : SourceAt(f, s) = Winner(g.key)
         /\ \A g \in fixtures : g.key.prefix = "QUALIFYING" =>
              \E f \in fixtures : \E s \in Side : SourceAt(f, s) = Loser(g.key)
<1> DEFINE S == Sources(fixtures, entries)
<1>1. /\ last \in fixtures /\ last.key.prefix # "QUALIFYING"
      /\ \A f \in fixtures : f # last => f.round < last.round
      /\ PartialPlan(fixtures, entries, {Winner(last.key)})
  BY DEF ProperPlan
<1>2. /\ \A f \in fixtures : f.round \in Nat
      /\ \A f, g \in fixtures : f.key = g.key => f = g
      /\ \A f, g \in fixtures : \A s, t \in Side : SourceAt(f, s) = SourceAt(g, t) => f = g /\ s = t
      /\ \A f \in fixtures : \A s \in Side : SourceAt(f, s) \in S \ {Winner(last.key)}
      /\ \A o \in S \ {Winner(last.key)} : \E f \in fixtures : \E s \in Side : SourceAt(f, s) = o
      /\ \A f, g \in fixtures : \A s \in Side :
           SourceAt(f, s) \in {Winner(g.key), Loser(g.key)} => g.round < f.round
  BY <1>1 DEF PartialPlan
<1>3. \A o : o \in S <=> \/ \E e \in entries : o = Seed(e)
                         \/ \E g \in fixtures : o = Winner(g.key)
                         \/ \E g \in fixtures : g.key.prefix = "QUALIFYING" /\ o = Loser(g.key)
  BY DEF Sources
<1> HIDE DEF S
<1>4. \A f \in fixtures : \A s \in Side :
        \/ \E e \in entries : SourceAt(f, s) = Seed(e)
        \/ \E g \in fixtures : g # last /\ SourceAt(f, s) = Winner(g.key)
        \/ \E g \in fixtures : g.key.prefix = "QUALIFYING" /\ SourceAt(f, s) = Loser(g.key)
  BY <1>2, <1>3
<1>5. \A e \in entries : Seed(e) \in S \ {Winner(last.key)}
  BY <1>3, SourcesDiffer
<1>6. \A g \in fixtures : g # last => Winner(g.key) \in S \ {Winner(last.key)}
  BY <1>1, <1>2, <1>3, SourcesDiffer
<1>7. \A g \in fixtures : g.key.prefix = "QUALIFYING" => Loser(g.key) \in S \ {Winner(last.key)}
  BY <1>3, SourcesDiffer
<1> QED BY <1>1, <1>2, <1>4, <1>5, <1>6, <1>7

(* The plan as the proofs use it. *)
LEMMA PlanFacts ==
  ASSUME BracketInv
  PROVE  /\ Final \in plan /\ Final.key.prefix # "QUALIFYING"
         /\ \A f \in plan : f.round \in Nat /\ (f # Final => f.round < Final.round)
         /\ \A f, g \in plan : f.key = g.key => f = g
         /\ \A f, g \in plan : \A s, t \in Side : SourceAt(f, s) = SourceAt(g, t) => f = g /\ s = t
         /\ \A f \in plan : \A s \in Side :
              \/ \E e \in Entries : SourceAt(f, s) = Seed(e)
              \/ \E g \in plan : g # Final /\ SourceAt(f, s) = Winner(g.key)
              \/ \E g \in plan : g.key.prefix = "QUALIFYING" /\ SourceAt(f, s) = Loser(g.key)
         /\ \A f, g \in plan : \A s \in Side :
              SourceAt(f, s) \in {Winner(g.key), Loser(g.key)} => g.round < f.round
         /\ \A e \in Entries : \E f \in plan : \E s \in Side : SourceAt(f, s) = Seed(e)
         /\ \A g \in plan : g # Final => \E f \in plan : \E s \in Side : SourceAt(f, s) = Winner(g.key)
         /\ \A g \in plan : g.key.prefix = "QUALIFYING" =>
              \E f \in plan : \E s \in Side : SourceAt(f, s) = Loser(g.key)
         /\ Bye \notin Entries
<1>1. ProperPlan(plan, Entries, Final)
  BY DEF BracketInv
<1>2. Bye \notin Entries
  BY DEF BracketInv, ProperOrder
<1> QED BY <1>1, <1>2, PlanSources

(* While anything is open the final is. *)
LEMMA FinalOpenLast ==
  ASSUME BracketInv, OutcomesInv, Open # {}
  PROVE  Final \in Open
<1>1. /\ Final \in plan
      /\ \A f \in plan : f.round \in Nat /\ (f # Final => f.round < Final.round)
      /\ \A f, g \in plan : f.key = g.key => f = g
      /\ \A f \in plan : \A s \in Side : \A g \in plan : SourceAt(f, s) = Winner(g.key) => g.round < f.round
      /\ \A g \in plan : g # Final => \E f \in plan : \E s \in Side : SourceAt(f, s) = Winner(g.key)
  BY PlanFacts
<1> DEFINE left == {Final.round - f.round : f \in Open}
<1>2. \A f \in Open : f \in plan /\ Final.round - f.round \in Nat
  BY <1>1 DEF Open
<1>3. left \subseteq Nat /\ left # {}
  BY <1>2
<1>4. PICK m \in left : \A i \in left : m <= i
  BY <1>3, LeastOf
<1>5. PICK g \in Open : m = Final.round - g.round
  BY <1>4
<1>6. \A f \in Open : Final.round - g.round <= Final.round - f.round
  BY <1>4, <1>5
<1>7. \A f \in Open : f.round <= g.round
  BY <1>1, <1>2, <1>6
<1>8. ASSUME g # Final PROVE FALSE
  <2>1. PICK f \in plan : \E s \in Side : SourceAt(f, s) = Winner(g.key)
    BY <1>1, <1>2, <1>8
  <2>2. g.round < f.round /\ g.round \in Nat /\ f.round \in Nat
    BY <1>1, <1>2, <2>1
  <2>3. f \notin Open
    BY <1>7, <2>2
  <2>4. PICK w \in winners : w.key = f.key
    BY <2>1, <2>3 DEF Open, Played
  <2>5. PICK h \in plan : h.key = w.key /\ \A s \in Side : Settled(SourceAt(h, s))
    BY DEF OutcomesInv
  <2>6. h = f
    BY <1>1, <2>1, <2>4, <2>5
  <2>7. Settled(Winner(g.key))
    BY <2>1, <2>5, <2>6
  <2>8. Played(g.key)
    BY <2>7, EntrantIs
  <2> QED BY <2>8 DEF Open
<1> QED BY <1>8

(* Who can come to a side of a fixture can be in the fixture. *)
LEMMA ReachClosed ==
  ASSUME BracketInv
  PROVE  \A f \in plan : \A s \in Side : Coming(SourceAt(f, s)) \subseteq Reach(f.key)
<1>1. CASE drawn.format = "DOUBLE_CHANCE"
  <2>1. \A side : Coming(side) = Possible(drawn.seeds, side)
    BY <1>1 DEF Coming, Possible, Reach
  <2>2. \A k : Reach(k) = MayMeet(drawn.seeds, k)
    BY <1>1 DEF Reach
  <2> QED BY <1>1, <2>1, <2>2 DEF BracketInv, NoRematches
<1>2. CASE drawn.format # "DOUBLE_CHANCE"
  <2>1. \A side : Coming(side) = Arriving(drawn.seeds, side)
    BY <1>2 DEF Coming, Arriving, Reach
  <2>2. \A k : Reach(k) = Contenders(drawn.seeds, k)
    BY <1>2 DEF Reach
  <2> QED BY <1>2, <2>1, <2>2 DEF BracketInv, WellSeeded
<1> QED BY <1>1, <1>2

(* Who is at a side is one of those who could come. *)
LEMMA OnlyComing ==
  ASSUME BracketInv, OutcomesInv, NEW f \in plan, NEW s \in Side, At(f, s) # Bye
  PROVE  At(f, s) \in Coming(SourceAt(f, s)) /\ At(f, s) \in Reach(f.key) /\ At(f, s) \in Entries
         /\ Settled(SourceAt(f, s))
<1>1. \/ \E e \in Entries : SourceAt(f, s) = Seed(e)
      \/ \E k : SourceAt(f, s) = Winner(k)
      \/ \E k : SourceAt(f, s) = Loser(k)
  BY PlanFacts
<1>2. CASE \E e \in Entries : SourceAt(f, s) = Seed(e)
  <2>1. PICK e \in Entries : SourceAt(f, s) = Seed(e)
    BY <1>2
  <2>2. Coming(SourceAt(f, s)) = {e}
    BY <2>1 DEF Coming, Seed
  <2>3. At(f, s) = e /\ Settled(SourceAt(f, s))
    BY <2>1, EntrantIs DEF At
  <2> QED BY <2>2, <2>3, ReachClosed
<1>3. CASE \E k : SourceAt(f, s) = Winner(k)
  <2>1. PICK k : SourceAt(f, s) = Winner(k)
    BY <1>3
  <2>2. Coming(SourceAt(f, s)) = Reach(k)
    BY <2>1 DEF Coming, Winner
  <2>3. Played(k) /\ At(f, s) = Outcome(k).winner /\ Settled(SourceAt(f, s))
    BY <2>1, EntrantIs DEF At
  <2>4. At(f, s) \in Reach(k) /\ At(f, s) \in Entries
    BY <2>3, OutcomeIs DEF OutcomesInv
  <2> QED BY <2>2, <2>3, <2>4, ReachClosed
<1>4. CASE \E k : SourceAt(f, s) = Loser(k)
  <2>1. PICK k : SourceAt(f, s) = Loser(k)
    BY <1>4
  <2>2. Coming(SourceAt(f, s)) = Reach(k)
    BY <2>1 DEF Coming, Loser
  <2>3. Played(k) /\ At(f, s) = Outcome(k).loser /\ Settled(SourceAt(f, s))
    BY <2>1, EntrantIs DEF At
  <2>4. At(f, s) \in Reach(k) /\ At(f, s) \in Entries
    BY <2>3, OutcomeIs DEF OutcomesInv
  <2> QED BY <2>2, <2>3, <2>4, ReachClosed
<1> QED BY <1>1, <1>2, <1>3, <1>4

-----------------------------------------------------------------------------
(* Playing. *)

(* Playing a fixture: who won and who lost, and what it changes. *)
LEMMA PlayEffect ==
  ASSUME BracketInv, OutcomesInv, SidesInv,
         NEW f \in Playable, NEW winner \in Pair(f), Play(f, winner)
  PROVE  \E loser \in Pair(f) :
           /\ loser # winner /\ f \in Open /\ f \in plan
           /\ \A s \in Side : At(f, s) \in {winner, loser} /\ At(f, s) # Bye
           /\ \A e \in {winner, loser} : \E s \in Side : At(f, s) = e
           /\ winners' = winners \cup {[key |-> f.key, winner |-> winner, loser |-> loser]}
           /\ Open' = Open \ {f}
           /\ \A k : Played(k)' <=> Played(k) \/ k = f.key
           /\ \A k : Played(k) => k # f.key /\ Outcome(k)' = Outcome(k)
           /\ Outcome(f.key)' = [key |-> f.key, winner |-> winner, loser |-> loser]
           /\ \A e : InPlay(e)' <=> InPlay(e) /\ (e = loser => f.key.prefix = "QUALIFYING")
<1> DEFINE loser == CHOOSE e \in Pair(f) : e # winner
           w0 == [key |-> f.key, winner |-> winner, loser |-> loser]
<1>1. f \in Open /\ f \in plan /\ ~Played(f.key) /\ Bye \notin Pair(f)
  BY DEF Playable, Open
<1>2. Pair(f) = {At(f, 1), At(f, 2)} /\ 1 \in Side /\ 2 \in Side
  BY DEF Pair, At, SourceAt, Side
<1>3. At(f, 1) # At(f, 2)
  <2>1. At(f, 1) # Bye
    BY <1>1, <1>2
  <2>2. 1 # 2
    OBVIOUS
  <2> QED BY <1>1, <1>2, <2>1, <2>2 DEF SidesInv
<1>4. loser \in Pair(f) /\ loser # winner
  <2>1. \E e \in Pair(f) : e # winner
    BY <1>2, <1>3
  <2> QED BY <2>1
<1>5. winners' = winners \cup {w0} /\ plan' = plan /\ drawn' = drawn
  BY DEF Play
<1> HIDE DEF loser
<1>6. w0.key = f.key /\ w0.loser = loser /\ w0.winner = winner
  OBVIOUS
<1> HIDE DEF w0
<1>7. \A k : Played(k)' <=> Played(k) \/ k = f.key
  BY <1>5, <1>6 DEF Played
<1>8. ASSUME NEW k, Played(k) PROVE k # f.key /\ Outcome(k)' = Outcome(k)
  <2>1. k # f.key
    BY <1>1, <1>8
  <2>2. Outcome(k) \in winners /\ Outcome(k).key = k
    BY <1>8, OutcomeIs
  <2>3. \A w \in winners' : w.key = k => w = Outcome(k)
    BY <1>5, <1>6, <2>1, <2>2 DEF OutcomesInv
  <2>4. Outcome(k) \in winners'
    BY <1>5, <2>2
  <2>5. (CHOOSE w \in winners' : w.key = k) = Outcome(k)
    <3> DEFINE o == Outcome(k)
    <3> HIDE DEF o
    <3>1. o \in winners' /\ o.key = k /\ \A w \in winners' : w.key = k => w = o
      BY <2>2, <2>3, <2>4 DEF o
    <3>2. (CHOOSE w \in winners' : w.key = k) = o
      BY <3>1
    <3> QED BY <3>2 DEF o
  <2> QED BY <2>1, <2>5 DEF Outcome
<1>9. Outcome(f.key)' = w0
  <2>1. \A w \in winners' : w.key = f.key => w = w0
    BY <1>1, <1>5, <1>6 DEF Played
  <2>2. w0 \in winners'
    BY <1>5
  <2>3. (CHOOSE w \in winners' : w.key = f.key) = w0
    BY <1>6, <2>1, <2>2
  <2> QED BY <2>3 DEF Outcome
<1>10. Open' = Open \ {f}
  <2>1. \A g \in plan : Played(g.key)' <=> Played(g.key) \/ g = f
    BY <1>1, <1>7, PlanFacts
  <2>2. Open' = {g \in plan : ~Played(g.key)'}
    BY <1>5 DEF Open
  <2> QED BY <2>1, <2>2 DEF Open
<1>11. \A e : InPlay(e)' <=> InPlay(e) /\ (e = loser => f.key.prefix = "QUALIFYING")
  BY <1>5, <1>6 DEF InPlay
<1>12. \A s \in Side : At(f, s) \in {winner, loser} /\ At(f, s) # Bye
  BY <1>1, <1>2, <1>3, <1>4 DEF Side
<1>13. \A e \in {winner, loser} : \E s \in Side : At(f, s) = e
  BY <1>2, <1>4
<1> QED BY <1>1, <1>4, <1>5, <1>7, <1>8, <1>9, <1>10, <1>11, <1>12, <1>13 DEF w0

(* Playing a fixture keeps the bracket sound: the winner goes to its next  *)
(* fixture or is the champion, the loser is out or has its second chance.  *)
LEMMA PlayKeeps ==
  ASSUME BracketInv, OutcomesInv, SidesInv,
         NEW f \in Playable, NEW winner \in Pair(f), Play(f, winner)
  PROVE  BracketInv' /\ OutcomesInv' /\ SidesInv'
<1>1. PICK loser \in Pair(f) :
        /\ loser # winner /\ f \in Open /\ f \in plan
        /\ \A s \in Side : At(f, s) \in {winner, loser} /\ At(f, s) # Bye
        /\ \A e \in {winner, loser} : \E s \in Side : At(f, s) = e
        /\ winners' = winners \cup {[key |-> f.key, winner |-> winner, loser |-> loser]}
        /\ Open' = Open \ {f}
        /\ \A k : Played(k)' <=> Played(k) \/ k = f.key
        /\ \A k : Played(k) => k # f.key /\ Outcome(k)' = Outcome(k)
        /\ Outcome(f.key)' = [key |-> f.key, winner |-> winner, loser |-> loser]
        /\ \A e : InPlay(e)' <=> InPlay(e) /\ (e = loser => f.key.prefix = "QUALIFYING")
  BY PlayEffect
<1> DEFINE w0 == [key |-> f.key, winner |-> winner, loser |-> loser]
<1>2. w0.key = f.key /\ w0.loser = loser /\ w0.winner = winner
  OBVIOUS
<1>3. winners' = winners \cup {w0} /\ Outcome(f.key)' = w0
  BY <1>1
<1> HIDE DEF w0
<1>4. plan' = plan /\ drawn' = drawn /\ groups' = groups
  BY DEF Play, tournament
<1>5. Entries' = Entries /\ Final' = Final /\ \A k : Reach(k)' = Reach(k)
  BY <1>4 DEF Entries, Final, Reach
<1>6. BracketInv'
  BY <1>4, <1>5 DEF BracketInv
<1>7. \A side : Settled(side) => Settled(side)'
  BY <1>1 DEF Settled
<1>8. \A s \in Side : Settled(SourceAt(f, s)) /\ At(f, s) \in Entries /\ At(f, s) \in Reach(f.key)
  BY <1>1, OnlyComing
<1>9. OutcomesInv'
  <2>1. IsFiniteSet(winners')
    BY <1>3, FS_AddElement DEF OutcomesInv
  <2>2. \A v, w \in winners' : v.key = w.key => v = w
    <3>1. \A w \in winners : w.key # f.key
      BY <1>1, OutcomeIs
    <3> QED BY <1>2, <1>3, <3>1 DEF OutcomesInv
  <2>3. ASSUME NEW w \in winners' PROVE \E g \in plan : g.key = w.key /\ \A s \in Side : Settled(SourceAt(g, s))'
    <3>1. CASE w \in winners
      BY <1>7, <3>1 DEF OutcomesInv
    <3>2. CASE w = w0
      BY <1>1, <1>2, <1>7, <1>8, <3>2
    <3> QED BY <1>3, <2>3, <3>1, <3>2
  <2>4. ASSUME NEW w \in winners' PROVE {w.winner, w.loser} \subseteq Entries \cap Reach(w.key)
    <3>1. CASE w \in winners
      BY <3>1 DEF OutcomesInv
    <3>2. CASE w = w0
      BY <1>1, <1>2, <1>8, <3>2
    <3> QED BY <1>3, <2>4, <3>1, <3>2
  <2> QED BY <1>4, <1>5, <2>1, <2>2, <2>3, <2>4 DEF OutcomesInv
<1>10. /\ winner \in Entries /\ InPlay(winner)
       /\ loser \in Entries /\ InPlay(loser)
       /\ InPlay(winner)'
  <2>1. \A e \in {winner, loser} : e \in Entries /\ InPlay(e)
    BY <1>1 DEF SidesInv
  <2> QED BY <1>1, <2>1
<1>11. ASSUME NEW g \in plan, NEW s \in Side
       PROVE  /\ SourceAt(g, s) = Winner(f.key) => At(g, s) = Bye /\ At(g, s)' = winner
              /\ SourceAt(g, s) = Loser(f.key) => At(g, s) = Bye /\ At(g, s)' = loser /\ f.key.prefix = "QUALIFYING"
              /\ SourceAt(g, s) \notin {Winner(f.key), Loser(f.key)} => At(g, s)' = At(g, s)
  <2>1. ~Played(f.key) /\ Played(f.key)' /\ Outcome(f.key)'.winner = winner /\ Outcome(f.key)'.loser = loser
    BY <1>1, <1>2, <1>3 DEF Open
  <2>2. CASE SourceAt(g, s) = Winner(f.key)
    BY <2>1, <2>2, EntrantIs, EntrantNext, SourcesDiffer DEF At
  <2>3. CASE SourceAt(g, s) = Loser(f.key)
    <3>1. f.key.prefix = "QUALIFYING"
      BY <2>3, PlanFacts, SourcesDiffer
    <3> QED BY <2>1, <2>3, <3>1, EntrantIs, EntrantNext, SourcesDiffer DEF At
  <2>4. CASE SourceAt(g, s) \notin {Winner(f.key), Loser(f.key)}
    <3>1. ASSUME NEW k, SourceAt(g, s) = Winner(k) PROVE At(g, s)' = At(g, s)
      <4>1. k # f.key
        BY <2>4, <3>1
      <4>2. CASE Played(k)
        <5>1. Played(k)' /\ Outcome(k)' = Outcome(k)
          BY <1>1, <4>2
        <5> QED BY <3>1, <4>2, <5>1, EntrantIs, EntrantNext DEF At
      <4>3. CASE ~Played(k)
        <5>1. ~Played(k)'
          BY <1>1, <4>1, <4>3
        <5> QED BY <3>1, <4>3, <5>1, EntrantIs, EntrantNext DEF At
      <4> QED BY <4>2, <4>3
    <3>2. ASSUME NEW k, SourceAt(g, s) = Loser(k) PROVE At(g, s)' = At(g, s)
      <4>1. k # f.key
        BY <2>4, <3>2
      <4>2. CASE Played(k)
        <5>1. Played(k)' /\ Outcome(k)' = Outcome(k)
          BY <1>1, <4>2
        <5> QED BY <3>2, <4>2, <5>1, EntrantIs, EntrantNext DEF At
      <4>3. CASE ~Played(k)
        <5>1. ~Played(k)'
          BY <1>1, <4>1, <4>3
        <5> QED BY <3>2, <4>3, <5>1, EntrantIs, EntrantNext DEF At
      <4> QED BY <4>2, <4>3
    <3>3. ASSUME NEW e, SourceAt(g, s) = Seed(e) PROVE At(g, s)' = At(g, s)
      BY <3>3, EntrantIs, EntrantNext DEF At
    <3>4. \/ \E e \in Entries : SourceAt(g, s) = Seed(e)
          \/ \E h \in plan : SourceAt(g, s) = Winner(h.key)
          \/ \E h \in plan : SourceAt(g, s) = Loser(h.key)
      BY PlanFacts
    <3>5. At(g, s)' = At(g, s)
      BY <3>1, <3>2, <3>3, <3>4
    <3> QED BY <2>4, <3>5
  <2> QED BY <2>2, <2>3, <2>4
<1>12. Bye \notin Entries
  BY PlanFacts
<1>13. \A g \in Open : \A s \in Side : At(g, s) \in {winner, loser} => g = f
  BY <1>1 DEF SidesInv
<1>14. \A g \in Open' : g \in Open /\ g \in plan /\ g # f
  BY <1>1 DEF Open
<1>15. ASSUME NEW g \in Open', NEW s \in Side, NEW h \in Open', NEW t \in Side,
              At(g, s)' # Bye, At(g, s)' = At(h, t)'
       PROVE  g = h /\ s = t
  <2>1. CASE SourceAt(g, s) = SourceAt(h, t)
    BY <1>14, <2>1, PlanFacts
  <2>2. CASE SourceAt(g, s) \notin {Winner(f.key), Loser(f.key)} /\ SourceAt(h, t) \notin {Winner(f.key), Loser(f.key)}
    <3>1. At(g, s) # Bye /\ At(g, s) = At(h, t)
      BY <1>11, <1>14, <1>15, <2>2
    <3> QED BY <1>14, <3>1 DEF SidesInv
  <2>3. SourceAt(g, s) \in {Winner(f.key), Loser(f.key)} => At(g, s)' \in {winner, loser}
    BY <1>11, <1>14
  <2>4. SourceAt(h, t) \in {Winner(f.key), Loser(f.key)} => At(h, t)' \in {winner, loser}
    BY <1>11, <1>14
  <2>5. \A x \in Open' : \A y \in Side : SourceAt(x, y) \notin {Winner(f.key), Loser(f.key)} => At(x, y)' \notin {winner, loser}
    BY <1>11, <1>13, <1>14
  <2>6. SourceAt(g, s) \in {Winner(f.key), Loser(f.key)} <=> SourceAt(h, t) \in {Winner(f.key), Loser(f.key)}
    BY <1>15, <2>3, <2>4, <2>5
  <2>7. CASE SourceAt(g, s) = Winner(f.key) /\ SourceAt(h, t) = Loser(f.key)
    BY <1>1, <1>11, <1>14, <1>15, <2>7
  <2>8. CASE SourceAt(g, s) = Loser(f.key) /\ SourceAt(h, t) = Winner(f.key)
    BY <1>1, <1>11, <1>14, <1>15, <2>8
  <2> QED BY <2>1, <2>2, <2>6, <2>7, <2>8
<1>16. ASSUME NEW g \in Open', NEW s \in Side, At(g, s)' # Bye
       PROVE  At(g, s)' \in Entries /\ InPlay(At(g, s))'
  <2>1. CASE SourceAt(g, s) = Winner(f.key)
    <3>1. At(g, s)' = winner
      BY <1>11, <1>14, <2>1
    <3>2. InPlay(At(g, s))' <=> InPlay(winner)'
      BY <3>1 DEF InPlay
    <3> QED BY <1>10, <3>1, <3>2
  <2>2. CASE SourceAt(g, s) = Loser(f.key)
    <3>1. At(g, s)' = loser /\ f.key.prefix = "QUALIFYING"
      BY <1>11, <1>14, <2>2
    <3>2. InPlay(At(g, s))' <=> InPlay(loser)'
      BY <3>1 DEF InPlay
    <3>3. InPlay(loser)'
      BY <1>1, <1>10, <3>1
    <3> QED BY <1>10, <3>1, <3>2, <3>3
  <2>3. CASE SourceAt(g, s) \notin {Winner(f.key), Loser(f.key)}
    <3>1. At(g, s)' = At(g, s) /\ At(g, s) # Bye
      BY <1>11, <1>14, <1>16, <2>3
    <3>2. At(g, s) \in Entries /\ InPlay(At(g, s)) /\ At(g, s) # loser
      BY <1>13, <1>14, <3>1 DEF SidesInv
    <3>3. \A w \in winners' : w.loser = At(g, s) => w.key.prefix = "QUALIFYING"
      BY <1>2, <1>3, <3>2 DEF InPlay
    <3>4. InPlay(At(g, s))'
      BY <3>1, <3>3 DEF InPlay
    <3> QED BY <3>1, <3>2, <3>4
  <2> QED BY <2>1, <2>2, <2>3
<1>17. ~Played(Final.key)
  BY <1>1, FinalOpenLast DEF Open
<1>18. ASSUME NEW g \in plan, NEW s \in Side, SourceAt(g, s) \in {Winner(f.key), Loser(f.key)}
       PROVE  g \in Open'
  <2>1. g.round \in Nat /\ f.round < g.round /\ f.round \in Nat
    BY <1>1, <1>18, PlanFacts
  <2>2. g # f
    BY <2>1
  <2>3. ~Played(g.key)
    <3>1. ASSUME Played(g.key) PROVE FALSE
      <4>1. PICK w \in winners : w.key = g.key
        BY <3>1 DEF Played
      <4>2. PICK h \in plan : h.key = w.key /\ \A t \in Side : Settled(SourceAt(h, t))
        BY DEF OutcomesInv
      <4>3. h = g
        BY <4>1, <4>2, PlanFacts
      <4>4. Settled(SourceAt(g, s))
        BY <4>2, <4>3
      <4>5. Played(f.key)
        BY <1>18, <4>4, EntrantIs
      <4> QED BY <1>1, <4>5
    <3> QED BY <3>1
  <2> QED BY <1>1, <2>2, <2>3 DEF Open
<1>19. ASSUME NEW e \in Entries, InPlay(e)'
       PROVE  \/ \E g \in Open' : \E s \in Side : At(g, s)' = e
              \/ Played(Final.key)' /\ Outcome(Final.key)'.winner = e
  <2>1. PICK g \in Open : \E s \in Side : At(g, s) = e
    BY <1>1, <1>17, <1>19 DEF SidesInv
  <2>2. PICK s \in Side : At(g, s) = e
    BY <2>1
  <2>3. CASE g # f
    <3>1. g \in Open' /\ g \in plan
      BY <1>1, <2>3 DEF Open
    <3>2. At(g, s)' = e
      BY <1>11, <1>12, <2>2, <3>1
    <3> QED BY <3>1, <3>2
  <2>4. CASE g = f /\ e = winner /\ f = Final
    <3>1. Final.key' = f.key
      BY <1>5, <2>4
    <3>2. Played(f.key)' /\ Outcome(f.key)'.winner = winner
      BY <1>1, <1>2, <1>3
    <3>3. Played(Final.key)' /\ Outcome(Final.key)'.winner = winner
      BY <3>1, <3>2 DEF Played, Outcome
    <3> QED BY <2>4, <3>3
  <2>5. CASE g = f /\ e = winner /\ f # Final
    <3>1. PICK h \in plan : \E t \in Side : SourceAt(h, t) = Winner(f.key)
      BY <1>1, <2>5, PlanFacts
    <3>2. PICK t \in Side : SourceAt(h, t) = Winner(f.key)
      BY <3>1
    <3>3. h \in Open' /\ At(h, t)' = winner
      BY <1>11, <1>18, <3>2
    <3> QED BY <2>5, <3>3
  <2>6. CASE g = f /\ e = loser
    <3>1. f.key.prefix = "QUALIFYING"
      BY <1>1, <1>19, <2>6
    <3>2. PICK h \in plan : \E t \in Side : SourceAt(h, t) = Loser(f.key)
      BY <1>1, <3>1, PlanFacts
    <3>3. PICK t \in Side : SourceAt(h, t) = Loser(f.key)
      BY <3>2
    <3>4. h \in Open' /\ At(h, t)' = loser
      BY <1>11, <1>18, <3>3
    <3> QED BY <2>6, <3>4
  <2> QED BY <1>1, <2>2, <2>3, <2>4, <2>5, <2>6
<1>20. Played(Final.key)' => InPlay(Outcome(Final.key).winner)'
  <2>1. ASSUME Played(Final.key)' PROVE InPlay(Outcome(Final.key).winner)'
    <3>1. Final.key = f.key
      BY <1>1, <1>17, <1>4, <1>5, <2>1
    <3>2. Outcome(Final.key)'.winner = winner
      BY <1>2, <1>3, <1>5, <3>1
    <3>3. (Outcome(Final.key).winner)' = winner
      BY <3>2
    <3> QED BY <1>10, <3>3 DEF InPlay
  <2> QED BY <2>1
<1> HIDE DEF w0
<1>21. SidesInv'
  <2>1. \A g, h \in Open' : \A s, t \in Side : At(g, s)' # Bye /\ At(g, s)' = At(h, t)' => g = h /\ s = t
    BY <1>15
  <2>2. \A g \in Open' : \A s \in Side : At(g, s)' # Bye => At(g, s)' \in Entries' /\ InPlay(At(g, s))'
    BY <1>5, <1>16
  <2>3. \A e \in Entries' : InPlay(e)' => \/ \E g \in Open' : \E s \in Side : At(g, s)' = e
                                          \/ Played(Final.key)' /\ Outcome(Final.key)'.winner = e
    BY <1>5, <1>19
  <2> QED BY <1>20, <2>1, <2>2, <2>3 DEF SidesInv
<1> QED BY <1>6, <1>9, <1>21

-----------------------------------------------------------------------------
(* Writing the bracket, and leaving it alone. *)

(* A bracket written while nothing is played starts with every entry at    *)
(* its one place.                                                          *)
LEMMA WriteKeeps ==
  ASSUME SetupInv, WriteBracket, plan = {} => winners = {}
  PROVE  BracketInv' /\ OutcomesInv' /\ SidesInv'
<1> DEFINE order == Seeds(request.ranking)
           fmt == request.format
<1>1. /\ ValidRanking(request.ranking) /\ (fmt = "DOUBLE_CHANCE" => Qualifiers >= 3)
      /\ Qualifiers \in Nat /\ Qualifiers >= 2 /\ Qualifiers <= Len(ranking)
  BY DEF SetupInv, WriteBracket
<1>2. /\ ProperOrder(order, Range(order)) /\ Len(order) = Qualifiers
      /\ \A i \in 1 .. Len(order) : GroupOf(order[i], groups) = GroupOf(i, groups)
  BY <1>1, SeedsAreProper
<1>3. winners' = {}
  BY DEF WriteBracket, Writable, Rewritable
<1>4. /\ drawn' = [kind |-> "DRAWN", format |-> fmt, seeds |-> order]
      /\ plan' = Plan(fmt, order) /\ groups' = groups
  BY DEF WriteBracket, tournament
<1> HIDE DEF order, fmt
<1>5. drawn'.seeds = order /\ drawn'.format = fmt
  BY <1>4
<1>6. Entries' = Range(order)
  BY <1>5 DEF Entries
<1> DEFINE entries == Range(order)
<1>7. Len(order) >= 2 /\ (fmt = "DOUBLE_CHANCE" => Len(order) >= 3) /\ ProperOrder(order, entries)
  BY <1>1, <1>2
<1> HIDE DEF entries
<1>8. PICK last : /\ ProperPlan(Plan(fmt, order), entries, last)
                  /\ fmt = "DOUBLE_CHANCE" => NoRematches(Plan(fmt, order), order, last)
                  /\ fmt # "DOUBLE_CHANCE" => WellSeeded(Plan(fmt, order), order)
  BY <1>7, PlanIsProper
<1>9. Final' = last
  <2>1. last = CHOOSE f \in plan' : \A o \in plan' : o.round <= f.round
    BY <1>4, <1>8, LastIsFinal
  <2> QED BY <2>1 DEF Final
<1>10. ProperPlan(plan', entries, last) /\ Entries' = entries
  BY <1>4, <1>6, <1>8 DEF entries
<1>11. BracketInv'
  <2>1. ProperOrder(drawn'.seeds, Entries') /\ Len(drawn'.seeds) >= 2
    BY <1>5, <1>7, <1>10
  <2>2. \A i \in 1 .. Len(drawn'.seeds) : GroupOf(drawn'.seeds[i], groups') = GroupOf(i, groups')
    BY <1>2, <1>4, <1>5
  <2>3. ProperPlan(plan', Entries', Final')
    BY <1>9, <1>10
  <2>4. /\ drawn'.format = "DOUBLE_CHANCE" => NoRematches(plan', drawn'.seeds, Final')
        /\ drawn'.format # "DOUBLE_CHANCE" => WellSeeded(plan', drawn'.seeds)
    BY <1>4, <1>5, <1>8, <1>9
  <2> QED BY <2>1, <2>2, <2>3, <2>4 DEF BracketInv
<1>12. \A k : ~Played(k)'
  BY <1>3 DEF Played
<1>13. Open' = plan'
  BY <1>12 DEF Open
<1>14. OutcomesInv'
  BY <1>3, FS_EmptySet DEF OutcomesInv
<1>15. /\ \A f, g \in plan' : \A s, t \in Side : SourceAt(f, s) = SourceAt(g, t) => f = g /\ s = t
       /\ \A f \in plan' : \A s \in Side :
            \/ \E e \in entries : SourceAt(f, s) = Seed(e)
            \/ \E k : SourceAt(f, s) = Winner(k)
            \/ \E k : SourceAt(f, s) = Loser(k)
       /\ \A e \in entries : \E f \in plan' : \E s \in Side : SourceAt(f, s) = Seed(e)
  BY <1>10, PlanSources
<1>16. ASSUME NEW f \in plan', NEW s \in Side, At(f, s)' # Bye
       PROVE  At(f, s)' \in entries /\ SourceAt(f, s) = Seed(At(f, s)')
  <2>1. \A k : SourceAt(f, s) # Winner(k) /\ SourceAt(f, s) # Loser(k)
    BY <1>12, <1>16, EntrantNext DEF At
  <2>2. PICK e \in entries : SourceAt(f, s) = Seed(e)
    BY <1>15, <2>1
  <2>3. At(f, s)' = e
    BY <2>2, EntrantNext DEF At
  <2> QED BY <2>2, <2>3
<1>17. \A e : InPlay(e)'
  BY <1>3 DEF InPlay
<1>18. SidesInv'
  <2>1. \A f, g \in Open' : \A s, t \in Side : At(f, s)' # Bye /\ At(f, s)' = At(g, t)' => f = g /\ s = t
    BY <1>13, <1>15, <1>16
  <2>2. \A f \in Open' : \A s \in Side : At(f, s)' # Bye => At(f, s)' \in Entries' /\ InPlay(At(f, s))'
    BY <1>10, <1>13, <1>16, <1>3 DEF InPlay
  <2>3. ASSUME NEW e \in entries PROVE \E f \in Open' : \E s \in Side : At(f, s)' = e
    <3>1. PICK f \in plan' : \E s \in Side : SourceAt(f, s) = Seed(e)
      BY <1>15
    <3>2. PICK s \in Side : SourceAt(f, s) = Seed(e)
      BY <3>1
    <3>3. At(f, s)' = e
      BY <3>2, EntrantNext DEF At
    <3> QED BY <1>13, <3>3
  <2>4. ~Played(Final.key)'
    BY <1>3 DEF Played
  <2> QED BY <1>10, <2>1, <2>2, <2>3, <2>4 DEF SidesInv
<1> QED BY <1>11, <1>14, <1>18

(* The bracket is as sound as it was while nothing of it changes. *)
LEMMA BracketStays ==
  ASSUME UNCHANGED << groups, bracket >>
  PROVE  /\ (BracketInv /\ OutcomesInv /\ SidesInv) => (BracketInv /\ OutcomesInv /\ SidesInv)'
         /\ plan' = plan /\ winners' = winners
<1>1. drawn' = drawn /\ plan' = plan /\ winners' = winners /\ groups' = groups
  BY DEF bracket
<1>2. Entries' = Entries /\ Final' = Final /\ Open' = Open
  BY <1>1 DEF Entries, Final, Open, Played
<1>3. BracketInv => BracketInv'
  BY <1>1, <1>2 DEF BracketInv
<1>4. /\ \A k : (Played(k)' <=> Played(k)) /\ Outcome(k)' = Outcome(k) /\ Reach(k)' = Reach(k)
      /\ \A e : InPlay(e)' <=> InPlay(e)
  BY <1>1 DEF Played, Outcome, Reach, InPlay
<1>5. \A s : Settled(s)' <=> Settled(s)
  BY <1>4 DEF Settled
<1>6. OutcomesInv => OutcomesInv'
  BY <1>1, <1>2, <1>4, <1>5 DEF OutcomesInv
<1>7. \A side : Entrant(side)' = Entrant(side)
  BY <1>1 DEF Entrant, Played, Outcome
<1>8. \A f, s : At(f, s)' = At(f, s)
  BY <1>7 DEF At
<1>9. /\ \A f, s : InPlay(At(f, s))' <=> InPlay(At(f, s))
      /\ (InPlay(Outcome(Final.key).winner)' <=> InPlay(Outcome(Final.key).winner))
      /\ Played(Final.key)' <=> Played(Final.key)
      /\ Outcome(Final.key)' = Outcome(Final.key)
  <2>1. \A f, s : InPlay(At(f, s))' <=> InPlay(At(f, s))
    BY <1>1, <1>8 DEF InPlay
  <2>2. (Played(Final.key)' <=> Played(Final.key)) /\ Outcome(Final.key)' = Outcome(Final.key)
    BY <1>1, <1>2 DEF Played, Outcome
  <2>3. InPlay(Outcome(Final.key).winner)' <=> InPlay(Outcome(Final.key).winner)
    BY <1>1, <2>2 DEF InPlay
  <2> QED BY <2>1, <2>2, <2>3
<1>10. SidesInv => SidesInv'
  BY <1>2, <1>4, <1>8, <1>9 DEF SidesInv
<1> QED BY <1>1, <1>3, <1>6, <1>10

-----------------------------------------------------------------------------
(* The theorems. *)

(* There is no bracket yet. *)
LEMMA PlayoffInitially == Init => PlayoffInv
BY SetupInitially DEF Init, PlayoffInv

(* Every step keeps the invariant. *)
LEMMA PlayoffStays == PlayoffInv /\ [Next]_vars => PlayoffInv'
<1> SUFFICES ASSUME PlayoffInv, [Next]_vars PROVE PlayoffInv'
  OBVIOUS
<1>1. SetupInv /\ SetupInv' /\ (plan = {} => winners = {})
  BY SetupStays DEF PlayoffInv
<1>2. CASE UNCHANGED << groups, bracket >>
  BY <1>1, <1>2, BracketStays DEF PlayoffInv
<1>3. CASE WriteBracket
  <2>1. BracketInv' /\ OutcomesInv' /\ SidesInv'
    BY <1>1, <1>3, WriteKeeps
  <2>2. winners' = {}
    BY <1>1, <1>3 DEF WriteBracket, Writable, Rewritable
  <2> QED BY <1>1, <2>1, <2>2 DEF PlayoffInv
<1>4. ASSUME NEW f \in Playable, NEW winner \in Pair(f), Play(f, winner)
      PROVE  PlayoffInv'
  <2>1. plan # {} /\ plan' = plan
    BY <1>4 DEF Playable, Open, Play
  <2>2. BracketInv /\ OutcomesInv /\ SidesInv
    BY <2>1 DEF PlayoffInv
  <2>3. BracketInv' /\ OutcomesInv' /\ SidesInv'
    BY <1>4, <2>2, PlayKeeps
  <2> QED BY <1>1, <2>1, <2>3 DEF PlayoffInv
<1>5. CASE generateFixtures
  BY <1>2, <1>5 DEF generateFixtures, tournament
<1>6. CASE FinishStage
  BY <1>2, <1>6 DEF FinishStage, tournament
<1>7. CASE ReviseStage
  BY <1>2, <1>7 DEF ReviseStage, tournament
<1>8. CASE CheckFormat
  BY <1>2, <1>8 DEF CheckFormat, tournament
<1>9. CASE SaveFormat
  BY <1>2, <1>9 DEF SaveFormat, tournament
<1>10. CASE \E kind \in {"GENERATE", "RESEED"} : ReadTables(kind)
  BY <1>2, <1>10 DEF ReadTables, tournament
<1>11. CASE Refuse
  BY <1>2, <1>11 DEF Refuse, tournament
<1>12. CASE Champion \/ UNCHANGED vars
  BY <1>2, <1>12 DEF Champion, vars, tournament
<1> QED BY <1>3, <1>4, <1>5, <1>6, <1>7, <1>8, <1>9, <1>10, <1>11, <1>12 DEF Next

(* The invariant of the playoffs, for any numbers of entries, groups and   *)
(* revisions: a valid setup, a proper plan of the entries drawn, and       *)
(* everybody who is not out at exactly one open side.                      *)
THEOREM PlayoffsSound == Spec => []PlayoffInv
<1>1. Init => PlayoffInv
  BY PlayoffInitially
<1>2. PlayoffInv /\ [Next]_vars => PlayoffInv'
  BY PlayoffStays
<1> QED BY <1>1, <1>2, PTL DEF Spec

(* Counting losses, as the property does, tells who is in play. *)
LEMMA AliveIsInPlay ==
  ASSUME IsFiniteSet(winners)
  PROVE  Alive = {e \in Entries : InPlay(e)}
<1>1. ASSUME NEW e PROVE Losses(e) = Forgiven(e) <=> InPlay(e)
  <2> DEFINE lost == {w \in winners : w.loser = e}
             excused == {w \in winners : w.loser = e /\ w.key.prefix = "QUALIFYING"}
  <2>1. IsFiniteSet(lost) /\ excused \in SUBSET lost
    <3>1. lost \in SUBSET winners
      OBVIOUS
    <3> QED BY <3>1, FS_Subset
  <2>2. Losses(e) = Cardinality(lost) /\ Forgiven(e) = Cardinality(excused)
    BY DEF Losses, Forgiven
  <2>3. excused = lost <=> InPlay(e)
    BY DEF InPlay
  <2> HIDE DEF lost, excused
  <2>4. Cardinality(lost) = Cardinality(excused) => lost = excused
    BY <2>1, FS_Subset
  <2> QED BY <2>2, <2>3, <2>4
<1> QED BY <1>1 DEF Alive

(* Whoever is not knocked out has exactly one fixture ahead until one      *)
(* entry is left (playoffs.service and the two engines), for any bracket.  *)
THEOREM EntriesKeepTheirFixture == Spec => []EveryEntryHasItsFixture
<1>1. PlayoffInv => EveryEntryHasItsFixture
  <2> SUFFICES ASSUME PlayoffInv, plan # {}
               PROVE  IF Open = {} THEN Alive = {Outcome(Final.key).winner}
                      ELSE \A e \in Entries : Cardinality(Waiting(e)) = IF e \in Alive THEN 1 ELSE 0
    BY DEF EveryEntryHasItsFixture
  <2>1. BracketInv /\ OutcomesInv /\ SidesInv
    BY DEF PlayoffInv
  <2>2. Alive = {e \in Entries : InPlay(e)}
    BY <2>1, AliveIsInPlay DEF OutcomesInv
  <2>3. CASE Open = {}
    <3> DEFINE champion == Outcome(Final.key).winner
    <3>1. Final \in plan
      BY <2>1, PlanFacts
    <3>2. Played(Final.key)
      BY <2>3, <3>1 DEF Open
    <3>3. champion \in Entries
      <4>1. Outcome(Final.key) \in winners
        BY <2>1, <3>2, OutcomeIs
      <4> QED BY <2>1, <4>1 DEF OutcomesInv
    <3>4. InPlay(champion)
      BY <2>1, <3>2 DEF SidesInv
    <3>5. \A e \in Entries : InPlay(e) => e = champion
      BY <2>1, <2>3 DEF SidesInv
    <3> QED BY <2>2, <2>3, <3>3, <3>4, <3>5
  <2>4. ASSUME Open # {}, NEW e \in Entries
        PROVE  Cardinality(Waiting(e)) = IF e \in Alive THEN 1 ELSE 0
    <3>1. \A f : Pair(f) = {At(f, 1), At(f, 2)} /\ 1 \in Side /\ 2 \in Side
      BY DEF Pair, At, SourceAt, Side
    <3>2. \A f \in Open : e \in Pair(f) <=> \E s \in Side : At(f, s) = e
      <4>1. \A s \in Side : s = 1 \/ s = 2
        BY DEF Side
      <4> QED BY <3>1, <4>1
    <3>3. e # Bye
      BY <2>1, PlanFacts
    <3>4. CASE InPlay(e)
      <4>1. ~Played(Final.key)
        BY <2>1, <2>4, FinalOpenLast DEF Open
      <4>2. PICK f \in Open : \E s \in Side : At(f, s) = e
        BY <2>1, <3>4, <4>1 DEF SidesInv
      <4>3. \A g \in Open : (\E s \in Side : At(g, s) = e) => g = f
        BY <2>1, <3>3, <4>2 DEF SidesInv
      <4>4. Waiting(e) = {f}
        BY <3>2, <4>2, <4>3 DEF Waiting
      <4>5. Cardinality(Waiting(e)) = 1
        BY <4>4, FS_Singleton
      <4> QED BY <2>2, <3>4, <4>5
    <3>5. CASE ~InPlay(e)
      <4>1. \A f \in Open : ~\E s \in Side : At(f, s) = e
        BY <2>1, <3>3, <3>5 DEF SidesInv
      <4>2. Waiting(e) = {}
        BY <3>2, <4>1 DEF Waiting
      <4>3. Cardinality(Waiting(e)) = 0
        BY <4>2, FS_EmptySet
      <4> QED BY <2>2, <3>5, <4>3
    <3> QED BY <3>4, <3>5
  <2> QED BY <2>3, <2>4
<1> QED BY <1>1, PlayoffsSound, PTL

(* The best seeds and the entries of a group are kept apart, whatever the  *)
(* results and however many entries there are (playoff-seeding).           *)
THEOREM FavouritesStayApart == Spec => []FavouritesApart
<1>1. PlayoffInv => FavouritesApart
  <2> DEFINE order == drawn.seeds
             n == Len(order)
             K == BracketRounds(n)
  <2> SUFFICES ASSUME PlayoffInv, plan # {}, drawn.format # "DOUBLE_CHANCE"
               PROVE  /\ \A f \in Playable : \A k \in 1 .. K :
                           (\A e \in Pair(f) : SeedOf(e) <= 2^k) => f.round > K - k
                      /\ groups % 2 = 0 =>
                           \A f \in plan : f.round = 1 =>
                             GroupOf(f.home.entry, groups) # GroupOf(f.away.entry, groups)
    BY DEF FavouritesApart
  <2>1. /\ BracketInv /\ OutcomesInv /\ WellSeeded(plan, order) /\ groups \in Nat \ {0}
        /\ \A i \in 1 .. n : GroupOf(order[i], groups) = GroupOf(i, groups)
    BY DEF PlayoffInv, SetupInv, BracketInv
  <2>2. n \in Nat /\ order \in Seq(Entries) /\ \A s, t \in 1 .. n : order[s] = order[t] => s = t
    BY <2>1 DEF BracketInv, ProperOrder
  <2>3. \A i \in 1 .. n : SeedOf(order[i]) = i
    BY <2>2 DEF SeedOf
  <2>4. K \in Nat
    <3>1. n >= 1
      BY <2>1, <2>2 DEF BracketInv
    <3> QED BY <2>2, <3>1, RoundsOfBracket
  <2>5. ASSUME NEW f \in Playable, NEW k \in 1 .. K, \A e \in Pair(f) : SeedOf(e) <= 2^k, f.round <= K - k
        PROVE  FALSE
    <3> DEFINE e == At(f, 2)
    <3>1. f \in plan /\ Bye \notin Pair(f) /\ e \in Pair(f) /\ SourceAt(f, 2) = f.away /\ 2 \in Side
      BY DEF Playable, Open, Pair, At, SourceAt, Side
    <3>2. e \in Coming(f.away)
      <4>1. At(f, 2) # Bye
        BY <3>1
      <4> QED BY <2>1, <3>1, <4>1, OnlyComing
    <3>3. Coming(f.away) = Arriving(order, f.away)
      BY DEF Coming, Arriving, Reach
    <3>4. /\ f.round \in 1 .. K
          /\ Arriving(order, f.away) \subseteq {order[s] : s \in {t \in 1 .. n : t > 2^(K - f.round)}}
      BY <2>1, <3>1 DEF WellSeeded, Outsiders
    <3>5. PICK t \in 1 .. n : t > 2^(K - f.round) /\ e = order[t]
      BY <3>2, <3>3, <3>4
    <3>6. SeedOf(e) = t
      BY <2>3, <3>5
    <3>7. t <= 2^k
      BY <2>5, <3>1, <3>6
    <3> HIDE DEF K, n
    <3>8. k \in Nat /\ K - f.round \in Nat /\ k <= K - f.round
      BY <2>4, <2>5, <3>4
    <3>9. 2^k \in Nat /\ 2^(K - f.round) \in Nat /\ 2^k <= 2^(K - f.round)
      BY <3>8, PowerOrder, DoublingPower
    <3> QED BY <3>5, <3>7, <3>9
  <2>6. ASSUME groups % 2 = 0, NEW f \in plan, f.round = 1
        PROVE  GroupOf(f.home.entry, groups) # GroupOf(f.away.entry, groups)
    <3>1. PICK i, j \in 1 .. n : i + j = 2^K + 1 /\ f.home = Seed(order[i]) /\ f.away = Seed(order[j])
      BY <2>1, <2>6 DEF WellSeeded
    <3>2. f.home.entry = order[i] /\ f.away.entry = order[j]
      BY <3>1 DEF Seed
    <3>3. 1 \in 1 .. K
      BY <2>1, <2>6 DEF WellSeeded
    <3> HIDE DEF K
    <3>4. K - 1 \in Nat /\ K \in Nat /\ K # 0 /\ (K - 1) + 1 = K
      BY <2>4, <3>3
    <3>5. 2^(K - 1) \in Nat /\ 2^K = 2 * 2^(K - 1)
      BY <3>4, DoublingPower
    <3>6. (i + j) % 2 = 1
      BY <3>1, <3>5
    <3>7. GroupOf(i, groups) # GroupOf(j, groups)
      BY <2>1, <2>6, <3>6, EvenGroupsDiffer
    <3> QED BY <2>1, <3>2, <3>7
  <2>7. \A f \in Playable : f.round \in Nat
    BY <2>1, PlanFacts DEF Playable, Open
  <2>8. ASSUME NEW f \in Playable, NEW k \in 1 .. K, \A e \in Pair(f) : SeedOf(e) <= 2^k
        PROVE  f.round > K - k
    <3>1. ~(f.round <= K - k)
      BY <2>5, <2>8
    <3> HIDE DEF K
    <3> QED BY <2>4, <2>7, <3>1
  <2> QED BY <2>6, <2>8
<1> QED BY <1>1, PlayoffsSound, PTL

(* In a double chance of any size two entries meet again in the final at   *)
(* the earliest (universal-playoff-engine).                                *)
THEOREM RematchInFinalOnly == Spec => []RematchOnlyInFinal
<1>1. PlayoffInv => RematchOnlyInFinal
  <2> SUFFICES ASSUME PlayoffInv, plan # {}, drawn.format = "DOUBLE_CHANCE",
                      NEW f \in Playable, f # Final, NEW w \in winners, {w.winner, w.loser} = Pair(f)
               PROVE  FALSE
    BY DEF RematchOnlyInFinal
  <2>1. BracketInv /\ OutcomesInv /\ SidesInv /\ NoRematches(plan, drawn.seeds, Final)
    BY DEF PlayoffInv, BracketInv
  <2>2. f \in Open /\ f \in plan /\ ~Played(f.key) /\ Bye \notin Pair(f) /\ Pair(f) = {At(f, 1), At(f, 2)}
    BY DEF Playable, Open, Pair, At, SourceAt
  <2>3. \A s \in Side : At(f, s) \in Pair(f) /\ At(f, s) # Bye
    BY <2>2 DEF Side
  <2>4. CASE w.key.prefix # "QUALIFYING"
    <3>1. PICK s \in Side : At(f, s) = w.loser
      BY <2>2 DEF Side
    <3>2. InPlay(w.loser)
      BY <2>1, <2>2, <2>3, <3>1 DEF SidesInv
    <3> QED BY <2>4, <3>2 DEF InPlay
  <2>5. CASE w.key.prefix = "QUALIFYING"
    <3>1. PICK q \in plan : q.key = w.key
      BY <2>1 DEF OutcomesInv
    <3>2. q # f
      BY <2>2, <3>1 DEF Played
    <3>3. PICK s \in Side : Possible(drawn.seeds, SourceAt(f, s)) \cap MayMeet(drawn.seeds, q.key) = {}
      BY <2>1, <2>2, <2>5, <3>1, <3>2 DEF NoRematches
    <3>4. At(f, s) \in Coming(SourceAt(f, s))
      BY <2>1, <2>2, <2>3, OnlyComing
    <3>5. Coming(SourceAt(f, s)) = Possible(drawn.seeds, SourceAt(f, s))
      BY DEF Coming, Possible, Reach
    <3>6. At(f, s) \in Reach(q.key)
      BY <2>1, <2>3, <3>1 DEF OutcomesInv
    <3>7. Reach(q.key) = MayMeet(drawn.seeds, q.key)
      BY DEF Reach
    <3> QED BY <3>3, <3>4, <3>5, <3>6, <3>7
  <2> QED BY <2>4, <2>5
<1> QED BY <1>1, PlayoffsSound, PTL

(* A bracket is only written of the tables as they are at that moment and  *)
(* of a complete stage (generatePlayoffs and its transaction).             *)
THEOREM BracketsAreAsRanked == Spec => DrawnAsRanked
<1> DEFINE A == plan' # plan => drawn'.seeds = Seeds(ranking) /\ finished
<1>1. [Next]_vars => [A]_vars
  <2> SUFFICES ASSUME [Next]_vars, plan' # plan PROVE drawn'.seeds = Seeds(ranking) /\ finished
    OBVIOUS
  <2>1. CASE WriteBracket
    BY <2>1 DEF WriteBracket, Writable, StillCurrent
  <2>2. CASE UNCHANGED bracket
    BY <2>2 DEF bracket
  <2>3. WriteBracket \/ UNCHANGED plan
    BY DEF Next, generateFixtures, FinishStage, ReviseStage, CheckFormat, SaveFormat, ReadTables, Refuse,
           Play, Champion, bracket, vars
  <2> QED BY <2>1, <2>3
<1> QED BY <1>1, PTL DEF Spec, DrawnAsRanked

-----------------------------------------------------------------------------
(* League phases: their pairings. *)

(* Rows of P numbers each. *)
LEMMA Rows ==
  ASSUME NEW R \in Nat, NEW P \in Nat, P >= 1
  PROVE  /\ R * P \in Nat
         /\ \A r \in 0 .. R - 1 : \A k \in 0 .. P - 1 :
              r * P + k \in 0 .. R * P - 1 /\ (r * P + k) \div P = r /\ (r * P + k) % P = k
         /\ \A i \in 0 .. R * P - 1 :
              i \div P \in 0 .. R - 1 /\ i % P \in 0 .. P - 1 /\ i = (i \div P) * P + (i % P)
<1>1. R * P \in Nat
  OBVIOUS
<1>2. \A i \in Nat : i \div P \in Nat /\ i % P \in 0 .. P - 1 /\ i = (i \div P) * P + (i % P)
  OBVIOUS
<1>3. \A k \in Int : (k >= 1 => k * P >= P) /\ (k <= -1 => k * P <= -P)
  OBVIOUS
<1>4. ASSUME NEW p \in Nat, NEW q \in Nat, NEW a \in 0 .. P - 1, NEW b \in 0 .. P - 1, p * P + a = q * P + b
      PROVE  p = q /\ a = b
  <2>1. (p - q) * P = b - a /\ p - q \in Int
    BY <1>4
  <2>2. p - q >= 1 \/ p - q <= -1 \/ p = q
    OBVIOUS
  <2> QED BY <1>3, <1>4, <2>1, <2>2
<1>5. ASSUME NEW r \in 0 .. R - 1, NEW k \in 0 .. P - 1
      PROVE  r * P + k \in 0 .. R * P - 1 /\ (r * P + k) \div P = r /\ (r * P + k) % P = k
  <2>1. r \in Nat /\ r * P \in Nat /\ R - 1 - r \in Nat
    OBVIOUS
  <2>2. (R - 1 - r) * P >= 0
    BY <2>1
  <2>3. R * P = r * P + P + (R - 1 - r) * P
    BY <2>1
  <2>4. r * P + k \in Nat /\ r * P + k <= R * P - 1
    BY <2>1, <2>2, <2>3
  <2> DEFINE i == r * P + k
             q == i \div P
             b == i % P
  <2>5. q \in Nat /\ b \in 0 .. P - 1 /\ r * P + k = q * P + b
    BY <1>2, <2>4
  <2> HIDE DEF q, b
  <2>6. r = q /\ k = b
    BY <1>4, <2>1, <2>5
  <2> QED BY <1>1, <2>4, <2>6 DEF q, b
<1>6. ASSUME NEW i \in 0 .. R * P - 1 PROVE i \div P \in 0 .. R - 1
  <2> DEFINE q == i \div P
             b == i % P
  <2>1. q \in Nat /\ b \in 0 .. P - 1 /\ i = q * P + b /\ i \in Nat /\ i < R * P
    BY <1>1, <1>2
  <2> HIDE DEF q, b
  <2>2. ASSUME q >= R PROVE FALSE
    <3>1. (q - R) * P >= 0 /\ q - R \in Nat
      BY <2>1, <2>2
    <3>2. q * P = R * P + (q - R) * P
      BY <2>1
    <3> QED BY <1>1, <2>1, <3>1, <3>2
  <2>3. q \in 0 .. R - 1
    BY <2>1, <2>2
  <2> QED BY <2>3 DEF q
<1>7. \A i \in 0 .. R * P - 1 : i \in Nat
  BY <1>1
<1> QED BY <1>1, <1>2, <1>5, <1>6, <1>7

(* The matches of the rounds. *)
PerRound(n) == IF n % 2 = 0 THEN n \div 2 ELSE n
RoundsPlayed(n) == IF n % 2 = 0 THEN Degree(n) ELSE Degree(n) \div 2
LeftOf(n, r, k) == IF n % 2 = 0 THEN Slot(n - 1, r, k) ELSE k
RightOf(n, r, k) == IF n % 2 = 0 THEN Slot(n - 1, r, n - 1 - k) ELSE (k + r + 1) % n
Number(n, r, k) == r * PerRound(n) + k + 1

(* A team plays fewer matches than there are others, and an even number   *)
(* of them if the teams are odd.                                           *)
LEMMA DegreeBounds ==
  ASSUME NEW n \in Nat, n >= 2
  PROVE  /\ Degree(n) \in Nat /\ Degree(n) <= n - 1
         /\ n % 2 = 1 => Degree(n) = 2 * (Degree(n) \div 2) /\ Degree(n) \div 2 \in Nat
         /\ PerRound(n) \in Nat /\ PerRound(n) >= 1 /\ RoundsPlayed(n) \in Nat
<1>1. Requested(n) = IF n - 1 <= 8 THEN n - 1 ELSE 8
  <2>1. \A x \in {8, n - 1} : (\A y \in {8, n - 1} : x <= y) <=> x = IF n - 1 <= 8 THEN n - 1 ELSE 8
    OBVIOUS
  <2>2. (IF n - 1 <= 8 THEN n - 1 ELSE 8) \in {8, n - 1}
    OBVIOUS
  <2> QED BY <2>1, <2>2 DEF Requested, Min
<1>2. n % 2 = 1 => Requested(n) % 2 = 0
  BY <1>1
<1>3. Degree(n) = Requested(n)
  BY <1>2 DEF Degree
<1>4. Degree(n) \in Nat /\ Degree(n) <= n - 1
  BY <1>1, <1>3
<1>5. n % 2 = 1 => Degree(n) = 2 * (Degree(n) \div 2) /\ Degree(n) \div 2 \in Nat
  BY <1>1, <1>3
<1>6. PerRound(n) \in Nat /\ PerRound(n) >= 1
  BY DEF PerRound
<1>7. RoundsPlayed(n) \in Nat
  BY <1>4 DEF RoundsPlayed
<1> QED BY <1>4, <1>5, <1>6, <1>7

(* The pairings in their order, round by round. *)
LEMMA PairingsAre ==
  ASSUME NEW n \in Nat, n >= 2
  PROVE  /\ Len(Pairings(n)) = RoundsPlayed(n) * PerRound(n)
         /\ RoundsPlayed(n) * PerRound(n) \in Nat
         /\ \A r \in 0 .. RoundsPlayed(n) - 1 : \A k \in 0 .. PerRound(n) - 1 :
              /\ Number(n, r, k) \in 1 .. RoundsPlayed(n) * PerRound(n)
              /\ Pairings(n)[Number(n, r, k)].left = LeftOf(n, r, k)
              /\ Pairings(n)[Number(n, r, k)].right = RightOf(n, r, k)
              /\ Pairings(n)[Number(n, r, k)].round = r + 1
              /\ Pairings(n)[Number(n, r, k)].position = k + 1
         /\ \A i \in 1 .. RoundsPlayed(n) * PerRound(n) :
              \E r \in 0 .. RoundsPlayed(n) - 1 : \E k \in 0 .. PerRound(n) - 1 : i = Number(n, r, k)
<1> DEFINE R == RoundsPlayed(n)
           P == PerRound(n)
           pairing(r, k) == [round |-> r + 1, position |-> k + 1, left |-> LeftOf(n, r, k), right |-> RightOf(n, r, k)]
<1>1. R \in Nat /\ P \in Nat /\ P >= 1
  BY DegreeBounds
<1>2. Pairings(n) = [i \in 1 .. R * P |-> pairing((i - 1) \div P, (i - 1) % P)]
  BY DEF Pairings, RoundsPlayed, PerRound, LeftOf, RightOf
<1>3. \A r, k : Number(n, r, k) = r * P + k + 1
  BY DEF Number
<1> HIDE DEF R, P
<1>4. R * P \in Nat
  BY <1>1, Rows
<1>5. Len(Pairings(n)) = R * P
  <2> HIDE DEF pairing
  <2>1. DOMAIN Pairings(n) = 1 .. R * P /\ Pairings(n) \in Seq({Pairings(n)[i] : i \in 1 .. R * P})
    BY <1>2, <1>4
  <2> QED BY <1>4, <2>1
<1>6. ASSUME NEW r \in 0 .. R - 1, NEW k \in 0 .. P - 1
      PROVE  /\ Number(n, r, k) \in 1 .. R * P
             /\ Pairings(n)[Number(n, r, k)] = pairing(r, k)
  <2> DEFINE i == r * P + k
  <2>1. i \in 0 .. R * P - 1 /\ i \div P = r /\ i % P = k
    BY <1>1, Rows
  <2> HIDE DEF i
  <2>2. Number(n, r, k) = i + 1 /\ i + 1 \in 1 .. R * P /\ (i + 1) - 1 = i
    BY <1>3, <1>4, <2>1 DEF i
  <2> HIDE DEF pairing
  <2> QED BY <1>2, <2>1, <2>2
<1>7. ASSUME NEW i \in 1 .. R * P PROVE \E r \in 0 .. R - 1 : \E k \in 0 .. P - 1 : i = Number(n, r, k)
  <2>1. i - 1 \in 0 .. R * P - 1 /\ i = (i - 1) + 1
    BY <1>4
  <2> DEFINE r == (i - 1) \div P
             k == (i - 1) % P
  <2>2. r \in 0 .. R - 1 /\ k \in 0 .. P - 1 /\ i - 1 = r * P + k
    BY <1>1, <2>1, Rows
  <2> HIDE DEF r, k
  <2>3. i = Number(n, r, k)
    BY <1>3, <2>1, <2>2
  <2> QED BY <2>2, <2>3
<1>8. ASSUME NEW r \in 0 .. R - 1, NEW k \in 0 .. P - 1
      PROVE  /\ Number(n, r, k) \in 1 .. R * P
             /\ Pairings(n)[Number(n, r, k)].left = LeftOf(n, r, k)
             /\ Pairings(n)[Number(n, r, k)].right = RightOf(n, r, k)
             /\ Pairings(n)[Number(n, r, k)].round = r + 1
             /\ Pairings(n)[Number(n, r, k)].position = k + 1
  <2>1. Number(n, r, k) \in 1 .. R * P /\ Pairings(n)[Number(n, r, k)] = pairing(r, k)
    BY <1>6
  <2>2. /\ pairing(r, k).left = LeftOf(n, r, k)
        /\ pairing(r, k).right = RightOf(n, r, k)
        /\ pairing(r, k).round = r + 1
        /\ pairing(r, k).position = k + 1
    OBVIOUS
  <2> HIDE DEF pairing
  <2> QED BY <2>1, <2>2
<1> HIDE DEF pairing
<1> QED BY <1>4, <1>5, <1>7, <1>8 DEF R, P

Rivals(n, r, k) == {LeftOf(n, r, k), RightOf(n, r, k)}

(* Going round a table of n. *)
LEMMA RoundTable ==
  ASSUME NEW n \in Nat, n >= 1, NEW x \in 0 .. 2 * n - 1
  PROVE  x % n = IF x < n THEN x ELSE x - n
<1>1. /\ x \in Nat /\ x % n \in 0 .. n - 1 /\ x \div n \in Nat /\ x = n * (x \div n) + (x % n)
  OBVIOUS
<1> DEFINE q == x \div n
           b == x % n
<1>2. q \in Nat /\ b \in 0 .. n - 1 /\ x = n * q + b /\ x <= 2 * n - 1
  BY <1>1
<1> HIDE DEF q, b
<1>3. q = 0 \/ q = 1
  <2>1. ASSUME q >= 2 PROVE FALSE
    <3>1. n * (q - 2) >= 0 /\ q - 2 \in Nat
      BY <1>2, <2>1
    <3>2. n * q = 2 * n + n * (q - 2)
      BY <1>2
    <3> QED BY <1>2, <3>1, <3>2
  <2> QED BY <1>2, <2>1
<1>4. n * 0 = 0 /\ n * 1 = n
  OBVIOUS
<1>5. b = IF x < n THEN x ELSE x - n
  BY <1>2, <1>3, <1>4
<1> QED BY <1>5 DEF b

(* The opponent of an odd number of teams. *)
LEMMA OddRight ==
  ASSUME NEW n \in Nat, n >= 2, n % 2 = 1
  PROVE  \A r \in Nat : r < n =>
           \A k \in 0 .. n - 1 : RightOf(n, r, k) = IF k + r + 1 < n THEN k + r + 1 ELSE k + r + 1 - n
<1> TAKE r \in Nat
<1> SUFFICES ASSUME r < n, NEW k \in 0 .. n - 1
             PROVE  RightOf(n, r, k) = IF k + r + 1 < n THEN k + r + 1 ELSE k + r + 1 - n
  OBVIOUS
<1> DEFINE x == k + r + 1
<1>1. x \in 0 .. 2 * n - 1
  OBVIOUS
<1>2. RightOf(n, r, k) = x % n
  BY DEF RightOf
<1> HIDE DEF x
<1>3. n \in Nat /\ n >= 1
  OBVIOUS
<1>4. x % n = IF x < n THEN x ELSE x - n
  BY <1>1, <1>3, RoundTable
<1> QED BY <1>2, <1>4 DEF x

(* The two of a pairing are two of the teams. *)
LEMMA RivalsAreTeams ==
  ASSUME NEW n \in Nat, n >= 2, NEW r \in 0 .. RoundsPlayed(n) - 1, NEW k \in 0 .. PerRound(n) - 1
  PROVE  LeftOf(n, r, k) \in 0 .. n - 1 /\ RightOf(n, r, k) \in 0 .. n - 1 /\ LeftOf(n, r, k) # RightOf(n, r, k)
<1>1. Degree(n) \in Nat /\ Degree(n) <= n - 1 /\ (n % 2 = 1 => Degree(n) = 2 * (Degree(n) \div 2) /\ Degree(n) \div 2 \in Nat)
  BY DegreeBounds
<1>2. CASE n % 2 = 0
  <2>1. /\ n - 1 \in Nat /\ r \in 0 .. (n - 1) - 1 /\ k \in 0 .. n - 1 /\ n - 1 - k \in 0 .. n - 1
        /\ k # n - 1 - k
    BY <1>1, <1>2 DEF RoundsPlayed, PerRound
  <2>2. /\ Slot(n - 1, r, k) \in 0 .. n - 1 /\ Slot(n - 1, r, n - 1 - k) \in 0 .. n - 1
        /\ Slot(n - 1, r, k) # Slot(n - 1, r, n - 1 - k)
    BY <2>1, SlotPermutes
  <2> QED BY <1>2, <2>2 DEF LeftOf, RightOf
<1>3. CASE n % 2 = 1
  <2>1. k \in 0 .. n - 1 /\ r \in Nat /\ 2 * (r + 1) <= n - 1 /\ r + 1 >= 1
    BY <1>1, <1>3 DEF RoundsPlayed, PerRound
  <2>2. r < n
    BY <2>1
  <2>3. RightOf(n, r, k) = IF k + r + 1 < n THEN k + r + 1 ELSE k + r + 1 - n
    BY <1>3, <2>1, <2>2, OddRight
  <2>4. LeftOf(n, r, k) = k
    BY <1>3 DEF LeftOf
  <2> QED BY <2>1, <2>3, <2>4
<1> QED BY <1>2, <1>3

(* No two teams are paired twice. *)
LEMMA RivalsOnce ==
  ASSUME NEW n \in Nat, n >= 2,
         NEW r \in 0 .. RoundsPlayed(n) - 1, NEW k \in 0 .. PerRound(n) - 1,
         NEW s \in 0 .. RoundsPlayed(n) - 1, NEW l \in 0 .. PerRound(n) - 1,
         Rivals(n, r, k) = Rivals(n, s, l)
  PROVE  r = s /\ k = l
<1>1. Degree(n) \in Nat /\ Degree(n) <= n - 1 /\ (n % 2 = 1 => Degree(n) = 2 * (Degree(n) \div 2) /\ Degree(n) \div 2 \in Nat)
  BY DegreeBounds
<1>2. CASE n % 2 = 0
  <2> DEFINE h == n \div 2 - 1
  <2>1. h \in Nat /\ n - 1 = 2 * h + 1 /\ PerRound(n) - 1 = h
    BY <1>2 DEF PerRound
  <2>2. r \in 0 .. 2 * h /\ s \in 0 .. 2 * h
    BY <1>1, <1>2, <2>1 DEF RoundsPlayed
  <2> HIDE DEF h
  <2>3. k \in 0 .. h /\ l \in 0 .. h
    BY <2>1
  <2>4. Rivals(n, r, k) = Meet(2 * h + 1, r, k) /\ Rivals(n, s, l) = Meet(2 * h + 1, s, l)
    BY <1>2, <2>1 DEF Rivals, LeftOf, RightOf, Meet
  <2>5. Meet(2 * h + 1, r, k) = Meet(2 * h + 1, s, l)
    BY <2>4
  <2> QED BY <2>1, <2>2, <2>3, <2>5, MeetOnce
<1>3. CASE n % 2 = 1
  <2>1. /\ k \in 0 .. n - 1 /\ l \in 0 .. n - 1 /\ r \in Nat /\ s \in Nat
        /\ 2 * (r + 1) <= n - 1 /\ 2 * (s + 1) <= n - 1
    BY <1>1, <1>3 DEF RoundsPlayed, PerRound
  <2>2. r < n /\ s < n
    BY <2>1
  <2>3. /\ RightOf(n, r, k) = IF k + r + 1 < n THEN k + r + 1 ELSE k + r + 1 - n
        /\ RightOf(n, s, l) = IF l + s + 1 < n THEN l + s + 1 ELSE l + s + 1 - n
    BY <1>3, <2>1, <2>2, OddRight
  <2>4. LeftOf(n, r, k) = k /\ LeftOf(n, s, l) = l
    BY <1>3 DEF LeftOf
  <2>5. \/ k = l /\ RightOf(n, r, k) = RightOf(n, s, l)
        \/ k = RightOf(n, s, l) /\ RightOf(n, r, k) = l
    BY <2>4 DEF Rivals
  <2> QED BY <2>1, <2>3, <2>5
<1> QED BY <1>2, <1>3

(* With an even number of teams everybody plays once in every round. *)
LEMMA EvenRound ==
  ASSUME NEW n \in Nat, n >= 2, n % 2 = 0, NEW r \in 0 .. RoundsPlayed(n) - 1, NEW t \in 0 .. n - 1
  PROVE  /\ \E k \in 0 .. PerRound(n) - 1 : t \in Rivals(n, r, k)
         /\ \A k, l \in 0 .. PerRound(n) - 1 : t \in Rivals(n, r, k) /\ t \in Rivals(n, r, l) => k = l
<1> DEFINE h == n \div 2 - 1
           last == n - 1
<1>1. h \in Nat /\ last = 2 * h + 1 /\ PerRound(n) - 1 = h
  BY DEF PerRound
<1>2. r \in 0 .. 2 * h
  <2>1. Degree(n) \in Nat /\ Degree(n) <= n - 1
    BY DegreeBounds
  <2> QED BY <1>1, <2>1 DEF RoundsPlayed
<1>3. t \in 0 .. last
  OBVIOUS
<1>4. \A k \in 0 .. h : Rivals(n, r, k) = Meet(last, r, k)
  BY DEF Rivals, LeftOf, RightOf, Meet
<1> HIDE DEF h, last
<1>5. \E i \in 0 .. last : Slot(last, r, i) = t
  <2>1. CASE t = 0
    BY <1>1, <2>1 DEF Slot
  <2>2. CASE t # 0 /\ t + r <= last
    <3>1. Slot(last, r, t + r) = t /\ t + r \in 0 .. last
      BY <1>1, <1>2, <1>3, <2>2 DEF Slot
    <3> QED BY <3>1
  <2>3. CASE t # 0 /\ t + r > last
    <3>1. Slot(last, r, t + r - last) = t /\ t + r - last \in 0 .. last
      BY <1>1, <1>2, <1>3, <2>3 DEF Slot
    <3> QED BY <3>1
  <2> QED BY <1>1, <1>2, <1>3, <2>1, <2>2, <2>3
<1>6. \E k \in 0 .. h : t \in Meet(last, r, k)
  <2>1. PICK i \in 0 .. last : Slot(last, r, i) = t
    BY <1>5
  <2>2. CASE i <= h
    BY <1>1, <2>1, <2>2 DEF Meet
  <2>3. CASE i > h
    <3>1. last - i \in 0 .. h /\ last - (last - i) = i
      BY <1>1, <2>3
    <3> QED BY <2>1, <3>1 DEF Meet
  <2> QED BY <1>1, <2>2, <2>3
<1>7. ASSUME NEW k \in 0 .. h, NEW l \in 0 .. h, t \in Meet(last, r, k), t \in Meet(last, r, l) PROVE k = l
  BY <1>1, <1>2, <1>7, OncePerRound
<1>8. PerRound(n) - 1 = h
  BY <1>1
<1> QED BY <1>4, <1>6, <1>7, <1>8

(* With an odd number everybody is once on either side in every round. *)
LEMMA OddRound ==
  ASSUME NEW n \in Nat, n >= 2, n % 2 = 1, NEW r \in 0 .. RoundsPlayed(n) - 1, NEW t \in 0 .. n - 1
  PROVE  /\ \E k \in 0 .. PerRound(n) - 1 : LeftOf(n, r, k) = t
         /\ \E k \in 0 .. PerRound(n) - 1 : RightOf(n, r, k) = t
         /\ \A k, l \in 0 .. PerRound(n) - 1 : LeftOf(n, r, k) = LeftOf(n, r, l) => k = l
         /\ \A k, l \in 0 .. PerRound(n) - 1 : RightOf(n, r, k) = RightOf(n, r, l) => k = l
<1>1. Degree(n) \in Nat /\ Degree(n) <= n - 1 /\ Degree(n) = 2 * (Degree(n) \div 2) /\ Degree(n) \div 2 \in Nat
  BY DegreeBounds
<1>2. /\ PerRound(n) = n /\ r \in Nat /\ r + 1 < n /\ r < n
      /\ \A k : LeftOf(n, r, k) = k
  BY <1>1 DEF RoundsPlayed, PerRound, LeftOf
<1>3. \A k \in 0 .. n - 1 : RightOf(n, r, k) = IF k + r + 1 < n THEN k + r + 1 ELSE k + r + 1 - n
  BY <1>2, OddRight
<1>4. \E k \in 0 .. n - 1 : RightOf(n, r, k) = t
  <2>1. CASE t >= r + 1
    <3> DEFINE k == t - r - 1
    <3>1. k \in 0 .. n - 1 /\ k + r + 1 = t
      BY <1>2, <2>1
    <3> HIDE DEF k
    <3>2. RightOf(n, r, k) = t
      BY <1>2, <1>3, <3>1
    <3> QED BY <3>1, <3>2
  <2>2. CASE t < r + 1
    <3> DEFINE k == t - r - 1 + n
    <3>1. k \in 0 .. n - 1 /\ k + r + 1 = t + n
      BY <1>2, <2>2
    <3> HIDE DEF k
    <3>2. RightOf(n, r, k) = t
      BY <1>2, <1>3, <3>1
    <3> QED BY <3>1, <3>2
  <2> QED BY <1>2, <2>1, <2>2
<1>5. \A k, l \in 0 .. n - 1 : RightOf(n, r, k) = RightOf(n, r, l) => k = l
  <2>1. ASSUME NEW k \in 0 .. n - 1, NEW l \in 0 .. n - 1, RightOf(n, r, k) = RightOf(n, r, l) PROVE k = l
    BY <1>2, <1>3, <2>1
  <2> QED BY <2>1
<1> QED BY <1>2, <1>4, <1>5

-----------------------------------------------------------------------------
(* League phases: a fixture for each pairing. *)

(* The fixtures of the first m pairings. *)
Schedules(g, n, m) ==
  g = [i \in 0 .. m |-> IF i = 0 THEN {} ELSE Scheduled(g[i - 1], n, Pairings(n)[i])]

(* The recursive function of LeagueFixtures exists. *)
LEMMA SchedulesExist ==
  ASSUME NEW n, NEW m \in Nat
  PROVE  \E g : Schedules(g, n, m)
<1> DEFINE Bad == {l \in Nat : ~ \E g : Schedules(g, n, l)}
<1>1. ASSUME Bad # {} PROVE FALSE
  <2>1. PICK l \in Bad : \A i \in Bad : l <= i
    <3>1. Bad \subseteq Nat
      OBVIOUS
    <3> HIDE DEF Bad
    <3> QED BY <1>1, <3>1, LeastOf
  <2>2. CASE l = 0
    <3> DEFINE h == [j \in 0 .. 0 |-> {}]
    <3>1. Schedules(h, n, 0)
      BY DEF Schedules
    <3> QED BY <2>1, <2>2, <3>1
  <2>3. CASE l # 0
    <3>1. l - 1 \in Nat /\ l - 1 < l
      BY <2>1, <2>3
    <3>2. PICK g : Schedules(g, n, l - 1)
      BY <2>1, <3>1
    <3> DEFINE h == [j \in 0 .. l |-> IF j < l THEN g[j] ELSE Scheduled(g[l - 1], n, Pairings(n)[l])]
    <3>3. ASSUME NEW j \in 0 .. l
          PROVE  h[j] = IF j = 0 THEN {} ELSE Scheduled(h[j - 1], n, Pairings(n)[j])
      <4>1. CASE j = l
        <5>1. h[j] = Scheduled(g[l - 1], n, Pairings(n)[l]) /\ h[j - 1] = g[l - 1]
          BY <2>1, <2>3, <4>1
        <5> QED BY <2>3, <4>1, <5>1
      <4>2. CASE j < l
        <5>1. j \in 0 .. l - 1 /\ h[j] = g[j]
          BY <2>1, <4>2
        <5>2. g[j] = IF j = 0 THEN {} ELSE Scheduled(g[j - 1], n, Pairings(n)[j])
          BY <3>2, <5>1 DEF Schedules
        <5>3. j # 0 => h[j - 1] = g[j - 1]
          BY <2>1, <4>2
        <5> QED BY <5>1, <5>2, <5>3
      <4> QED BY <2>1, <4>1, <4>2
    <3>4. Schedules(h, n, l)
      <4>1. h = [j \in 0 .. l |-> h[j]]
        OBVIOUS
      <4> HIDE DEF h
      <4> QED BY <3>3, <4>1 DEF Schedules
    <3> QED BY <2>1, <3>4
  <2> QED BY <2>2, <2>3
<1> QED BY <1>1

(* The fixtures of a phase are made pairing by pairing. *)
LEMMA PhaseUnfolds ==
  ASSUME NEW n \in Nat, n >= 2
  PROVE  \E g : /\ g[0] = {} /\ LeagueFixtures(n) = g[Len(Pairings(n))]
                /\ \A i \in 1 .. Len(Pairings(n)) : g[i] = Scheduled(g[i - 1], n, Pairings(n)[i])
<1> DEFINE m == Len(Pairings(n))
           g == CHOOSE g : Schedules(g, n, m)
           fixtures == CHOOSE f : f = [i \in 0 .. m |-> IF i = 0 THEN {} ELSE Scheduled(f[i - 1], n, Pairings(n)[i])]
<1>1. m \in Nat
  BY PairingsAre
<1>2. Schedules(fixtures, n, m)
  <2>1. \E f : Schedules(f, n, m)
    BY <1>1, SchedulesExist
  <2> HIDE DEF m
  <2> QED BY <2>1 DEF Schedules
<1>3. LeagueFixtures(n) = fixtures[m]
  BY DEF LeagueFixtures
<1> HIDE DEF m, fixtures
<1>4. fixtures[0] = {} /\ \A i \in 1 .. m : fixtures[i] = Scheduled(fixtures[i - 1], n, Pairings(n)[i])
  <2>1. fixtures = [i \in 0 .. m |-> IF i = 0 THEN {} ELSE Scheduled(fixtures[i - 1], n, Pairings(n)[i])]
    BY <1>2 DEF Schedules
  <2>2. ASSUME NEW i \in 0 .. m
        PROVE  fixtures[i] = IF i = 0 THEN {} ELSE Scheduled(fixtures[i - 1], n, Pairings(n)[i])
    BY <2>1
  <2>3. 0 \in 0 .. m /\ \A i \in 1 .. m : i \in 0 .. m /\ i # 0
    BY <1>1
  <2> QED BY <2>2, <2>3
<1> QED BY <1>3, <1>4 DEF m

(* A matchday is found that neither team has a match on. *)
LEMMA MatchdayIsFree ==
  ASSUME NEW F, IsFiniteSet(F), NEW p, p.round \in Nat
  PROVE  \A f \in F : {f.home, f.away} \cap {p.left, p.right} # {} => f.matchday # FreeMatchday(F, p)
<1> DEFINE theirs == Of(F, p.left) \cup Of(F, p.right)
           taken == {f.matchday : f \in theirs}
           c == Cardinality(taken)
           days == p.round .. p.round + c
<1>1. IsFiniteSet(theirs)
  <2>1. theirs \in SUBSET F
    BY DEF Of
  <2> QED BY <2>1, FS_Subset
<1>2. IsFiniteSet(taken)
  <2> DEFINE day == [f \in theirs |-> f.matchday]
  <2>1. day \in Surjection(theirs, taken)
    BY DEF Surjection
  <2> HIDE DEF theirs, taken, day
  <2> QED BY <1>1, <2>1, FS_Surjection
<1>3. days \ taken # {}
  <2>1. c \in Nat
    BY <1>2, FS_CardinalityType
  <2>2. Cardinality(days) = c + 1
    <3> HIDE DEF c
    <3> QED BY <2>1, FS_Interval
  <2>3. ASSUME days \subseteq taken PROVE FALSE
    <3>1. Cardinality(days) <= Cardinality(taken)
      <4> HIDE DEF days, taken
      <4> QED BY <1>2, <2>3, FS_Subset
    <3> QED BY <2>1, <2>2, <3>1
  <2> QED BY <2>3
<1>4. FreeMatchday(F, p) \in days \ taken
  <2>1. FreeMatchday(F, p) = Min(days \ taken)
    BY DEF FreeMatchday
  <2>2. days \ taken \subseteq Nat
    <3>1. c \in Nat
      BY <1>2, FS_CardinalityType
    <3> QED BY <3>1
  <2> HIDE DEF days, taken
  <2>3. PICK d \in days \ taken : \A e \in days \ taken : d <= e
    BY <1>3, <2>2, LeastOf
  <2> QED BY <2>1, <2>3 DEF Min
<1>5. ASSUME NEW f \in F, {f.home, f.away} \cap {p.left, p.right} # {} PROVE f.matchday \in taken
  BY <1>5 DEF Of
<1> QED BY <1>4, <1>5

(* A fixture is that of a pairing. *)
Fits(f, n, r, k) ==
  /\ {f.home, f.away} = Rivals(n, r, k) /\ f.home # f.away
  /\ n % 2 = 1 => f.home = LeftOf(n, r, k) /\ f.away = RightOf(n, r, k)

(* The fixtures of the first i pairings: one each. *)
OneEach(F, n, i) ==
  /\ IsFiniteSet(F)
  /\ \A r \in 0 .. RoundsPlayed(n) - 1 : \A k \in 0 .. PerRound(n) - 1 :
       Number(n, r, k) <= i => \E f \in F : Fits(f, n, r, k)
  /\ \A f \in F : \E r \in 0 .. RoundsPlayed(n) - 1 : \E k \in 0 .. PerRound(n) - 1 :
       Number(n, r, k) <= i /\ Fits(f, n, r, k)
  /\ \A f, g \in F : {f.home, f.away} = {g.home, g.away} => f = g
  /\ \A f, g \in F : f # g /\ f.matchday = g.matchday => {f.home, f.away} \cap {g.home, g.away} = {}

(* One more. *)
LEMMA OneMore ==
  ASSUME NEW n \in Nat, n >= 2, NEW F, NEW i \in Nat, i < RoundsPlayed(n) * PerRound(n), OneEach(F, n, i)
  PROVE  /\ OneEach(Scheduled(F, n, Pairings(n)[i + 1]), n, i + 1)
         /\ \A f \in F : {f.home, f.away} # {Pairings(n)[i + 1].left, Pairings(n)[i + 1].right}
<1> DEFINE R == RoundsPlayed(n)
           P == PerRound(n)
           p == Pairings(n)[i + 1]
           home == IF LeftIsHome(F, n, p) THEN p.left ELSE p.right
           new == [matchday |-> FreeMatchday(F, p), home |-> home, away |-> IF home = p.left THEN p.right ELSE p.left]
           G == Scheduled(F, n, p)
<1>1. G = F \cup {new}
  BY DEF Scheduled
<1>2. PICK r \in 0 .. R - 1, k \in 0 .. P - 1 : i + 1 = Number(n, r, k)
  <2>1. i + 1 \in 1 .. R * P
    BY PairingsAre
  <2> QED BY <2>1, PairingsAre
<1>3. p.left = LeftOf(n, r, k) /\ p.right = RightOf(n, r, k) /\ p.round = r + 1 /\ p.round \in Nat
  <2> DEFINE q == Pairings(n)[Number(n, r, k)]
  <2>0. q.left = LeftOf(n, r, k) /\ q.right = RightOf(n, r, k) /\ q.round = r + 1
    BY PairingsAre
  <2>1. p.left = LeftOf(n, r, k) /\ p.right = RightOf(n, r, k) /\ p.round = r + 1
    BY <1>2, <2>0
  <2>2. R \in Nat
    BY DegreeBounds
  <2> QED BY <2>1, <2>2
<1>4. p.left # p.right
  BY <1>3, RivalsAreTeams
<1>5. n % 2 = 1 => LeftIsHome(F, n, p)
  BY DEF LeftIsHome
<1>6. new.matchday = FreeMatchday(F, p) /\ {new.home, new.away} = {p.left, p.right} /\ new.home # new.away
      /\ (n % 2 = 1 => new.home = p.left /\ new.away = p.right)
  <2> HIDE DEF p
  <2> QED BY <1>4, <1>5
<1> HIDE DEF p, new, G, R, P
<1>7. Fits(new, n, r, k)
  BY <1>3, <1>6 DEF Fits, Rivals
<1>8. IsFiniteSet(G)
  BY <1>1, FS_AddElement DEF OneEach
<1>9. ASSUME NEW s \in 0 .. R - 1, NEW l \in 0 .. P - 1
      PROVE  /\ Number(n, s, l) \in Nat
             /\ Number(n, s, l) = i + 1 => s = r /\ l = k
             /\ Rivals(n, s, l) = {p.left, p.right} => s = r /\ l = k
  <2>1. Number(n, s, l) \in Nat
    BY PairingsAre DEF R, P
  <2>2. Number(n, s, l) = i + 1 => Rivals(n, s, l) = {p.left, p.right}
    <3> DEFINE q == Pairings(n)[Number(n, s, l)]
    <3>1. q.left = LeftOf(n, s, l) /\ q.right = RightOf(n, s, l)
      BY PairingsAre DEF R, P
    <3>2. Number(n, s, l) = i + 1 => q = p
      BY DEF p
    <3> HIDE DEF q
    <3> QED BY <3>1, <3>2 DEF Rivals
  <2>3. {p.left, p.right} = Rivals(n, r, k)
    BY <1>3 DEF Rivals
  <2>4. Rivals(n, s, l) = Rivals(n, r, k) => s = r /\ l = k
    BY RivalsOnce DEF R, P
  <2> QED BY <2>1, <2>2, <2>3, <2>4
<1>10. ASSUME NEW s \in 0 .. R - 1, NEW l \in 0 .. P - 1, Number(n, s, l) <= i + 1
       PROVE  \E f \in G : Fits(f, n, s, l)
  <2>1. CASE Number(n, s, l) = i + 1
    BY <1>1, <1>7, <1>9, <2>1
  <2>2. CASE Number(n, s, l) # i + 1
    <3>1. Number(n, s, l) <= i
      BY <1>9, <1>10, <2>2
    <3> QED BY <1>1, <3>1 DEF OneEach, R, P
  <2> QED BY <2>1, <2>2
<1>11. ASSUME NEW f \in F
       PROVE  \E s \in 0 .. R - 1 : \E l \in 0 .. P - 1 : Number(n, s, l) <= i /\ Fits(f, n, s, l)
  BY DEF OneEach, R, P
<1>12. ASSUME NEW f \in G
       PROVE  \E s \in 0 .. R - 1 : \E l \in 0 .. P - 1 : Number(n, s, l) <= i + 1 /\ Fits(f, n, s, l)
  <2>1. CASE f = new
    BY <1>2, <1>7, <2>1
  <2>2. CASE f \in F
    <3>1. PICK s \in 0 .. R - 1, l \in 0 .. P - 1 : Number(n, s, l) <= i /\ Fits(f, n, s, l)
      BY <1>11, <2>2
    <3>2. Number(n, s, l) <= i + 1
      BY <1>9, <3>1
    <3> QED BY <3>1, <3>2
  <2> QED BY <1>1, <2>1, <2>2
<1>13. ASSUME NEW f \in F PROVE {f.home, f.away} # {new.home, new.away}
  <2>1. PICK s \in 0 .. R - 1, l \in 0 .. P - 1 : Number(n, s, l) <= i /\ Fits(f, n, s, l)
    BY <1>11
  <2>2. {f.home, f.away} = Rivals(n, s, l)
    BY <2>1 DEF Fits
  <2>3. Number(n, s, l) # i + 1
    BY <1>9, <2>1
  <2> QED BY <1>2, <1>6, <1>9, <2>2, <2>3
<1>14. ASSUME NEW f \in G, NEW g \in G, {f.home, f.away} = {g.home, g.away} PROVE f = g
  BY <1>1, <1>13, <1>14 DEF OneEach
<1>15. \A f \in F : {f.home, f.away} \cap {p.left, p.right} # {} => f.matchday # new.matchday
  BY <1>3, <1>6, MatchdayIsFree DEF OneEach
<1>16. ASSUME NEW f \in G, NEW g \in G, f # g, f.matchday = g.matchday
       PROVE  {f.home, f.away} \cap {g.home, g.away} = {}
  <2>1. CASE f \in F /\ g \in F
    BY <1>16, <2>1 DEF OneEach
  <2>2. CASE f \in F /\ g = new
    BY <1>6, <1>15, <1>16, <2>2
  <2>3. CASE f = new /\ g \in F
    BY <1>6, <1>15, <1>16, <2>3
  <2> QED BY <1>1, <1>16, <2>1, <2>2, <2>3
<1>17. OneEach(G, n, i + 1)
  BY <1>8, <1>10, <1>12, <1>14, <1>16 DEF OneEach, R, P
<1>18. \A f \in F : {f.home, f.away} # {p.left, p.right}
  BY <1>6, <1>13
<1> QED BY <1>17, <1>18 DEF G, p

(* The whole phase, step by step. *)
LEMMA PhaseSteps ==
  ASSUME NEW n \in Nat, n >= 2
  PROVE  \E g : /\ g[0] = {} /\ LeagueFixtures(n) = g[RoundsPlayed(n) * PerRound(n)]
                /\ \A i \in 1 .. RoundsPlayed(n) * PerRound(n) : g[i] = Scheduled(g[i - 1], n, Pairings(n)[i])
                /\ \A i \in 0 .. RoundsPlayed(n) * PerRound(n) : OneEach(g[i], n, i)
<1> DEFINE m == RoundsPlayed(n) * PerRound(n)
<1>1. m \in Nat /\ Len(Pairings(n)) = m
  BY PairingsAre
<1>2. PICK g : /\ g[0] = {} /\ LeagueFixtures(n) = g[Len(Pairings(n))]
               /\ \A i \in 1 .. Len(Pairings(n)) : g[i] = Scheduled(g[i - 1], n, Pairings(n)[i])
  BY PhaseUnfolds
<1> DEFINE Bad == {i \in Nat : i <= m /\ ~OneEach(g[i], n, i)}
<1>3. ASSUME Bad # {} PROVE FALSE
  <2>1. PICK i \in Bad : \A j \in Bad : i <= j
    <3>1. Bad \subseteq Nat
      OBVIOUS
    <3> HIDE DEF Bad
    <3> QED BY <1>3, <3>1, LeastOf
  <2>2. i \in Nat /\ i <= m /\ ~OneEach(g[i], n, i)
    BY <2>1
  <2>3. CASE i = 0
    <3>1. ASSUME NEW r \in 0 .. RoundsPlayed(n) - 1, NEW k \in 0 .. PerRound(n) - 1 PROVE ~(Number(n, r, k) <= 0)
      <4>1. Number(n, r, k) \in 1 .. m
        BY PairingsAre
      <4> HIDE DEF m
      <4> QED BY <1>1, <4>1
    <3>2. OneEach({}, n, 0)
      BY <3>1, FS_EmptySet DEF OneEach
    <3> QED BY <1>2, <2>2, <2>3, <3>2
  <2>4. CASE i # 0
    <3> DEFINE j == i - 1
    <3>1. j \in Nat /\ j < m /\ j <= m /\ j + 1 = i /\ ~(i <= j) /\ i \in 1 .. m
      <4> HIDE DEF m
      <4> QED BY <1>1, <2>2, <2>4
    <3>2. g[i] = Scheduled(g[j], n, Pairings(n)[j + 1])
      BY <1>1, <1>2, <3>1
    <3> HIDE DEF j
    <3>3. OneEach(g[j], n, j)
      BY <2>1, <3>1
    <3>4. OneEach(g[i], n, j + 1)
      BY <3>1, <3>2, <3>3, OneMore
    <3> QED BY <2>2, <3>1, <3>4
  <2> QED BY <2>3, <2>4
<1>4. \A i \in 0 .. m : OneEach(g[i], n, i)
  <2> HIDE DEF m
  <2>1. \A i \in Nat : i <= m => OneEach(g[i], n, i)
    BY <1>3
  <2> QED BY <1>1, <2>1
<1>5. /\ g[0] = {} /\ LeagueFixtures(n) = g[m]
      /\ \A i \in 1 .. m : g[i] = Scheduled(g[i - 1], n, Pairings(n)[i])
  BY <1>1, <1>2
<1> QED BY <1>4, <1>5

(* The phase has a fixture for each of its pairings. *)
LEMMA PhaseIsPairings ==
  ASSUME NEW n \in Nat, n >= 2
  PROVE  OneEach(LeagueFixtures(n), n, RoundsPlayed(n) * PerRound(n))
<1> DEFINE m == RoundsPlayed(n) * PerRound(n)
<1>1. PICK g : LeagueFixtures(n) = g[m] /\ \A i \in 0 .. m : OneEach(g[i], n, i)
  BY PhaseSteps
<1>2. m \in Nat
  BY PairingsAre
<1> HIDE DEF m
<1>3. OneEach(g[m], n, m)
  BY <1>1, <1>2
<1> QED BY <1>1, <1>3 DEF m

-----------------------------------------------------------------------------
(* League phases: counting. *)

(* The members of a set are one in each of R rounds. *)
OnePerRound(S, R, round) ==
  /\ \A f \in S : round[f] \in 0 .. R - 1
  /\ \A r \in 0 .. R - 1 : \E f \in S : round[f] = r
  /\ \A f, g \in S : round[f] = round[g] => f = g

(* Then they are as many as there are rounds. *)
LEMMA OneInEachRound ==
  ASSUME NEW S, NEW R \in Nat, NEW round, OnePerRound(S, R, round)
  PROVE  IsFiniteSet(S) /\ Cardinality(S) = R
<1> DEFINE h == [f \in S |-> round[f]]
           T == 0 .. R - 1
<1>1. IsFiniteSet(T) /\ Cardinality(T) = R
  BY FS_Interval
<1>2. h \in Injection(S, T) /\ h \in Surjection(S, T)
  BY DEF OnePerRound, Injection, Surjection, IsInjective
<1> HIDE DEF h, T
<1> QED BY <1>1, <1>2, FS_Injection

(* The round a fixture is from. *)
RoundOf(n) ==
  [f \in LeagueFixtures(n) |->
     CHOOSE r \in 0 .. RoundsPlayed(n) - 1 : \E k \in 0 .. PerRound(n) - 1 : Fits(f, n, r, k)]

(* It is from no other. *)
LEMMA RoundIs ==
  ASSUME NEW n \in Nat, n >= 2, NEW f \in LeagueFixtures(n)
  PROVE  /\ RoundOf(n)[f] \in 0 .. RoundsPlayed(n) - 1
         /\ \E k \in 0 .. PerRound(n) - 1 : Fits(f, n, RoundOf(n)[f], k)
         /\ \A r \in 0 .. RoundsPlayed(n) - 1 : \A k \in 0 .. PerRound(n) - 1 :
              Fits(f, n, r, k) => RoundOf(n)[f] = r
<1> DEFINE F == LeagueFixtures(n)
           R == RoundsPlayed(n)
           P == PerRound(n)
           x == RoundOf(n)[f]
<1>1. x = CHOOSE r \in 0 .. R - 1 : \E k \in 0 .. P - 1 : Fits(f, n, r, k)
  BY DEF RoundOf
<1>2. \E r \in 0 .. R - 1 : \E k \in 0 .. P - 1 : Fits(f, n, r, k)
  BY PhaseIsPairings DEF OneEach
<1> HIDE DEF x, R, P
<1>3. x \in 0 .. R - 1 /\ \E k \in 0 .. P - 1 : Fits(f, n, x, k)
  BY <1>1, <1>2
<1>4. ASSUME NEW r \in 0 .. R - 1, NEW k \in 0 .. P - 1, Fits(f, n, r, k) PROVE x = r
  <2>1. PICK l \in 0 .. P - 1 : Fits(f, n, x, l)
    BY <1>3
  <2>2. Rivals(n, x, l) = Rivals(n, r, k)
    BY <1>4, <2>1 DEF Fits
  <2> QED BY <1>3, <2>2, RivalsOnce DEF R, P
<1> QED BY <1>3, <1>4 DEF x, R, P

(* The pairings of a round have each their fixture. *)
LEMMA FixtureOf ==
  ASSUME NEW n \in Nat, n >= 2, NEW r \in 0 .. RoundsPlayed(n) - 1, NEW k \in 0 .. PerRound(n) - 1
  PROVE  /\ \E f \in LeagueFixtures(n) : Fits(f, n, r, k)
         /\ \A f, g \in LeagueFixtures(n) : Fits(f, n, r, k) /\ Fits(g, n, r, k) => f = g
<1>1. OneEach(LeagueFixtures(n), n, RoundsPlayed(n) * PerRound(n))
  BY PhaseIsPairings
<1>2. Number(n, r, k) <= RoundsPlayed(n) * PerRound(n)
  <2> DEFINE m == RoundsPlayed(n) * PerRound(n)
  <2>1. m \in Nat /\ Number(n, r, k) \in 1 .. m
    BY PairingsAre
  <2> HIDE DEF m
  <2>2. Number(n, r, k) <= m
    BY <2>1
  <2> QED BY <2>2 DEF m
<1>3. \E f \in LeagueFixtures(n) : Fits(f, n, r, k)
  BY <1>1, <1>2 DEF OneEach
<1>4. \A f, g \in LeagueFixtures(n) : Fits(f, n, r, k) /\ Fits(g, n, r, k) => f = g
  BY <1>1 DEF OneEach, Fits
<1> QED BY <1>3, <1>4

(* With an even number of teams a team has one match of every round. *)
LEMMA EvenMatches ==
  ASSUME NEW n \in Nat, n >= 2, n % 2 = 0, NEW t \in 0 .. n - 1
  PROVE  Cardinality(Of(LeagueFixtures(n), t)) = RoundsPlayed(n)
<1> DEFINE R == RoundsPlayed(n)
           P == PerRound(n)
           F == LeagueFixtures(n)
           M == Of(F, t)
           round == RoundOf(n)
<1>1. R \in Nat
  BY DegreeBounds
<1>2. \A f \in M : f \in F /\ t \in {f.home, f.away}
  BY DEF Of
<1>3. ASSUME NEW f \in M
      PROVE  round[f] \in 0 .. R - 1 /\ \E k \in 0 .. P - 1 : Fits(f, n, round[f], k) /\ t \in Rivals(n, round[f], k)
  <2>1. round[f] \in 0 .. R - 1 /\ \E k \in 0 .. P - 1 : Fits(f, n, round[f], k)
    BY <1>2, RoundIs
  <2> QED BY <1>2, <2>1 DEF Fits
<1>4. ASSUME NEW r \in 0 .. R - 1 PROVE \E f \in M : round[f] = r
  <2>1. PICK k \in 0 .. P - 1 : t \in Rivals(n, r, k)
    BY EvenRound
  <2>2. PICK f \in F : Fits(f, n, r, k)
    BY FixtureOf
  <2>3. round[f] = r
    BY <2>2, RoundIs
  <2>4. f \in M
    BY <2>1, <2>2 DEF Fits, Of
  <2> QED BY <2>3, <2>4
<1>5. ASSUME NEW f \in M, NEW g \in M, round[f] = round[g] PROVE f = g
  <2>1. PICK k \in 0 .. P - 1 : Fits(f, n, round[f], k) /\ t \in Rivals(n, round[f], k)
    BY <1>3
  <2>2. PICK l \in 0 .. P - 1 : Fits(g, n, round[f], l) /\ t \in Rivals(n, round[f], l)
    BY <1>3, <1>5
  <2>3. round[f] \in 0 .. R - 1
    BY <1>3
  <2> DEFINE r == round[f]
  <2> HIDE DEF r
  <2>4. r \in 0 .. R - 1 /\ t \in Rivals(n, r, k) /\ t \in Rivals(n, r, l)
    BY <2>1, <2>2, <2>3 DEF r
  <2>5. k = l
    BY <2>4, EvenRound
  <2>6. Fits(f, n, r, k) /\ Fits(g, n, r, k)
    BY <2>1, <2>2, <2>5 DEF r
  <2> QED BY <1>2, <2>4, <2>6, FixtureOf
<1>6. IsFiniteSet(M) /\ Cardinality(M) = R
  <2>1. \A f \in M : round[f] \in 0 .. R - 1
    BY <1>3
  <2>2. \A r \in 0 .. R - 1 : \E f \in M : round[f] = r
    BY <1>4
  <2>3. \A f, g \in M : round[f] = round[g] => f = g
    BY <1>5
  <2>4. OnePerRound(M, R, round)
    BY <2>1, <2>2, <2>3 DEF OnePerRound
  <2> HIDE DEF R, M, round
  <2> QED BY <1>1, <2>4, OneInEachRound
<1> QED BY <1>6

(* With an odd number it has one at home and one away. *)
LEMMA OddMatches ==
  ASSUME NEW n \in Nat, n >= 2, n % 2 = 1, NEW t \in 0 .. n - 1
  PROVE  /\ IsFiniteSet({f \in LeagueFixtures(n) : f.home = t}) /\ IsFiniteSet({f \in LeagueFixtures(n) : f.away = t})
         /\ Cardinality({f \in LeagueFixtures(n) : f.home = t}) = RoundsPlayed(n)
         /\ Cardinality({f \in LeagueFixtures(n) : f.away = t}) = RoundsPlayed(n)
<1> DEFINE R == RoundsPlayed(n)
           P == PerRound(n)
           F == LeagueFixtures(n)
           H == {f \in F : f.home = t}
           A == {f \in F : f.away = t}
           round == RoundOf(n)
<1>1. R \in Nat
  BY DegreeBounds
<1>2. ASSUME NEW f \in F
      PROVE  /\ round[f] \in 0 .. R - 1
             /\ \E k \in 0 .. P - 1 : /\ Fits(f, n, round[f], k)
                                      /\ f.home = LeftOf(n, round[f], k) /\ f.away = RightOf(n, round[f], k)
  <2>1. round[f] \in 0 .. R - 1 /\ \E k \in 0 .. P - 1 : Fits(f, n, round[f], k)
    BY RoundIs
  <2> QED BY <2>1 DEF Fits
<1>3. ASSUME NEW r \in 0 .. R - 1, NEW k \in 0 .. P - 1
      PROVE  \E f \in F : round[f] = r /\ f.home = LeftOf(n, r, k) /\ f.away = RightOf(n, r, k)
  <2>1. PICK f \in F : Fits(f, n, r, k)
    BY FixtureOf
  <2>2. round[f] = r
    BY <2>1, RoundIs
  <2> QED BY <2>1, <2>2 DEF Fits
<1>4. ASSUME NEW f \in F, NEW g \in F, round[f] = round[g], f.home = g.home \/ f.away = g.away
      PROVE  f = g
  <2>1. PICK k \in 0 .. P - 1 : /\ Fits(f, n, round[f], k)
                                /\ f.home = LeftOf(n, round[f], k) /\ f.away = RightOf(n, round[f], k)
    BY <1>2
  <2>2. PICK l \in 0 .. P - 1 : /\ Fits(g, n, round[f], l)
                                /\ g.home = LeftOf(n, round[f], l) /\ g.away = RightOf(n, round[f], l)
    BY <1>2, <1>4
  <2> DEFINE r == round[f]
  <2>3. r \in 0 .. R - 1
    BY <1>2
  <2>4. LeftOf(n, r, k) = LeftOf(n, r, l) \/ RightOf(n, r, k) = RightOf(n, r, l)
    BY <1>4, <2>1, <2>2
  <2>5. Fits(f, n, r, k) /\ Fits(g, n, r, l)
    BY <2>1, <2>2
  <2> HIDE DEF r
  <2>6. k = l
    BY <2>3, <2>4, OddRound
  <2> QED BY <2>3, <2>5, <2>6, FixtureOf
<1>5. /\ \A r \in 0 .. R - 1 : \E k \in 0 .. P - 1 : LeftOf(n, r, k) = t
      /\ \A r \in 0 .. R - 1 : \E k \in 0 .. P - 1 : RightOf(n, r, k) = t
  BY OddRound
<1>6. ASSUME NEW r \in 0 .. R - 1
      PROVE  (\E f \in H : round[f] = r) /\ (\E f \in A : round[f] = r)
  <2> HIDE DEF R, P, F, round
  <2> QED BY <1>3, <1>5
<1>7. IsFiniteSet(H) /\ Cardinality(H) = R
  <2>1. \A f \in H : round[f] \in 0 .. R - 1
    BY <1>2
  <2>2. \A r \in 0 .. R - 1 : \E f \in H : round[f] = r
    BY <1>6
  <2>3. \A f, g \in H : round[f] = round[g] => f = g
    BY <1>4
  <2>4. OnePerRound(H, R, round)
    BY <2>1, <2>2, <2>3 DEF OnePerRound
  <2> HIDE DEF R, H, round
  <2> QED BY <1>1, <2>4, OneInEachRound
<1>8. IsFiniteSet(A) /\ Cardinality(A) = R
  <2>1. \A f \in A : round[f] \in 0 .. R - 1
    BY <1>2
  <2>2. \A r \in 0 .. R - 1 : \E f \in A : round[f] = r
    BY <1>6
  <2>3. \A f, g \in A : round[f] = round[g] => f = g
    BY <1>4
  <2>4. OnePerRound(A, R, round)
    BY <2>1, <2>2, <2>3 DEF OnePerRound
  <2> HIDE DEF R, A, round
  <2> QED BY <1>1, <2>4, OneInEachRound
<1> QED BY <1>7, <1>8

-----------------------------------------------------------------------------
(* League phases: home and away of an even number of teams. *)

(* With an even number of teams the greedy choice of sides comes to this:  *)
(* home minus away of the team in place p before round c, counted from 0.  *)
Balance(n, c, p) ==
  IF c = 0 THEN 0
  ELSE IF c = 1 THEN IF p = 0 \/ (p # 1 /\ p % 2 = 1) THEN 1 ELSE -1
  ELSE IF c % 2 = 0 THEN IF p = n - 1 THEN -2 ELSE IF p = (IF c = 2 THEN 1 ELSE n - 2) THEN 2 ELSE 0
  ELSE IF p > 1 /\ (p = 2 \/ p % 2 = 1) THEN 1 ELSE -1

(* The place of the next round. *)
NextPlace(n, p) == IF p = 0 THEN 0 ELSE IF p = n - 1 THEN 1 ELSE p + 1

(* Who has fewer matches at home, or the left one in turn. *)
LeftGoesFirst(a, b, c, k) ==
  \/ Cost(a, b) < Cost(b, a)
  \/ Cost(a, b) = Cost(b, a) /\ ((c + 1) + (k + 1)) % 2 = 0

(* Which side costs less. *)
LEMMA CostsAre ==
  ASSUME NEW a \in Int, NEW b \in Int
  PROVE  /\ Cost(a, b) < Cost(b, a) <=> (a < 0 /\ b >= 0) \/ (a = 0 /\ b > 0)
         /\ Cost(a, b) = Cost(b, a) <=> (a < 0 /\ b < 0) \/ (a = 0 /\ b = 0) \/ (a > 0 /\ b > 0)
BY DEF Cost

(* It is never more than two. *)
LEMMA BalanceBounds ==
  ASSUME NEW n \in Nat, NEW c \in Nat, NEW p \in Nat
  PROVE  Balance(n, c, p) \in -2 .. 2
BY DEF Balance

(* The balance follows from that of the round before. *)
LEMMA BalanceStep ==
  ASSUME NEW h \in Nat, NEW c \in 0 .. 2 * h, NEW k \in 0 .. h, NEW n, n = 2 * h + 2,
         NEW q, q = n - 1 - k, NEW a, a = Balance(n, c, k), NEW b, b = Balance(n, c, q),
         NEW d, d = IF LeftGoesFirst(a, b, c, k) THEN 1 ELSE -1
  PROVE  /\ Balance(n, c + 1, NextPlace(n, k)) = a + d
         /\ Balance(n, c + 1, NextPlace(n, q)) = b - d
<1>1. /\ n \in Nat /\ c \in Nat /\ k \in Nat /\ q \in Nat /\ k < q /\ k <= h /\ q >= h + 1 /\ q <= n - 1 /\ k + q = n - 1
      /\ n - 1 = 2 * h + 1 /\ c <= n - 2 /\ n >= 2
  OBVIOUS
<1>2. (k % 2 = 0 /\ q % 2 = 1) \/ (k % 2 = 1 /\ q % 2 = 0)
  <2>1. k % 2 \in {0, 1}
    OBVIOUS
  <2>2. k % 2 = 0 => q % 2 = 1
    BY <1>1
  <2>3. k % 2 = 1 => q % 2 = 0
    BY <1>1
  <2> QED BY <2>1, <2>2, <2>3
<1>3. /\ (k + 1) % 2 = 1 - (k % 2) /\ (q + 1) % 2 = 1 - (q % 2) /\ (c + 1) % 2 = 1 - (c % 2) /\ c % 2 \in {0, 1}
      /\ (((c + 1) + (k + 1)) % 2 = 0 <=> c % 2 = k % 2)
  BY <1>1
<1>4. a \in -2 .. 2 /\ b \in -2 .. 2
  BY <1>1, BalanceBounds
<1>5. LeftGoesFirst(a, b, c, k) <=> \/ (a < 0 /\ b >= 0) \/ (a = 0 /\ b > 0)
                                    \/ ((a < 0 /\ b < 0) \/ (a = 0 /\ b = 0) \/ (a > 0 /\ b > 0)) /\ c % 2 = k % 2
  BY <1>3, <1>4, CostsAre DEF LeftGoesFirst
<1> DEFINE L == LeftGoesFirst(a, b, c, k)
<1>6. CASE c = 0
  <2>1. a = 0 /\ b = 0 /\ 0 % 2 = 0
    BY <1>6 DEF Balance
  <2>2. L <=> k % 2 = 0
    BY <1>5, <1>6, <2>1
  <2>3. /\ Balance(n, 1, NextPlace(n, k)) = IF k % 2 = 0 THEN 1 ELSE -1
        /\ Balance(n, 1, NextPlace(n, q)) = IF k % 2 = 0 THEN -1 ELSE 1
    BY <1>1, <1>2, <1>3 DEF Balance, NextPlace
  <2> QED BY <1>6, <2>1, <2>2, <2>3
<1>7. CASE c = 1
  <2>1. a = (IF k = 0 \/ (k # 1 /\ k % 2 = 1) THEN 1 ELSE -1) /\ b = (IF q # 1 /\ q % 2 = 1 THEN 1 ELSE -1) /\ 1 % 2 = 1
    BY <1>1, <1>7 DEF Balance
  <2>2. q # 1
    BY <1>1, <1>7
  <2>3. L <=> \/ a < 0 /\ b > 0
              \/ a = b /\ k % 2 = 1
    BY <1>5, <1>7, <2>1
  <2>4. /\ Balance(n, 2, NextPlace(n, k)) = (IF NextPlace(n, k) = 1 THEN 2 ELSE IF NextPlace(n, k) = n - 1 THEN -2 ELSE 0)
        /\ Balance(n, 2, NextPlace(n, q)) = (IF NextPlace(n, q) = 1 THEN 2 ELSE IF NextPlace(n, q) = n - 1 THEN -2 ELSE 0)
    BY <1>1, <1>7 DEF Balance, NextPlace
  <2>5. n >= 4
    BY <1>1, <1>7
  <2>6. CASE k = 0
    BY <1>1, <1>2, <1>7, <2>1, <2>2, <2>3, <2>4, <2>5, <2>6 DEF NextPlace
  <2>7. CASE k = 1
    BY <1>1, <1>2, <1>7, <2>1, <2>2, <2>3, <2>4, <2>5, <2>7 DEF NextPlace
  <2>8. CASE k > 1
    BY <1>1, <1>2, <1>7, <2>1, <2>2, <2>3, <2>4, <2>5, <2>8 DEF NextPlace
  <2> QED BY <1>1, <2>6, <2>7, <2>8
<1>8. CASE c > 1 /\ c % 2 = 0
  <2>1. /\ a = (IF k = (IF c = 2 THEN 1 ELSE n - 2) THEN 2 ELSE 0)
        /\ b = (IF q = n - 1 THEN -2 ELSE IF q = (IF c = 2 THEN 1 ELSE n - 2) THEN 2 ELSE 0)
    BY <1>1, <1>8 DEF Balance
  <2>2. (c + 1) % 2 = 1 /\ c + 1 # 0 /\ c + 1 # 1 /\ (c + 1) % 2 # 0
    BY <1>1, <1>3, <1>8
  <2>3. \A p \in Nat : Balance(n, c + 1, p) = IF p > 1 /\ (p = 2 \/ p % 2 = 1) THEN 1 ELSE -1
    BY <2>2 DEF Balance
  <2>4. n >= 4 /\ h >= 1 /\ q # 1
    BY <1>1, <1>8
  <2>5. CASE k = 0
    BY <1>1, <1>2, <1>3, <1>5, <1>8, <2>1, <2>3, <2>4, <2>5 DEF NextPlace
  <2>6. CASE k = 1
    BY <1>1, <1>2, <1>3, <1>5, <1>8, <2>1, <2>3, <2>4, <2>6 DEF NextPlace
  <2>7. CASE k > 1
    BY <1>1, <1>2, <1>3, <1>5, <1>8, <2>1, <2>3, <2>4, <2>7 DEF NextPlace
  <2> QED BY <1>1, <2>5, <2>6, <2>7
<1>9. CASE c > 1 /\ c % 2 = 1
  <2>1. /\ a = (IF k > 1 /\ (k = 2 \/ k % 2 = 1) THEN 1 ELSE -1)
        /\ b = (IF q > 1 /\ (q = 2 \/ q % 2 = 1) THEN 1 ELSE -1)
    BY <1>1, <1>9 DEF Balance
  <2>2. (c + 1) % 2 = 0 /\ c + 1 # 0 /\ c + 1 # 1 /\ c + 1 # 2
    BY <1>1, <1>3, <1>9
  <2>3. \A p \in Nat : Balance(n, c + 1, p) = IF p = n - 1 THEN -2 ELSE IF p = n - 2 THEN 2 ELSE 0
    BY <2>2 DEF Balance
  <2>4. n >= 6 /\ h >= 2 /\ q > 2
    <3>1. c >= 3
      BY <1>1, <1>9
    <3> QED BY <1>1, <3>1
  <2>5. CASE k = 0
    BY <1>1, <1>2, <1>3, <1>5, <1>9, <2>1, <2>3, <2>4, <2>5 DEF NextPlace
  <2>6. CASE k = 1
    BY <1>1, <1>2, <1>3, <1>5, <1>9, <2>1, <2>3, <2>4, <2>6 DEF NextPlace
  <2>7. CASE k = 2
    BY <1>1, <1>2, <1>3, <1>5, <1>9, <2>1, <2>3, <2>4, <2>7 DEF NextPlace
  <2>8. CASE k > 2
    BY <1>1, <1>2, <1>3, <1>5, <1>9, <2>1, <2>3, <2>4, <2>8 DEF NextPlace
  <2> QED BY <1>1, <2>5, <2>6, <2>7, <2>8
<1> QED BY <1>1, <1>3, <1>6, <1>7, <1>8, <1>9

(* A match more. *)
LEMMA BalanceOfMore ==
  ASSUME NEW F, IsFiniteSet(F), NEW f, f \notin F, f.home # f.away, NEW t
  PROVE  HomeMinusAway(F \cup {f}, t) = HomeMinusAway(F, t) + (IF f.home = t THEN 1 ELSE IF f.away = t THEN -1 ELSE 0)
<1> DEFINE H(S) == {x \in S : x.home = t}
           A(S) == {x \in S : x.away = t}
           G == F \cup {f}
<1>1. /\ HomeMinusAway(F, t) = Cardinality(H(F)) - Cardinality(A(F))
      /\ HomeMinusAway(G, t) = Cardinality(H(G)) - Cardinality(A(G))
  BY DEF HomeMinusAway
<1>2. /\ f.home = t => H(G) = H(F) \cup {f} /\ A(G) = A(F) /\ f \notin H(F)
      /\ f.home # t /\ f.away = t => H(G) = H(F) /\ A(G) = A(F) \cup {f} /\ f \notin A(F)
      /\ f.home # t /\ f.away # t => H(G) = H(F) /\ A(G) = A(F)
  OBVIOUS
<1>3. IsFiniteSet(H(F)) /\ IsFiniteSet(A(F))
  <2>1. H(F) \in SUBSET F /\ A(F) \in SUBSET F
    OBVIOUS
  <2> HIDE DEF H, A
  <2> QED BY <2>1, FS_Subset
<1> HIDE DEF H, A, G
<1>4. Cardinality(H(F)) \in Nat /\ Cardinality(A(F)) \in Nat
  BY <1>3, FS_CardinalityType
<1>5. /\ f.home = t => Cardinality(H(G)) = Cardinality(H(F)) + 1 /\ Cardinality(A(G)) = Cardinality(A(F))
      /\ f.home # t /\ f.away = t => Cardinality(H(G)) = Cardinality(H(F)) /\ Cardinality(A(G)) = Cardinality(A(F)) + 1
      /\ f.home # t /\ f.away # t => Cardinality(H(G)) = Cardinality(H(F)) /\ Cardinality(A(G)) = Cardinality(A(F))
  BY <1>2, <1>3, FS_AddElement
<1>6. HomeMinusAway(G, t) = HomeMinusAway(F, t) + (IF f.home = t THEN 1 ELSE IF f.away = t THEN -1 ELSE 0)
  BY <1>1, <1>4, <1>5
<1> QED BY <1>6 DEF G

(* Round c with its first d pairings scheduled: those teams are where the  *)
(* next round finds them, the others where this one did.                   *)
BalancedAt(F, n, c, d) ==
  \A p \in 0 .. n - 1 :
    HomeMinusAway(F, Slot(n - 1, c, p)) =
      IF p < d \/ p > n - 1 - d THEN Balance(n, c + 1, NextPlace(n, p)) ELSE Balance(n, c, p)

(* The next pairing keeps to that. *)
LEMMA BalancedNext ==
  ASSUME NEW n \in Nat, n >= 2, n % 2 = 0, NEW c \in 0 .. RoundsPlayed(n) - 1, NEW d \in 0 .. PerRound(n) - 1,
         NEW F, NEW i \in Nat, Number(n, c, d) = i + 1, OneEach(F, n, i), BalancedAt(F, n, c, d)
  PROVE  BalancedAt(Scheduled(F, n, Pairings(n)[i + 1]), n, c, d + 1)
<1> DEFINE h == n \div 2 - 1
           last == n - 1
           q == n - 1 - d
           p == Pairings(n)[i + 1]
           a == Balance(n, c, d)
           b == Balance(n, c, q)
           gain == IF LeftGoesFirst(a, b, c, d) THEN 1 ELSE -1
           home == IF LeftIsHome(F, n, p) THEN p.left ELSE p.right
           new == [matchday |-> FreeMatchday(F, p), home |-> home, away |-> IF home = p.left THEN p.right ELSE p.left]
           G == Scheduled(F, n, p)
<1>1. /\ h \in Nat /\ n = 2 * h + 2 /\ last = 2 * h + 1 /\ PerRound(n) - 1 = h /\ last \in Nat
  BY DEF PerRound
<1>2. c \in 0 .. 2 * h /\ c \in 0 .. last - 1 /\ c \in Nat
  <2>1. Degree(n) \in Nat /\ Degree(n) <= n - 1
    BY DegreeBounds
  <2> HIDE DEF h, last
  <2> QED BY <1>1, <2>1 DEF RoundsPlayed
<1>3. d \in 0 .. h /\ d \in 0 .. last /\ q \in 0 .. last /\ d # q /\ d + q = last /\ last = n - 1 /\ d < q
  <2>1. d \in 0 .. h
    BY <1>1
  <2>2. q = last - d
    OBVIOUS
  <2> HIDE DEF h, q
  <2> QED BY <1>1, <2>1, <2>2
<1>4. /\ p.left = Slot(last, c, d) /\ p.right = Slot(last, c, q) /\ p.round = c + 1 /\ p.position = d + 1
  <2> DEFINE o == Pairings(n)[Number(n, c, d)]
  <2>1. o.left = LeftOf(n, c, d) /\ o.right = RightOf(n, c, d) /\ o.round = c + 1 /\ o.position = d + 1
    BY PairingsAre
  <2>2. o = p
    OBVIOUS
  <2>3. LeftOf(n, c, d) = Slot(last, c, d) /\ RightOf(n, c, d) = Slot(last, c, q)
    BY DEF LeftOf, RightOf
  <2> HIDE DEF o, p
  <2> QED BY <2>1, <2>2, <2>3
<1>5. \A f \in F : {f.home, f.away} # {p.left, p.right}
  <2>1. i < RoundsPlayed(n) * PerRound(n)
    <3> DEFINE m == RoundsPlayed(n) * PerRound(n)
    <3>1. m \in Nat /\ i + 1 \in 1 .. m
      BY PairingsAre
    <3> HIDE DEF m
    <3>2. i < m
      BY <3>1
    <3> QED BY <3>2 DEF m
  <2> QED BY <2>1, OneMore
<1>6. G = F \cup {new}
  BY DEF Scheduled
<1> HIDE DEF h, last, q, p, G
<1>7. p.left # p.right
  BY <1>2, <1>3, <1>4, SlotPermutes, <1>1
<1>8. HomeMinusAway(F, p.left) = a /\ HomeMinusAway(F, p.right) = b
  <2>1. \A x \in 0 .. last : HomeMinusAway(F, Slot(last, c, x)) =
          IF x < d \/ x > last - d THEN Balance(n, c + 1, NextPlace(n, x)) ELSE Balance(n, c, x)
    BY DEF BalancedAt, last
  <2>2. ~(d < d \/ d > last - d) /\ ~(q < d \/ q > last - d)
    BY <1>1, <1>3
  <2> QED BY <1>3, <1>4, <2>1, <2>2
<1>9. LeftIsHome(F, n, p) <=> LeftGoesFirst(a, b, c, d)
  <2> HIDE DEF a, b
  <2> QED BY <1>4, <1>8 DEF LeftIsHome, LeftGoesFirst
<1>10. /\ new.home # new.away
       /\ gain = 1 => new.home = p.left /\ new.away = p.right
       /\ gain = -1 => new.home = p.right /\ new.away = p.left
       /\ gain = 1 \/ gain = -1
  BY <1>7, <1>9
<1>11. new \notin F
  BY <1>5, <1>10
<1>12. /\ HomeMinusAway(G, p.left) = a + gain
       /\ HomeMinusAway(G, p.right) = b - gain
       /\ \A t : t # p.left /\ t # p.right => HomeMinusAway(G, t) = HomeMinusAway(F, t)
  <2>1. \A t : HomeMinusAway(G, t) = HomeMinusAway(F, t) + (IF new.home = t THEN 1 ELSE IF new.away = t THEN -1 ELSE 0)
    BY <1>6, <1>10, <1>11, BalanceOfMore DEF OneEach
  <2>2. \A t : HomeMinusAway(F, t) \in Int
    <3> TAKE t
    <3> DEFINE H == {f \in F : f.home = t}
               A == {f \in F : f.away = t}
    <3>1. HomeMinusAway(F, t) = Cardinality(H) - Cardinality(A)
      BY DEF HomeMinusAway
    <3>2. H \in SUBSET F /\ A \in SUBSET F /\ IsFiniteSet(F)
      BY DEF OneEach
    <3> HIDE DEF H, A
    <3>3. Cardinality(H) \in Nat /\ Cardinality(A) \in Nat
      BY <3>2, FS_Subset, FS_CardinalityType
    <3> QED BY <3>1, <3>3
  <2>3. a \in Int /\ b \in Int
    BY <1>8, <2>2
  <2> HIDE DEF new, gain, a, b
  <2> QED BY <1>7, <1>8, <1>10, <2>1, <2>2, <2>3
<1>13. /\ Balance(n, c + 1, NextPlace(n, d)) = a + gain
       /\ Balance(n, c + 1, NextPlace(n, q)) = b - gain
  BY <1>1, <1>2, <1>3, BalanceStep DEF q
<1>14. ASSUME NEW x \in 0 .. last
       PROVE  HomeMinusAway(G, Slot(last, c, x)) =
                IF x < d + 1 \/ x > last - (d + 1) THEN Balance(n, c + 1, NextPlace(n, x)) ELSE Balance(n, c, x)
  <2> HIDE DEF new, gain, a, b
  <2>1. CASE x = d
    BY <1>3, <1>4, <1>12, <1>13, <2>1
  <2>2. CASE x = q
    <3>1. q > last - (d + 1)
      BY <1>1, <1>3
    <3> QED BY <1>4, <1>12, <1>13, <2>2, <3>1
  <2>3. CASE x # d /\ x # q
    <3>0. \A y \in 0 .. last : Slot(last, c, x) = Slot(last, c, y) => x = y
      BY <1>1, <1>2, SlotPermutes
    <3>1. Slot(last, c, x) # p.left /\ Slot(last, c, x) # p.right
      BY <1>3, <1>4, <2>3, <3>0
    <3>2. HomeMinusAway(G, Slot(last, c, x)) = HomeMinusAway(F, Slot(last, c, x))
      BY <1>12, <3>1
    <3>3. HomeMinusAway(F, Slot(last, c, x)) =
            IF x < d \/ x > last - d THEN Balance(n, c + 1, NextPlace(n, x)) ELSE Balance(n, c, x)
      BY DEF BalancedAt, last
    <3>4. (x < d + 1 \/ x > last - (d + 1)) <=> (x < d \/ x > last - d)
      BY <1>1, <1>3, <2>3
    <3> QED BY <3>2, <3>3, <3>4
  <2> QED BY <2>1, <2>2, <2>3
<1>15. BalancedAt(G, n, c, d + 1)
  BY <1>14 DEF BalancedAt, last
<1> QED BY <1>15 DEF G, p

(* A round finds the teams where the round before has left them. *)
LEMMA RoundAfterRound ==
  ASSUME NEW n \in Nat, n >= 2, n % 2 = 0, NEW c \in Nat, c < n - 1, NEW F, BalancedAt(F, n, c, PerRound(n))
  PROVE  BalancedAt(F, n, c + 1, 0)
<1> DEFINE h == n \div 2 - 1
<1>1. h \in Nat /\ n = 2 * h + 2 /\ PerRound(n) = h + 1
  BY DEF PerRound
<1> HIDE DEF h
<1>2. ASSUME NEW p \in 0 .. n - 1
      PROVE  HomeMinusAway(F, Slot(n - 1, c + 1, p)) = Balance(n, c + 1, p)
  <2> DEFINE x == IF p = 0 THEN 0 ELSE IF p = 1 THEN n - 1 ELSE p - 1
  <2>1. x \in 0 .. n - 1 /\ NextPlace(n, x) = p
    BY <1>1 DEF NextPlace
  <2>2. Slot(n - 1, c + 1, p) = Slot(n - 1, c, x)
    BY <1>1 DEF Slot
  <2> HIDE DEF x
  <2>3. x < h + 1 \/ x > n - 1 - (h + 1)
    BY <1>1, <2>1
  <2>4. HomeMinusAway(F, Slot(n - 1, c, x)) = Balance(n, c + 1, NextPlace(n, x))
    BY <1>1, <2>1, <2>3 DEF BalancedAt
  <2> QED BY <2>1, <2>2, <2>4
<1>3. \A p \in 0 .. n - 1 : ~(p < 0 \/ p > n - 1 - 0)
  OBVIOUS
<1> QED BY <1>2, <1>3 DEF BalancedAt

(* An even number of teams: nobody is more than twice more at home, or     *)
(* away.                                                                   *)
LEMMA EvenBalance ==
  ASSUME NEW n \in Nat, n >= 2, n % 2 = 0, NEW t \in 0 .. n - 1
  PROVE  HomeMinusAway(LeagueFixtures(n), t) \in -2 .. 2
<1> DEFINE R == RoundsPlayed(n)
           P == PerRound(n)
           m == R * P
<1>1. R \in Nat /\ P \in Nat /\ P >= 1 /\ R >= 1 /\ R <= n - 1 /\ m \in Nat
  <2>1. Degree(n) >= 1
    <3>1. Requested(n) = 8 \/ Requested(n) = n - 1
      <4>1. \A x \in {8, n - 1} : (\A y \in {8, n - 1} : x <= y) <=> x = IF n - 1 <= 8 THEN n - 1 ELSE 8
        OBVIOUS
      <4>2. (IF n - 1 <= 8 THEN n - 1 ELSE 8) \in {8, n - 1}
        OBVIOUS
      <4> QED BY <4>1, <4>2 DEF Requested, Min
    <3> QED BY <3>1 DEF Degree
  <2> QED BY <2>1, DegreeBounds DEF RoundsPlayed
<1>2. PICK g : /\ g[0] = {} /\ LeagueFixtures(n) = g[m]
               /\ \A i \in 1 .. m : g[i] = Scheduled(g[i - 1], n, Pairings(n)[i])
               /\ \A i \in 0 .. m : OneEach(g[i], n, i)
  BY PhaseSteps
<1>3. \A c \in 0 .. R - 1 : \A d \in 0 .. P - 1 : Number(n, c, d) = c * P + d + 1 /\ Number(n, c, d) \in 1 .. m
  BY PairingsAre DEF Number
<1>4. \A c \in Nat : c * P \in Nat /\ (c + 1) * P = c * P + P
  BY <1>1
<1> HIDE DEF R, P, m
<1>5. ASSUME NEW c \in 0 .. R - 1, BalancedAt(g[c * P], n, c, 0)
      PROVE  BalancedAt(g[c * P + P], n, c, P)
  <2> DEFINE x == c * P
             Bad == {d \in Nat : d <= P /\ ~BalancedAt(g[x + d], n, c, d)}
  <2>1. x \in Nat /\ BalancedAt(g[x], n, c, 0)
    BY <1>4, <1>5
  <2> HIDE DEF x
  <2>2. ASSUME Bad # {} PROVE FALSE
    <3>1. PICK d \in Bad : \A e \in Bad : d <= e
      <4>1. Bad \subseteq Nat
        OBVIOUS
      <4> HIDE DEF Bad
      <4> QED BY <2>2, <4>1, LeastOf
    <3>2. d \in Nat /\ d <= P /\ ~BalancedAt(g[x + d], n, c, d)
      BY <3>1
    <3>3. d # 0
      BY <2>1, <3>2
    <3> DEFINE e == d - 1
               i == x + e
    <3>4. e \in Nat /\ e \in 0 .. P - 1 /\ e + 1 = d /\ ~(d <= e) /\ i \in Nat /\ i + 1 = x + d
      BY <1>1, <2>1, <3>2, <3>3
    <3>5. Number(n, c, e) = i + 1 /\ i + 1 \in 1 .. m
      BY <1>3, <3>4 DEF x
    <3>6. BalancedAt(g[i], n, c, e)
      BY <1>1, <3>1, <3>4
    <3>7. i \in 0 .. m /\ (i + 1) - 1 = i
      BY <1>1, <3>4, <3>5
    <3>8. OneEach(g[i], n, i) /\ g[i + 1] = Scheduled(g[i], n, Pairings(n)[i + 1])
      BY <1>2, <3>5, <3>7
    <3> HIDE DEF e, i
    <3>9. BalancedAt(Scheduled(g[i], n, Pairings(n)[i + 1]), n, c, e + 1)
      <4>1. c \in 0 .. RoundsPlayed(n) - 1 /\ e \in 0 .. PerRound(n) - 1
        BY <3>4 DEF R, P
      <4> QED BY <3>4, <3>5, <3>6, <3>8, <4>1, BalancedNext
    <3> QED BY <3>2, <3>4, <3>8, <3>9
  <2>3. BalancedAt(g[x + P], n, c, P)
    BY <1>1, <2>2
  <2> QED BY <2>3 DEF x
<1> DEFINE Bad == {c \in Nat : c <= R - 1 /\ ~BalancedAt(g[c * P], n, c, 0)}
<1>6. ASSUME Bad # {} PROVE FALSE
  <2>1. PICK c \in Bad : \A e \in Bad : c <= e
    <3>1. Bad \subseteq Nat
      OBVIOUS
    <3> HIDE DEF Bad
    <3> QED BY <1>6, <3>1, LeastOf
  <2>2. c \in Nat /\ c <= R - 1 /\ ~BalancedAt(g[c * P], n, c, 0)
    BY <2>1
  <2>3. CASE c = 0
    <3>1. \A s : HomeMinusAway({}, s) = 0
      <4> TAKE s
      <4>1. {f \in {} : f.home = s} = {} /\ {f \in {} : f.away = s} = {}
        OBVIOUS
      <4>2. HomeMinusAway({}, s) = Cardinality({}) - Cardinality({})
        BY <4>1 DEF HomeMinusAway
      <4> QED BY <4>2, FS_EmptySet
    <3>2. \A p \in 0 .. n - 1 : ~(p < 0 \/ p > n - 1 - 0)
      OBVIOUS
    <3>3. BalancedAt({}, n, 0, 0)
      BY <3>1, <3>2 DEF BalancedAt, Balance
    <3>4. g[c * P] = {}
      BY <1>1, <1>2, <2>3
    <3> QED BY <2>2, <2>3, <3>3, <3>4
  <2>4. CASE c # 0
    <3> DEFINE e == c - 1
    <3>1. e \in Nat /\ e + 1 = c /\ e \in 0 .. R - 1 /\ e <= R - 1 /\ ~(c <= e) /\ e < n - 1
      BY <1>1, <2>2, <2>4
    <3> HIDE DEF e
    <3>2. BalancedAt(g[e * P], n, e, 0)
      BY <2>1, <3>1
    <3>3. BalancedAt(g[e * P + P], n, e, P)
      BY <1>5, <3>1, <3>2
    <3>4. e * P + P = c * P
      BY <1>4, <3>1
    <3>5. BalancedAt(g[c * P], n, e + 1, 0)
      <4>1. BalancedAt(g[c * P], n, e, PerRound(n))
        BY <3>3, <3>4 DEF P
      <4> QED BY <3>1, <4>1, RoundAfterRound
    <3> QED BY <2>2, <3>1, <3>5
  <2> QED BY <2>3, <2>4
<1> DEFINE c == R - 1
<1>7. c \in Nat /\ c \in 0 .. R - 1 /\ c <= R - 1 /\ c + 1 = R /\ c < n - 1
  BY <1>1
<1> HIDE DEF c
<1>8. BalancedAt(g[c * P], n, c, 0)
  BY <1>6, <1>7
<1>9. BalancedAt(g[c * P + P], n, c, P)
  BY <1>5, <1>7, <1>8
<1>10. c * P + P = m
  BY <1>4, <1>7 DEF m
<1>11. BalancedAt(LeagueFixtures(n), n, c, P)
  BY <1>2, <1>9, <1>10
<1>12. PICK p \in 0 .. n - 1 : Slot(n - 1, c, p) = t
  <2>1. CASE t = 0
    BY <1>7, <2>1 DEF Slot
  <2>2. CASE t # 0 /\ t + c <= n - 1
    <3>1. Slot(n - 1, c, t + c) = t /\ t + c \in 0 .. n - 1
      BY <1>7, <2>2 DEF Slot
    <3> QED BY <3>1
  <2>3. CASE t # 0 /\ t + c > n - 1
    <3>1. Slot(n - 1, c, t + c - (n - 1)) = t /\ t + c - (n - 1) \in 0 .. n - 1
      BY <1>7, <2>3 DEF Slot
    <3> QED BY <3>1
  <2> QED BY <1>7, <2>1, <2>2, <2>3
<1>13. HomeMinusAway(LeagueFixtures(n), t) =
         IF p < P \/ p > n - 1 - P THEN Balance(n, c + 1, NextPlace(n, p)) ELSE Balance(n, c, p)
  BY <1>11, <1>12 DEF BalancedAt
<1>14. NextPlace(n, p) \in Nat /\ p \in Nat /\ c + 1 \in Nat
  BY <1>7 DEF NextPlace
<1>15. Balance(n, c + 1, NextPlace(n, p)) \in -2 .. 2 /\ Balance(n, c, p) \in -2 .. 2
  BY <1>7, <1>14, BalanceBounds
<1> QED BY <1>13, <1>15

(* A league phase of any number of teams: every team has the degree of     *)
(* the phase in matches, no two meet twice, nobody plays twice on a        *)
(* matchday; everybody of an odd number of teams is at home as often as    *)
(* away, and of an even number at most two matches more or less.           *)
THEOREM PhaseIsFair ==
  ASSUME NEW n \in Nat, n >= 2
  PROVE  /\ \A t \in 0 .. n - 1 : Cardinality(Of(LeagueFixtures(n), t)) = Degree(n)
         /\ Cardinality({{f.home, f.away} : f \in LeagueFixtures(n)}) = Cardinality(LeagueFixtures(n))
         /\ \A f, g \in LeagueFixtures(n) :
              f # g /\ f.matchday = g.matchday => {f.home, f.away} \cap {g.home, g.away} = {}
         /\ \A t \in 0 .. n - 1 : HomeMinusAway(LeagueFixtures(n), t) \in IF n % 2 = 1 THEN {0} ELSE -2 .. 2
<1> DEFINE F == LeagueFixtures(n)
<1>1. OneEach(F, n, RoundsPlayed(n) * PerRound(n))
  BY PhaseIsPairings
<1>2. ASSUME NEW t \in 0 .. n - 1
      PROVE  /\ Cardinality(Of(F, t)) = Degree(n)
             /\ HomeMinusAway(F, t) \in IF n % 2 = 1 THEN {0} ELSE -2 .. 2
  <2>1. CASE n % 2 = 0
    <3>1. Cardinality(Of(F, t)) = RoundsPlayed(n)
      BY <2>1, EvenMatches
    <3>2. RoundsPlayed(n) = Degree(n)
      BY <2>1 DEF RoundsPlayed
    <3>3. HomeMinusAway(F, t) \in -2 .. 2
      BY <2>1, EvenBalance
    <3> QED BY <2>1, <3>1, <3>2, <3>3
  <2>2. CASE n % 2 = 1
    <3> DEFINE H == {f \in F : f.home = t}
               A == {f \in F : f.away = t}
               R == RoundsPlayed(n)
    <3>1. IsFiniteSet(H) /\ IsFiniteSet(A) /\ Cardinality(H) = R /\ Cardinality(A) = R
      BY <2>2, OddMatches
    <3>2. R \in Nat /\ Degree(n) = 2 * R
      BY <2>2, DegreeBounds DEF RoundsPlayed
    <3>3. \A f \in F : f.home # f.away
      BY <1>1 DEF OneEach, Fits
    <3>4. Of(F, t) = H \cup A /\ H \cap A = {}
      BY <3>3 DEF Of
    <3>5. HomeMinusAway(F, t) = Cardinality(H) - Cardinality(A)
      BY DEF HomeMinusAway
    <3> HIDE DEF H, A, R
    <3>6. Cardinality(H \cup A) = Cardinality(H) + Cardinality(A) - Cardinality(H \cap A)
      BY <3>1, FS_Union
    <3>7. Cardinality(H \cap A) = 0
      BY <3>4, FS_EmptySet
    <3>8. Cardinality(H \cup A) = Degree(n)
      BY <3>1, <3>2, <3>6, <3>7
    <3>9. HomeMinusAway(F, t) = 0
      BY <3>1, <3>2, <3>5
    <3> QED BY <2>2, <3>4, <3>8, <3>9
  <2>3. n % 2 = 0 \/ n % 2 = 1
    OBVIOUS
  <2> QED BY <2>1, <2>2, <2>3
<1>3. Cardinality({{f.home, f.away} : f \in F}) = Cardinality(F)
  <2> DEFINE pairs == {{f.home, f.away} : f \in F}
             h == [f \in F |-> {f.home, f.away}]
  <2>1. \A f, g \in F : {f.home, f.away} = {g.home, g.away} => f = g
    BY <1>1 DEF OneEach
  <2>2. h \in Surjection(F, pairs) /\ h \in Injection(F, pairs)
    BY <2>1 DEF Surjection, Injection, IsInjective
  <2>3. IsFiniteSet(F)
    BY <1>1 DEF OneEach
  <2> HIDE DEF pairs, h, F
  <2>4. Cardinality(pairs) = Cardinality(F)
    BY <2>2, <2>3, FS_Surjection
  <2> QED BY <2>4 DEF pairs
<1>4. \A f, g \in F : f # g /\ f.matchday = g.matchday => {f.home, f.away} \cap {g.home, g.away} = {}
  BY <1>1 DEF OneEach
<1> QED BY <1>2, <1>3, <1>4

-----------------------------------------------------------------------------
(* League phases that are generated. *)

(* What was generated once stays as it was generated. *)
LeagueInv == stage # {} => teams \in Nat /\ teams >= 2 /\ stage = LeagueFixtures(teams)

(* There is no league phase at first. *)
LEMMA LeagueInitially == Init => LeagueInv
BY DEF Init, LeagueInv

(* Only generateFixtures makes one, of a cup. *)
LEMMA LeagueStays ==
  ASSUME teams = 0 \/ teams \in CupSizes, LeagueInv, [Next]_vars
  PROVE  LeagueInv'
<1>1. CASE generateFixtures
  <2>1. teams \in Nat /\ teams >= 2
    BY <1>1, SizesAssumption DEF generateFixtures
  <2> QED BY <1>1, <2>1 DEF generateFixtures, LeagueInv, tournament
<1>2. CASE UNCHANGED << stage, teams >>
  BY <1>2 DEF LeagueInv
<1>3. generateFixtures \/ UNCHANGED << stage, teams >>
  BY DEF Next, vars, tournament, tables, bracket, FinishStage, ReviseStage, CheckFormat, SaveFormat,
         ReadTables, WriteBracket, Refuse, Play, Champion
<1> QED BY <1>1, <1>2, <1>3

(* Every league phase that is generated is fair and stays so, for cups of  *)
(* any number of teams (generateEliteCupSchedule).                         *)
THEOREM LeaguePhasesAreFair == Spec => []LeaguePhaseFair
<1> DEFINE TeamsInv == teams = 0 \/ teams \in CupSizes
<1>1. Init => TeamsInv /\ LeagueInv
  BY LeagueInitially DEF Init
<1>2. TeamsInv /\ LeagueInv /\ [Next]_vars => TeamsInv' /\ LeagueInv'
  <2>1. [Next]_vars => UNCHANGED teams
    BY DEF Next, vars, tournament, tables, bracket, generateFixtures, FinishStage, ReviseStage, CheckFormat,
           SaveFormat, ReadTables, WriteBracket, Refuse, Play, Champion
  <2> QED BY <2>1, LeagueStays
<1>3. LeagueInv => LeaguePhaseFair
  <2> SUFFICES ASSUME LeagueInv, stage # {} PROVE LeaguePhaseFair
    BY DEF LeaguePhaseFair
  <2> DEFINE n == teams
  <2>1. n \in Nat /\ n >= 2 /\ stage = LeagueFixtures(n)
    BY DEF LeagueInv
  <2> HIDE DEF n
  <2>2. /\ \A t \in 0 .. n - 1 : Cardinality(Of(stage, t)) = Degree(n)
        /\ Cardinality({{f.home, f.away} : f \in stage}) = Cardinality(stage)
        /\ \A f, g \in stage :
             f # g /\ f.matchday = g.matchday => {f.home, f.away} \cap {g.home, g.away} = {}
        /\ \A t \in 0 .. n - 1 : HomeMinusAway(stage, t) \in IF n % 2 = 1 THEN {0} ELSE -2 .. 2
    BY <2>1, PhaseIsFair
  <2> QED BY <2>2 DEF LeaguePhaseFair, n
<1> QED BY <1>1, <1>2, <1>3, PTL DEF Spec
=============================================================================
