---------------------- MODULE FixtureGenerator_proofs ----------------------
(***************************************************************************)
(* The circle method for every number of entries: in a round everybody     *)
(* plays at most once, and over the rounds every two meet exactly once.    *)
(* First for the places of the rotation, where it is linear arithmetic,    *)
(* then for the fixtures made from them.                                   *)
(***************************************************************************)
EXTENDS FixtureGenerator, TLAPS

(* The last place is odd: there are an even number of places. *)
LEMMA LastSlotOdd ==
  ASSUME NEW n \in Nat, n >= 2
  PROVE  /\ LastSlot(n) \in Nat
         /\ LastSlot(n) = 2 * (LastSlot(n) \div 2) + 1
         /\ LastSlot(n) \div 2 \in Nat
         /\ n - 1 <= LastSlot(n)
  BY DEF LastSlot

(* A rotation permutes the places. *)
LEMMA SlotPermutes ==
  ASSUME NEW last \in Nat, NEW r \in 0 .. last - 1, NEW i \in 0 .. last
  PROVE  /\ Slot(last, r, i) \in 0 .. last
         /\ \A j \in 0 .. last : Slot(last, r, i) = Slot(last, r, j) => i = j
  BY DEF Slot

(* Who meets in match k of round r, whatever the side. *)
Meet(last, r, k) == {Slot(last, r, k), Slot(last, r, last - k)}

LEMMA MeetingSides ==
  ASSUME NEW h \in Nat, NEW r \in 0 .. 2 * h, NEW k \in 0 .. h
  PROVE  /\ Meeting(2 * h + 1, r, k).home \in 0 .. 2 * h + 1
         /\ Meeting(2 * h + 1, r, k).away \in 0 .. 2 * h + 1
         /\ Meeting(2 * h + 1, r, k).home # Meeting(2 * h + 1, r, k).away
         /\ Meet(2 * h + 1, r, k)
              = {Meeting(2 * h + 1, r, k).home, Meeting(2 * h + 1, r, k).away}
<1> DEFINE last == 2 * h + 1
<1>1. last \in Nat /\ r \in 0 .. last - 1 /\ k \in 0 .. last /\ last - k \in 0 .. last
      /\ k # last - k
  OBVIOUS
<1>2. /\ Slot(last, r, k) \in 0 .. last
      /\ Slot(last, r, last - k) \in 0 .. last
      /\ Slot(last, r, k) # Slot(last, r, last - k)
  BY <1>1, SlotPermutes
<1>3. CASE (r + k) % 2 = 0
  BY <1>2, <1>3 DEF Meeting, Meet
<1>4. CASE (r + k) % 2 # 0
  BY <1>2, <1>4 DEF Meeting, Meet
<1> QED
  BY <1>3, <1>4

(* In a round nobody is in two matches. *)
LEMMA OncePerRound ==
  ASSUME NEW h \in Nat, NEW r \in 0 .. 2 * h, NEW k \in 0 .. h, NEW l \in 0 .. h, k # l
  PROVE  Meet(2 * h + 1, r, k) \cap Meet(2 * h + 1, r, l) = {}
<1> DEFINE last == 2 * h + 1
<1>1. /\ last \in Nat /\ r \in 0 .. last - 1
      /\ {k, l, last - k, last - l} \subseteq 0 .. last
      /\ k # last - l /\ l # last - k /\ last - k # last - l
  OBVIOUS
<1> HIDE DEF last
<1>2. \A i \in {k, last - k}, j \in {l, last - l} : Slot(last, r, i) # Slot(last, r, j)
  BY <1>1, SlotPermutes
<1> QED
  BY <1>2 DEF Meet, last

(* Two who meet do so in one match of one round: the places of a match add *)
(* up to the same number modulo the odd number of rounds.                  *)
LEMMA MeetOnce ==
  ASSUME NEW h \in Nat, NEW r \in 0 .. 2 * h, NEW s \in 0 .. 2 * h,
         NEW k \in 0 .. h, NEW l \in 0 .. h,
         Meet(2 * h + 1, r, k) = Meet(2 * h + 1, s, l)
  PROVE  r = s /\ k = l
<1> DEFINE last == 2 * h + 1
           a == Slot(last, r, k)
           b == Slot(last, r, last - k)
           c == Slot(last, s, l)
           d == Slot(last, s, last - l)
<1>1. (a = c /\ b = d) \/ (a = d /\ b = c)
  BY DEF Meet
<1>2. CASE a = c /\ b = d
  <2>1. r = s
    BY <1>2 DEF Slot
  <2> QED
    BY <1>2, <2>1 DEF Slot
<1>3. CASE a = d /\ b = c
  <2>1. r = s
    BY <1>3 DEF Slot
  <2> QED
    BY <1>3, <2>1 DEF Slot
<1> QED
  BY <1>1, <1>2, <1>3

(* Every two meet. *)
LEMMA EveryTwoMeet ==
  ASSUME NEW h \in Nat, NEW a \in 0 .. 2 * h + 1, NEW b \in 0 .. 2 * h + 1, a < b
  PROVE  \E r \in 0 .. 2 * h, k \in 0 .. h : Meet(2 * h + 1, r, k) = {a, b}
<1> DEFINE last == 2 * h + 1
<1>1. CASE a = 0
  <2>1. last - b \in 0 .. 2 * h /\ Slot(last, last - b, 0) = a /\ Slot(last, last - b, last) = b
    BY <1>1 DEF Slot
  <2> QED
    BY <1>1, <2>1 DEF Meet
<1>2. ASSUME a # 0, NEW r \in 0 .. 2 * h, NEW k \in 1 .. 2 * h,
             Slot(last, r, k) = a, Slot(last, r, last - k) = b
      PROVE  \E q \in 0 .. h : Meet(last, r, q) = {a, b}
  <2>1. CASE k \in 0 .. h
    BY <1>2, <2>1 DEF Meet
  <2>2. CASE last - k \in 0 .. h
    <3>1. last - (last - k) = k
      OBVIOUS
    <3> QED
      BY <1>2, <2>2, <3>1 DEF Meet
  <2> QED
    BY <2>1, <2>2
<1>3. CASE a # 0 /\ a + b <= last /\ (a + b) % 2 = 1
  <2> DEFINE r == (last - (a + b)) \div 2
  <2>1. r \in Nat /\ 2 * r = last - (a + b)
    BY <1>3
  <2>2. /\ r \in 0 .. 2 * h /\ a + r \in 1 .. 2 * h
        /\ Slot(last, r, a + r) = a /\ Slot(last, r, last - (a + r)) = b
    BY <1>3, <2>1 DEF Slot
  <2> QED
    BY <1>2, <1>3, <2>2
<1>4. CASE a # 0 /\ a + b > last /\ (a + b) % 2 = 1
  <2> DEFINE r == (3 * last - (a + b)) \div 2
  <2>1. r \in Nat /\ 2 * r = 3 * last - (a + b)
    BY <1>4
  <2>2. /\ r \in 0 .. 2 * h /\ a + r - last \in 1 .. 2 * h
        /\ Slot(last, r, a + r - last) = a /\ Slot(last, r, last - (a + r - last)) = b
    BY <1>4, <2>1 DEF Slot
  <2> QED
    BY <1>2, <1>4, <2>2
<1>5. CASE a # 0 /\ (a + b) % 2 = 0
  <2> DEFINE r == (2 * last - (a + b)) \div 2
  <2>1. r \in Nat /\ 2 * r = 2 * last - (a + b)
    BY <1>5
  <2>2. /\ r \in 0 .. 2 * h /\ a + r \in 1 .. 2 * h
        /\ Slot(last, r, a + r) = a /\ Slot(last, r, last - (a + r)) = b
    BY <1>5, <2>1 DEF Slot
  <2> QED
    BY <1>2, <1>5, <2>2
<1> QED
  BY <1>1, <1>3, <1>4, <1>5

-----------------------------------------------------------------------------
(* A list without repetition, long enough to be scheduled. *)
Lineup(entries, E) ==
  /\ entries \in Seq(E)
  /\ Len(entries) >= 2
  /\ \A i, j \in 1 .. Len(entries) : entries[i] = entries[j] => i = j

(* The fixture of match k of round r. *)
FixtureAt(entries, h, f, r, k) ==
  LET m == Meeting(2 * h + 1, r, k)
  IN  /\ m.home < Len(entries) /\ m.away < Len(entries)
      /\ f = [round |-> r + 1, position |-> k + 1,
              home |-> entries[m.home + 1], away |-> entries[m.away + 1]]

Half(n) == LastSlot(n) \div 2

LEMMA RoundRobinMembers ==
  ASSUME NEW E, NEW entries, Lineup(entries, E)
  PROVE  /\ Half(Len(entries)) \in Nat
         /\ LastSlot(Len(entries)) = 2 * Half(Len(entries)) + 1
         /\ \A f : f \in RoundRobin(entries) <=>
              \E r \in 0 .. 2 * Half(Len(entries)), k \in 0 .. Half(Len(entries)) :
                FixtureAt(entries, Half(Len(entries)), f, r, k)
<1> DEFINE n == Len(entries)
           h == Half(n)
<1>1. n \in Nat /\ n >= 2
  BY DEF Lineup
<1>2. h \in Nat /\ LastSlot(n) = 2 * h + 1
  BY <1>1, LastSlotOdd DEF Half
<1>3. Rounds(n) - 1 = 2 * h /\ LastSlot(n) \div 2 = h
  BY <1>2 DEF Rounds, Half
<1>4. ASSUME NEW f
      PROVE  f \in RoundRobin(entries) <=>
               \E r \in 0 .. 2 * h, k \in 0 .. h : FixtureAt(entries, h, f, r, k)
  <2> HIDE DEF n, h
  <2>1. RoundRobin(entries) =
          {[round |-> x[1] + 1, position |-> x[2] + 1,
            home |-> entries[Meeting(2 * h + 1, x[1], x[2]).home + 1],
            away |-> entries[Meeting(2 * h + 1, x[1], x[2]).away + 1]] : x \in
             {y \in (0 .. 2 * h) \X (0 .. h) :
                Meeting(2 * h + 1, y[1], y[2]).home < n /\ Meeting(2 * h + 1, y[1], y[2]).away < n}}
    BY <1>2, <1>3 DEF RoundRobin, n
  <2>2. ASSUME f \in RoundRobin(entries)
        PROVE  \E r \in 0 .. 2 * h, k \in 0 .. h : FixtureAt(entries, h, f, r, k)
    <3>1. PICK x \in (0 .. 2 * h) \X (0 .. h) :
            /\ Meeting(2 * h + 1, x[1], x[2]).home < n
            /\ Meeting(2 * h + 1, x[1], x[2]).away < n
            /\ f = [round |-> x[1] + 1, position |-> x[2] + 1,
                    home |-> entries[Meeting(2 * h + 1, x[1], x[2]).home + 1],
                    away |-> entries[Meeting(2 * h + 1, x[1], x[2]).away + 1]]
      BY <2>1, <2>2
    <3>2. x[1] \in 0 .. 2 * h /\ x[2] \in 0 .. h
      OBVIOUS
    <3> QED
      BY <3>1, <3>2 DEF FixtureAt, n
  <2>3. ASSUME NEW r \in 0 .. 2 * h, NEW k \in 0 .. h, FixtureAt(entries, h, f, r, k)
        PROVE  f \in RoundRobin(entries)
    <3> DEFINE x == <<r, k>>
    <3>1. x \in (0 .. 2 * h) \X (0 .. h) /\ x[1] = r /\ x[2] = k
      OBVIOUS
    <3> HIDE DEF x
    <3> QED
      BY <2>1, <2>3, <3>1 DEF FixtureAt, n
  <2> QED
    BY <2>2, <2>3
<1> QED
  BY <1>2, <1>4

(* Fixture f is the match of entries i and j. *)
IsMatchOf(entries, f, r, k, i, j) ==
  /\ f.home = entries[i] /\ f.away = entries[j] /\ i # j
  /\ f.round = r + 1
  /\ Meet(LastSlot(Len(entries)), r, k) = {i - 1, j - 1}

LEMMA FixtureFacts ==
  ASSUME NEW E, NEW entries, Lineup(entries, E), NEW f,
         NEW r \in 0 .. 2 * Half(Len(entries)), NEW k \in 0 .. Half(Len(entries)),
         FixtureAt(entries, Half(Len(entries)), f, r, k)
  PROVE  \E i, j \in 1 .. Len(entries) : IsMatchOf(entries, f, r, k, i, j)
<1> DEFINE h == Half(Len(entries))
           m == Meeting(2 * h + 1, r, k)
           x == m.home
           y == m.away
<1>1. h \in Nat /\ LastSlot(Len(entries)) = 2 * h + 1 /\ Len(entries) \in Nat
  BY RoundRobinMembers DEF Lineup
<1> HIDE DEF h
<1>2. /\ x \in 0 .. 2 * h + 1 /\ y \in 0 .. 2 * h + 1 /\ x # y
      /\ Meet(2 * h + 1, r, k) = {x, y}
  BY <1>1, MeetingSides DEF h
<1>3. /\ x < Len(entries) /\ y < Len(entries)
      /\ f.round = r + 1 /\ f.home = entries[x + 1] /\ f.away = entries[y + 1]
  BY DEF FixtureAt, h
<1> HIDE DEF m, x, y
<1>4. /\ x + 1 \in 1 .. Len(entries) /\ y + 1 \in 1 .. Len(entries)
      /\ x + 1 # y + 1 /\ (x + 1) - 1 = x /\ (y + 1) - 1 = y
  <2>1. x \in Nat /\ y \in Nat /\ x # y
    BY <1>1, <1>2
  <2>2. x < Len(entries) /\ y < Len(entries) /\ Len(entries) \in Nat
    BY <1>1, <1>3
  <2> QED
    BY <2>1, <2>2
<1>5. IsMatchOf(entries, f, r, k, x + 1, y + 1)
  BY <1>1, <1>2, <1>3, <1>4 DEF IsMatchOf
<1> QED
  BY <1>4, <1>5

(* Nobody plays twice in a round, no two entries meet twice, and the       *)
(* entries of a fixture are two of the list.                               *)
THEOREM RoundRobinProper ==
  ASSUME NEW E, NEW entries, Lineup(entries, E)
  PROVE  /\ \A f \in RoundRobin(entries) :
              /\ f.round \in 1 .. Rounds(Len(entries))
              /\ f.home # f.away
              /\ \E i, j \in 1 .. Len(entries) : f.home = entries[i] /\ f.away = entries[j]
         /\ \A f, g \in RoundRobin(entries) : f # g =>
              /\ f.round = g.round => {f.home, f.away} \cap {g.home, g.away} = {}
              /\ {f.home, f.away} # {g.home, g.away}
<1> DEFINE n == Len(entries)
           h == Half(n)
<1>1. h \in Nat /\ LastSlot(n) = 2 * h + 1 /\ n \in Nat
  BY RoundRobinMembers DEF Lineup
<1>2. ASSUME NEW f \in RoundRobin(entries)
      PROVE  /\ f.round \in 1 .. Rounds(n)
             /\ f.home # f.away
             /\ \E i, j \in 1 .. n : f.home = entries[i] /\ f.away = entries[j]
  <2>1. PICK r \in 0 .. 2 * h, k \in 0 .. h : FixtureAt(entries, h, f, r, k)
    BY RoundRobinMembers
  <2>2. PICK i \in 1 .. n, j \in 1 .. n : IsMatchOf(entries, f, r, k, i, j)
    BY <2>1, FixtureFacts
  <2>3. f.round \in 1 .. Rounds(n)
    <3> HIDE DEF h, n
    <3> QED
      BY <2>2, <1>1 DEF Rounds, IsMatchOf
  <2> QED
    BY <2>2, <2>3 DEF Lineup, IsMatchOf
<1>3. ASSUME NEW f \in RoundRobin(entries), NEW g \in RoundRobin(entries), f # g
      PROVE  /\ f.round = g.round => {f.home, f.away} \cap {g.home, g.away} = {}
             /\ {f.home, f.away} # {g.home, g.away}
  <2>1. PICK r \in 0 .. 2 * h, k \in 0 .. h : FixtureAt(entries, h, f, r, k)
    BY RoundRobinMembers
  <2>2. PICK s \in 0 .. 2 * h, l \in 0 .. h : FixtureAt(entries, h, g, s, l)
    BY RoundRobinMembers
  <2>9. PICK i \in 1 .. n, j \in 1 .. n : IsMatchOf(entries, f, r, k, i, j)
    BY <2>1, FixtureFacts
  <2>10. PICK u \in 1 .. n, v \in 1 .. n : IsMatchOf(entries, g, s, l, u, v)
    BY <2>2, FixtureFacts
  <2>3. /\ f.home = entries[i] /\ f.away = entries[j] /\ i # j /\ f.round = r + 1
        /\ Meet(2 * h + 1, r, k) = {i - 1, j - 1}
    BY <1>1, <2>9 DEF IsMatchOf
  <2>4. /\ g.home = entries[u] /\ g.away = entries[v] /\ u # v /\ g.round = s + 1
        /\ Meet(2 * h + 1, s, l) = {u - 1, v - 1}
    BY <1>1, <2>10 DEF IsMatchOf
  <2>5. r # s \/ k # l
    BY <2>1, <2>2, <1>3 DEF FixtureAt
  <2>6. \A x, y \in 1 .. n : entries[x] = entries[y] => x = y
    BY DEF Lineup
  <2> HIDE DEF h, n
  <2>7. ASSUME f.round = g.round
        PROVE  {f.home, f.away} \cap {g.home, g.away} = {}
    <3>1. r = s /\ k # l
      BY <2>3, <2>4, <2>5, <2>7
    <3>2. {i - 1, j - 1} \cap {u - 1, v - 1} = {}
      BY <1>1, <2>3, <2>4, <3>1, OncePerRound
    <3>3. i # u /\ i # v /\ j # u /\ j # v
      BY <3>2
    <3> QED
      BY <2>3, <2>4, <2>6, <3>3
  <2>8. {f.home, f.away} # {g.home, g.away}
    <3> SUFFICES ASSUME {f.home, f.away} = {g.home, g.away}
                 PROVE  FALSE
      OBVIOUS
    <3>1. {i, j} = {u, v}
      <4>1. {entries[i], entries[j]} = {entries[u], entries[v]}
        BY <2>3, <2>4
      <4>2. CASE entries[i] = entries[u] /\ entries[j] = entries[v]
        <5>1. i = u /\ j = v
          BY <4>2, <2>6
        <5> QED BY <5>1
      <4>3. CASE entries[i] = entries[v] /\ entries[j] = entries[u]
        <5>1. i = v /\ j = u
          BY <4>3, <2>6
        <5> QED BY <5>1
      <4> QED BY <4>1, <4>2, <4>3
    <3>2. {i - 1, j - 1} = {u - 1, v - 1}
      BY <3>1
    <3>3. Meet(2 * h + 1, r, k) = Meet(2 * h + 1, s, l)
      BY <2>3, <2>4, <3>2
    <3>5. \A rr, ss \in 0 .. 2 * h, kk, ll \in 0 .. h :
            Meet(2 * h + 1, rr, kk) = Meet(2 * h + 1, ss, ll) => rr = ss /\ kk = ll
      BY <1>1, MeetOnce
    <3>4. r = s /\ k = l
      BY <3>3, <3>5
    <3> QED
      BY <2>5, <3>4
  <2> QED
    BY <2>7, <2>8
<1> QED
  BY <1>2, <1>3

(* What a fixture is made of. *)
LEMMA RoundRobinType ==
  ASSUME NEW E, NEW entries, Lineup(entries, E)
  PROVE  RoundRobin(entries) \subseteq [round : Nat, position : Nat, home : E, away : E]
<1> DEFINE h == Half(Len(entries))
<1>1. h \in Nat /\ entries \in [1 .. Len(entries) -> E] /\ Len(entries) \in Nat
  BY RoundRobinMembers DEF Lineup
<1>2. ASSUME NEW f \in RoundRobin(entries)
      PROVE  f \in [round : Nat, position : Nat, home : E, away : E]
  <2>1. PICK r \in 0 .. 2 * h, k \in 0 .. h : FixtureAt(entries, h, f, r, k)
    BY RoundRobinMembers
  <2> DEFINE m == Meeting(2 * h + 1, r, k)
             x == m.home
             y == m.away
  <2>2. f = [round |-> r + 1, position |-> k + 1,
             home |-> entries[x + 1], away |-> entries[y + 1]]
        /\ x < Len(entries) /\ y < Len(entries)
    BY <2>1 DEF FixtureAt
  <2> HIDE DEF h
  <2>3. x \in Nat /\ y \in Nat
    BY <1>1, MeetingSides
  <2> HIDE DEF m, x, y
  <2>4. x + 1 \in 1 .. Len(entries) /\ y + 1 \in 1 .. Len(entries)
    BY <1>1, <2>2, <2>3
  <2>5. r + 1 \in Nat /\ k + 1 \in Nat
    BY <1>1
  <2> QED
    BY <1>1, <2>2, <2>4, <2>5
<1> QED
  BY <1>2

LEMMA DoubleRoundRobinType ==
  ASSUME NEW E, NEW entries, Lineup(entries, E)
  PROVE  DoubleRoundRobin(entries) \subseteq [round : Nat, position : Nat, home : E, away : E]
<1> DEFINE R == Rounds(Len(entries))
           F == [round : Nat, position : Nat, home : E, away : E]
<1>1. R \in Nat
  BY LastSlotOdd DEF Lineup, Rounds
<1>2. RoundRobin(entries) \subseteq [round : Nat, position : Nat, home : E, away : E]
  BY RoundRobinType
<1>3. ASSUME NEW f \in RoundRobin(entries)
      PROVE  Return(f, R) \in F
  <2>1. f \in F
    BY <1>2
  <2> HIDE DEF R
  <2>2. f.round + R \in Nat /\ f.home \in E /\ f.away \in E
    BY <1>1, <2>1
  <2> QED
    BY <2>1, <2>2 DEF Return
<1> QED
  BY <1>2, <1>3 DEF DoubleRoundRobin

(* Every two entries of the list meet. *)
THEOREM RoundRobinComplete ==
  ASSUME NEW E, NEW entries, Lineup(entries, E),
         NEW i \in 1 .. Len(entries), NEW j \in 1 .. Len(entries), i # j
  PROVE  \E f \in RoundRobin(entries) :
           Meets(f, entries[i], entries[j]) \/ Meets(f, entries[j], entries[i])
<1> DEFINE n == Len(entries)
           h == Half(n)
<1>1. h \in Nat /\ LastSlot(n) = 2 * h + 1 /\ n \in Nat /\ n - 1 <= 2 * h + 1
  <2>1. n \in Nat /\ n >= 2
    BY DEF Lineup
  <2>2. h \in Nat /\ LastSlot(n) = 2 * h + 1
    BY RoundRobinMembers
  <2> QED
    BY <2>1, <2>2, LastSlotOdd
<1> HIDE DEF h, n
<1>2. i - 1 \in 0 .. 2 * h + 1 /\ j - 1 \in 0 .. 2 * h + 1
  BY <1>1 DEF n
<1>3. PICK r \in 0 .. 2 * h, k \in 0 .. h : Meet(2 * h + 1, r, k) = {i - 1, j - 1}
  <2> DEFINE a == i - 1
             b == j - 1
  <2>1. h \in Nat /\ a \in 0 .. 2 * h + 1 /\ b \in 0 .. 2 * h + 1
    BY <1>1, <1>2
  <2>2. a < b \/ b < a
    BY DEF n
  <2> HIDE DEF a, b
  <2>3. CASE a < b
    <3>1. \E r \in 0 .. 2 * h, k \in 0 .. h : Meet(2 * h + 1, r, k) = {a, b}
      BY <2>1, <2>3, EveryTwoMeet
    <3> QED BY <3>1 DEF a, b
  <2>4. CASE b < a
    <3>1. \E r \in 0 .. 2 * h, k \in 0 .. h : Meet(2 * h + 1, r, k) = {b, a}
      BY <2>1, <2>4, EveryTwoMeet
    <3>2. {b, a} = {a, b}
      OBVIOUS
    <3> QED BY <3>1, <3>2 DEF a, b
  <2> QED BY <2>2, <2>3, <2>4
<1> DEFINE m == Meeting(2 * h + 1, r, k)
           f == [round |-> r + 1, position |-> k + 1,
                 home |-> entries[m.home + 1], away |-> entries[m.away + 1]]
<1>4. {m.home, m.away} = {i - 1, j - 1}
      /\ m.home \in 0 .. 2 * h + 1 /\ m.away \in 0 .. 2 * h + 1 /\ m.home # m.away
  BY <1>1, <1>3, MeetingSides
<1> HIDE DEF m
<1>5. (m.home = i - 1 /\ m.away = j - 1) \/ (m.home = j - 1 /\ m.away = i - 1)
  BY <1>4
<1>6. m.home < n /\ m.away < n
  BY <1>1, <1>5 DEF n
<1>7. (m.home + 1 = i /\ m.away + 1 = j) \/ (m.home + 1 = j /\ m.away + 1 = i)
  BY <1>1, <1>5
<1>8. FixtureAt(entries, h, f, r, k)
  BY <1>6 DEF FixtureAt, m, n
<1>9. f \in RoundRobin(entries)
  BY <1>8, RoundRobinMembers DEF h, n
<1> QED
  BY <1>7, <1>9 DEF Meets

-----------------------------------------------------------------------------
LEMMA ReturnFacts ==
  ASSUME NEW E, NEW entries, Lineup(entries, E), NEW f \in RoundRobin(entries)
  PROVE  LET g == Return(f, Rounds(Len(entries)))
         IN  g.home = f.away /\ g.away = f.home /\ g.round = f.round + Rounds(Len(entries))
<1>1. PICK r \in 0 .. 2 * Half(Len(entries)), k \in 0 .. Half(Len(entries)) :
        FixtureAt(entries, Half(Len(entries)), f, r, k)
  BY RoundRobinMembers
<1> DEFINE m == Meeting(2 * Half(Len(entries)) + 1, r, k)
<1>2. f = [round |-> r + 1, position |-> k + 1,
           home |-> entries[m.home + 1], away |-> entries[m.away + 1]]
  BY <1>1 DEF FixtureAt
<1> HIDE DEF m
<1> QED
  BY <1>2 DEF Return

(* In a double round robin nobody plays twice in a round and two entries   *)
(* meet once at either side.                                               *)
THEOREM DoubleRoundRobinProper ==
  ASSUME NEW E, NEW entries, Lineup(entries, E)
  PROVE  /\ \A f \in DoubleRoundRobin(entries) :
              /\ f.home # f.away
              /\ \E i, j \in 1 .. Len(entries) : f.home = entries[i] /\ f.away = entries[j]
         /\ \A f, g \in DoubleRoundRobin(entries) : f # g =>
              /\ f.round = g.round => {f.home, f.away} \cap {g.home, g.away} = {}
              /\ ~ Meets(g, f.home, f.away)
<1> DEFINE R == Rounds(Len(entries))
           first == RoundRobin(entries)
           Back(f) == Return(f, R)
<1>1. DoubleRoundRobin(entries) = first \cup {Back(f) : f \in first}
  BY DEF DoubleRoundRobin
<1>2. R \in Nat
  BY LastSlotOdd DEF Lineup, Rounds
<1>3. \A f \in first : /\ Back(f).home = f.away /\ Back(f).away = f.home
                       /\ Back(f).round = f.round + R
  BY ReturnFacts
<1>4. \A f \in first : f.round \in 1 .. R /\ f.home # f.away
  BY RoundRobinProper
<1>5. \A f \in first :
        \E i, j \in 1 .. Len(entries) : f.home = entries[i] /\ f.away = entries[j]
  BY RoundRobinProper
<1>6. \A f, g \in first : f # g =>
        /\ f.round = g.round => {f.home, f.away} \cap {g.home, g.away} = {}
        /\ {f.home, f.away} # {g.home, g.away}
  BY RoundRobinProper
<1> HIDE DEF R, first, Back
<1>7. ASSUME NEW f \in DoubleRoundRobin(entries)
      PROVE  /\ f.home # f.away
             /\ \E i, j \in 1 .. Len(entries) : f.home = entries[i] /\ f.away = entries[j]
  <2>1. CASE f \in first
    BY <1>4, <1>5, <2>1
  <2>2. CASE f \notin first
    <3>1. PICK o \in first : f = Back(o)
      BY <1>1, <2>2
    <3>2. f.home = o.away /\ f.away = o.home
      BY <1>3, <3>1
    <3> QED
      BY <1>4, <1>5, <3>2
  <2> QED
    BY <2>1, <2>2
<1>8. ASSUME NEW f \in DoubleRoundRobin(entries), NEW g \in DoubleRoundRobin(entries), f # g
      PROVE  /\ f.round = g.round => {f.home, f.away} \cap {g.home, g.away} = {}
             /\ ~ Meets(g, f.home, f.away)
  <2>1. ASSUME NEW x \in first, NEW y \in first
        PROVE  x.round # y.round + R /\ ~ (x.home = y.away /\ x.away = y.home /\ x # y)
    <3>1. x.round # y.round + R
      BY <1>2, <1>4
    <3>2. x.home = y.away /\ x.away = y.home => {x.home, x.away} = {y.home, y.away}
      OBVIOUS
    <3> QED
      BY <1>6, <3>1, <3>2
  <2>2. CASE f \in first /\ g \in first
    <3>1. g.home = f.home /\ g.away = f.away => {f.home, f.away} = {g.home, g.away}
      OBVIOUS
    <3> QED
      BY <1>6, <1>8, <2>2, <3>1 DEF Meets
  <2>3. CASE f \in first /\ g \notin first
    <3>1. PICK y \in first : g = Back(y)
      BY <1>1, <2>3
    <3>2. g.home = y.away /\ g.away = y.home /\ g.round = y.round + R
      BY <1>3, <3>1
    <3>3. f # y => ~ Meets(g, f.home, f.away)
      BY <2>1, <2>3, <3>2 DEF Meets
    <3>4. f = y => ~ Meets(g, f.home, f.away)
      BY <1>4, <3>2 DEF Meets
    <3> QED
      BY <2>1, <2>3, <3>2, <3>3, <3>4
  <2>4. CASE f \notin first /\ g \in first
    <3>1. PICK x \in first : f = Back(x)
      BY <1>1, <2>4
    <3>2. f.home = x.away /\ f.away = x.home /\ f.round = x.round + R
      BY <1>3, <3>1
    <3>3. g # x => ~ Meets(g, f.home, f.away)
      BY <2>1, <2>4, <3>2 DEF Meets
    <3>4. g = x => ~ Meets(g, f.home, f.away)
      BY <1>4, <3>2 DEF Meets
    <3>5. f.round # g.round
      BY <2>1, <2>4, <3>2
    <3> QED
      BY <3>3, <3>4, <3>5
  <2>5. CASE f \notin first /\ g \notin first
    <3>1. PICK x \in first : f = Back(x)
      BY <1>1, <2>5
    <3>2. PICK y \in first : g = Back(y)
      BY <1>1, <2>5
    <3>3. x # y
      BY <1>8, <3>1, <3>2
    <3>4. /\ f.home = x.away /\ f.away = x.home /\ f.round = x.round + R
          /\ g.home = y.away /\ g.away = y.home /\ g.round = y.round + R
      BY <1>3, <3>1, <3>2
    <3>5. {f.home, f.away} = {x.home, x.away} /\ {g.home, g.away} = {y.home, y.away}
      BY <3>4
    <3>6. f.round = g.round => x.round = y.round
      BY <1>2, <1>4, <3>4
    <3>7. Meets(g, f.home, f.away) => {f.home, f.away} = {g.home, g.away}
      BY DEF Meets
    <3> QED
      BY <1>6, <3>3, <3>5, <3>6, <3>7
  <2> QED
    BY <2>2, <2>3, <2>4, <2>5
<1> QED
  BY <1>7, <1>8

(* Every two entries meet at either side. *)
THEOREM DoubleRoundRobinComplete ==
  ASSUME NEW E, NEW entries, Lineup(entries, E),
         NEW i \in 1 .. Len(entries), NEW j \in 1 .. Len(entries), i # j
  PROVE  \E f \in DoubleRoundRobin(entries) : Meets(f, entries[i], entries[j])
<1>1. PICK f \in RoundRobin(entries) :
        Meets(f, entries[i], entries[j]) \/ Meets(f, entries[j], entries[i])
  BY RoundRobinComplete
<1> DEFINE g == Return(f, Rounds(Len(entries)))
<1>2. f \in DoubleRoundRobin(entries) /\ g \in DoubleRoundRobin(entries)
  BY DEF DoubleRoundRobin
<1>3. g.home = f.away /\ g.away = f.home
  BY ReturnFacts
<1> QED
  BY <1>1, <1>2, <1>3 DEF Meets
=============================================================================
