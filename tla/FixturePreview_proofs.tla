----------------------- MODULE FixturePreview_proofs -----------------------
(***************************************************************************)
(* What is published through the preview.  First a fact on sets of rows    *)
(* alone: what validateFixtureSet accepts is a round robin.  Then the      *)
(* steps: rows are published by the ids that were read, and no id is given *)
(* to two rows, so that a publication whose rows are all still there       *)
(* publishes exactly the rows that were validated.                         *)
(***************************************************************************)
EXTENDS FixturePreview, FixtureGenerator_proofs, FiniteSetTheorems, TLAPS

(* A finite set of rows has finitely many teams and ids. *)
LEMMA RowsFinite ==
  ASSUME NEW rows, IsFiniteSet(rows)
  PROVE  /\ IsFiniteSet({f.id : f \in rows})
         /\ IsFiniteSet(UNION {Teams(f) : f \in rows})
<1> DEFINE ids == {f.id : f \in rows}
           sides == {Teams(f) : f \in rows}
<1>1. [f \in rows |-> f.id] \in Surjection(rows, ids)
  BY DEF Surjection
<1>2. [f \in rows |-> Teams(f)] \in Surjection(rows, sides)
  BY DEF Surjection
<1>3. \A s \in sides : IsFiniteSet(s)
  <2>1. ASSUME NEW f \in rows PROVE IsFiniteSet(Teams(f))
    <3>1. Teams(f) = {f.home} \cup {f.away}
      BY DEF Teams
    <3>2. IsFiniteSet({f.home})
      BY FS_Singleton
    <3> DEFINE H == {f.home}
               g == f.away
    <3> HIDE DEF H, g
    <3>3. IsFiniteSet(H \cup {g})
      BY <3>2, FS_AddElement DEF H
    <3> QED BY <3>1, <3>3 DEF H, g
  <2> QED BY <2>1
<1> HIDE DEF ids, sides
<1>4. IsFiniteSet(ids) /\ IsFiniteSet(sides)
  BY <1>1, <1>2, FS_Surjection
<1> QED BY <1>3, <1>4, FS_UNION DEF ids, sides

(* The meetings of two entries that a round robin asks for are there.      *)
LEMMA TwoMeetings ==
  ASSUME NEW M, IsFiniteSet(M), Cardinality(M) = 2
  PROVE  \E f, g \in M : f # g
<1>1. PICK f : f \in M
  BY FS_EmptySet
<1>2. IsFiniteSet(M \ {f}) /\ Cardinality(M \ {f}) = 1
  BY <1>1, FS_RemoveElement
<1>3. PICK g : g \in M \ {f}
  BY <1>2, FS_EmptySet
<1> QED BY <1>1, <1>3

LEMMA TwoSides == IsFiniteSet({"home", "away"}) /\ Cardinality({"home", "away"}) = 2
<1> DEFINE H == {"home"}
           g == "away"
<1>1. IsFiniteSet(H) /\ Cardinality(H) = 1 /\ g \notin H /\ {"home", "away"} = H \cup {g}
  BY FS_Singleton
<1> HIDE DEF H, g
<1> QED BY <1>1, FS_AddElement

(* What validateFixtureSet lets through is a round robin of those in it.   *)
THEOREM ValidatedIsRoundRobin ==
  ASSUME NEW rows, IsFiniteSet(rows), Valid(rows)
  PROVE  RoundRobinOf(rows)
<1> DEFINE teams == UNION {Teams(f) : f \in rows}
           meetings(e, o) == {f \in rows : Teams(f) = {e, o}}
<1>1. /\ \A f \in rows : f.home # f.away
      /\ \A f, g \in rows : f # g => ~(f.home = g.home /\ f.away = g.away)
      /\ \A f, g \in rows : f # g /\ f.round = g.round => Teams(f) \cap Teams(g) = {}
      /\ \A e \in teams : \A o \in teams \ {e} : Cardinality(meetings(e, o)) = Legs
  BY DEF Valid, Meets
<1>2. IsFiniteSet(teams) /\ \A e, o : IsFiniteSet(meetings(e, o))
  <2>1. ASSUME NEW e, NEW o PROVE IsFiniteSet(meetings(e, o))
    <3>1. meetings(e, o) \subseteq rows
      OBVIOUS
    <3> HIDE DEF meetings
    <3> QED BY <3>1, FS_Subset
  <2> QED BY <2>1, RowsFinite
<1>3. \A f \in rows : f.home \in teams /\ f.away \in teams /\ Teams(f) = {f.home, f.away}
  BY DEF Teams
<1> HIDE DEF teams
<1>4. ASSUME NEW e \in teams
      PROVE  LET played == {f \in rows : e \in Teams(f)} IN
             /\ Cardinality(played) = Legs * (Cardinality(teams) - 1)
             /\ Cardinality({f.round : f \in played}) = Cardinality(played)
             /\ \A o \in teams \ {e} :
                  /\ \E f \in rows : Teams(f) = {e, o}
                  /\ Legs = 2 => \E f \in rows : Meets(f, e, o)
  <2> DEFINE played == {f \in rows : e \in Teams(f)}
             others == teams \ {e}
             rounds == {f.round : f \in played}
             Opp(f) == IF f.home = e THEN f.away ELSE f.home
             Side(f) == IF f.home = e THEN "home" ELSE "away"
  <2>1. IsFiniteSet(played) /\ IsFiniteSet(others) /\ Cardinality(others) = Cardinality(teams) - 1
        /\ Cardinality(teams) \in Nat /\ Cardinality(others) \in Nat
    BY <1>2, FS_Subset, FS_RemoveElement, FS_CardinalityType
  <2>2. \A f \in played : Opp(f) \in others /\ Teams(f) = {e, Opp(f)}
    BY <1>1, <1>3
  <2>3. \A o \in others : IsFiniteSet(meetings(e, o)) /\ Cardinality(meetings(e, o)) = Legs
    <3>1. ASSUME NEW o \in others
          PROVE  IsFiniteSet(meetings(e, o)) /\ Cardinality(meetings(e, o)) = Legs
      <4>1. o \in teams \ {e}
        OBVIOUS
      <4> HIDE DEF meetings, others
      <4> QED BY <1>1, <1>2, <4>1
    <3> QED BY <3>1
  <2>4. \A o \in others : \E f \in played : Opp(f) = o
    <3>1. ASSUME NEW o \in others PROVE \E f \in played : Opp(f) = o
      <4>1. meetings(e, o) # {}
        BY <2>3, LegsAssumption, FS_EmptySet
      <4>2. PICK f \in rows : Teams(f) = {e, o}
        BY <4>1
      <4>3. f \in played /\ Opp(f) = o
        BY <1>1, <1>3, <4>2
      <4> QED BY <4>3
    <3> QED BY <3>1
  <2>5. Legs = 2 => \A o \in others : /\ \E f \in rows : f.home = e /\ f.away = o
                                      /\ \E f \in rows : f.home = o /\ f.away = e
    <3>1. ASSUME Legs = 2, NEW o \in others
          PROVE  /\ \E f \in rows : f.home = e /\ f.away = o
                 /\ \E f \in rows : f.home = o /\ f.away = e
      <4>1. PICK f \in meetings(e, o), g \in meetings(e, o) : f # g
        <5> HIDE DEF meetings
        <5> QED BY <2>3, <3>1, TwoMeetings
      <4>2. /\ (f.home = e /\ f.away = o) \/ (f.home = o /\ f.away = e)
            /\ (g.home = e /\ g.away = o) \/ (g.home = o /\ g.away = e)
            /\ f \in rows /\ g \in rows
        BY <1>1, <1>3
      <4> QED BY <1>1, <4>1, <4>2
    <3> QED BY <3>1
  <2>6. Cardinality(played) = Legs * Cardinality(others)
    <3>1. CASE Legs = 1
      <4> DEFINE F == [f \in played |-> Opp(f)]
      <4>1. ASSUME NEW f \in played, NEW g \in played, Opp(f) = Opp(g)
            PROVE  f = g
        <5> DEFINE M == meetings(e, Opp(f))
        <5>1. f \in M /\ g \in M
          BY <2>2, <4>1
        <5>2. IsFiniteSet(M) /\ Cardinality(M) = 1
          BY <2>2, <2>3, <3>1
        <5> HIDE DEF M
        <5>3. PICK x : M = {x}
          BY <5>2, FS_Singleton
        <5> QED BY <5>1, <5>3
      <4>2. F \in Bijection(played, others)
        <5>1. F \in [played -> others]
          BY <2>2
        <5>2. \A f, g \in played : F[f] = F[g] => f = g
          BY <4>1
        <5>3. \A o \in others : \E f \in played : F[f] = o
          BY <2>4
        <5> HIDE DEF F, played, others
        <5> QED BY <5>1, <5>2, <5>3 DEF Bijection, Injection, IsInjective, Surjection
      <4>3. Cardinality(others) = Cardinality(played)
        <5> HIDE DEF F, played, others
        <5> QED BY <2>1, <4>2, FS_Bijection DEF ExistsBijection
      <4> HIDE DEF played, others
      <4> QED BY <2>1, <3>1, <4>3
    <3>2. CASE Legs = 2
      <4> DEFINE B == {"home", "away"}
                 F == [f \in played |-> <<Opp(f), Side(f)>>]
      <4>1. F \in [played -> others \X B]
        BY <2>2
      <4>2. ASSUME NEW f \in played, NEW g \in played, F[f] = F[g]
            PROVE  f = g
        <5>1. Opp(f) = Opp(g) /\ Side(f) = Side(g)
          BY <4>2
        <5>2. f.home = g.home /\ f.away = g.away
          BY <1>3, <5>1
        <5> QED BY <1>1, <5>2
      <4>3. ASSUME NEW o \in others, NEW b \in B
            PROVE  \E f \in played : F[f] = <<o, b>>
        <5>1. CASE b = "home"
          <6>1. PICK f \in rows : f.home = e /\ f.away = o
            BY <2>5, <3>2
          <6>2. f \in played /\ F[f] = <<o, b>>
            BY <1>3, <5>1, <6>1
          <6> QED BY <6>2
        <5>2. CASE b = "away"
          <6>1. PICK f \in rows : f.home = o /\ f.away = e
            BY <2>5, <3>2
          <6>2. f \in played /\ F[f] = <<o, b>>
            BY <1>3, <5>2, <6>1
          <6> QED BY <6>2
        <5> QED BY <5>1, <5>2
      <4>4. F \in Bijection(played, others \X B)
        <5>1. \A x \in others \X B : \E f \in played : F[f] = x
          <6> TAKE x \in others \X B
          <6>1. PICK o \in others, b \in B : x = <<o, b>>
            OBVIOUS
          <6> HIDE DEF F, played, others, B
          <6> QED BY <4>3, <6>1
        <5> HIDE DEF F, played, others, B
        <5> QED BY <4>1, <4>2, <5>1 DEF Bijection, Injection, IsInjective, Surjection
      <4>5. IsFiniteSet(B) /\ Cardinality(B) = 2
        BY TwoSides
      <4>6. Cardinality(others \X B) = Cardinality(played)
        <5> HIDE DEF F, played, others, B
        <5> QED BY <2>1, <4>4, FS_Bijection DEF ExistsBijection
      <4>7. Cardinality(others \X B) = Cardinality(others) * 2
        <5> HIDE DEF B, others
        <5> QED BY <2>1, <4>5, FS_Product
      <4> HIDE DEF played, others, B
      <4> QED BY <2>1, <3>2, <4>6, <4>7
    <3> QED BY <3>1, <3>2, LegsAssumption
  <2>7. Cardinality(rounds) = Cardinality(played)
    <3> DEFINE F == [f \in played |-> f.round]
    <3>1. F \in [played -> rounds] /\ \A x \in rounds : \E f \in played : F[f] = x
      OBVIOUS
    <3>2. \A f, g \in played : F[f] = F[g] => f = g
      BY <1>1
    <3> HIDE DEF F, played, rounds
    <3>3. F \in Bijection(played, rounds)
      BY <3>1, <3>2 DEF Bijection, Injection, IsInjective, Surjection
    <3> QED BY <2>1, <3>3, FS_Bijection DEF ExistsBijection
  <2>8. \A o \in others : \E f \in rows : Teams(f) = {e, o}
    BY <2>2, <2>4
  <2>9. Legs = 2 => \A o \in others : \E f \in rows : Meets(f, e, o)
    BY <2>5 DEF Meets
  <2> QED BY <2>1, <2>6, <2>7, <2>8, <2>9
<1> QED BY <1>4 DEF RoundRobinOf, teams

-----------------------------------------------------------------------------
(* And what the generator creates is let through.                          *)

(* The ordered pairs of n things. *)
LEMMA PairsCounted ==
  ASSUME NEW T, IsFiniteSet(T)
  PROVE  LET P == {x \in T \X T : x[1] # x[2]} IN
         /\ IsFiniteSet(P)
         /\ Cardinality(T) \in Nat
         /\ Cardinality(P) = Cardinality(T) * (Cardinality(T) - 1)
<1> DEFINE n == Cardinality(T)
           W == T \X T
           P == {x \in W : x[1] # x[2]}
           D == {x \in W : x[1] = x[2]}
<1>1. n \in Nat /\ IsFiniteSet(W) /\ Cardinality(W) = n * n
  BY FS_CardinalityType, FS_Product
<1>2. Cardinality(D) = n
  <2> DEFINE F == [t \in T |-> << t, t >>]
  <2>1. F \in [T -> D] /\ \A t, u \in T : F[t] = F[u] => t = u
    OBVIOUS
  <2>2. ASSUME NEW x \in D PROVE \E t \in T : F[t] = x
    <3>1. PICK t \in T, u \in T : x = << t, u >>
      OBVIOUS
    <3> QED BY <3>1
  <2> HIDE DEF F, D
  <2>3. F \in Bijection(T, D)
    BY <2>1, <2>2 DEF Bijection, Injection, IsInjective, Surjection
  <2> QED BY <2>3, FS_Bijection DEF ExistsBijection
<1>3. IsFiniteSet(P) /\ IsFiniteSet(D)
  <2>1. P \in SUBSET W /\ D \in SUBSET W
    OBVIOUS
  <2> HIDE DEF W, P, D
  <2> QED BY <1>1, <2>1, FS_Subset
<1>4. W = P \cup D /\ P \cap D = {}
  OBVIOUS
<1> HIDE DEF W, P, D, n
<1>5. Cardinality(W) = Cardinality(P) + Cardinality(D) - 0
  BY <1>3, <1>4, FS_Union, FS_EmptySet
<1>6. Cardinality(P) \in Nat
  BY <1>3, FS_CardinalityType
<1>7. n * n - n = n * (n - 1)
  BY <1>1
<1>8. Cardinality(P) = n * (n - 1)
  BY <1>1, <1>2, <1>5, <1>6, <1>7
<1> QED BY <1>1, <1>3, <1>8 DEF P, W, n

(* Two sets of which one is mapped onto the other one to one.              *)
LEMMA SameSize ==
  ASSUME NEW S, NEW T, IsFiniteSet(S), NEW F \in [S -> T],
         \A x, y \in S : F[x] = F[y] => x = y,
         \A t \in T : \E x \in S : F[x] = t
  PROVE  Cardinality(T) = Cardinality(S)
<1>1. F \in Bijection(S, T)
  BY DEF Bijection, Injection, IsInjective, Surjection
<1> QED BY <1>1, FS_Bijection DEF ExistsBijection

(* A round robin of the members of T over the rounds 1 .. last.            *)
Schedule(rows, T, last) ==
  /\ \A f \in rows : f.home \in T /\ f.away \in T /\ f.home # f.away /\ f.round \in 1 .. last
  /\ \A f, g \in rows : f # g =>
       /\ ~Meets(f, g.home, g.away)
       /\ Legs = 1 => {f.home, f.away} # {g.home, g.away}
       /\ f.round = g.round => {f.home, f.away} \cap {g.home, g.away} = {}
  /\ \A e, o \in T : e # o =>
       \E f \in rows : Meets(f, e, o) \/ (Legs = 1 /\ Meets(f, o, e))
  /\ \A q \in 1 .. last : \E f \in rows : f.round = q

LEMMA ScheduleCounted ==
  ASSUME NEW rows, IsFiniteSet(rows), NEW T, IsFiniteSet(T), NEW last, Schedule(rows, T, last)
  PROVE  LET n == Cardinality(T) IN
         n \in Nat /\ Cardinality(rows) = ((n * (n - 1)) \div 2) * Legs
<1> DEFINE n == Cardinality(T)
           m == n * (n - 1)
           P == {x \in T \X T : x[1] # x[2]}
<1>1. n \in Nat /\ Cardinality(P) = m /\ m \in Int
  <2>1. n \in Nat /\ Cardinality(P) = m
    BY PairsCounted
  <2> HIDE DEF P, n
  <2> QED BY <2>1
<1>2. (m \div 2) * 2 = m
  <2> HIDE DEF n
  <2>1. PICK q \in Nat : n = 2 * q \/ n = 2 * q + 1
    <3>1. n \div 2 \in Nat /\ (n = 2 * (n \div 2) \/ n = 2 * (n \div 2) + 1)
      BY <1>1
    <3> QED BY <3>1
  <2>2. CASE n = 2 * q
    <3>1. m = 2 * (q * (n - 1)) /\ q * (n - 1) \in Int
      BY <1>1, <2>2
    <3> QED BY <3>1
  <2>3. CASE n = 2 * q + 1
    <3>1. m = 2 * (n * q) /\ n * q \in Int
      BY <1>1, <2>3
    <3> QED BY <3>1
  <2> QED BY <2>1, <2>2, <2>3
<1>3. Cardinality(rows) \in Nat
  BY FS_CardinalityType
<1>4. CASE Legs = 2
  <2> DEFINE F == [f \in rows |-> << f.home, f.away >>]
  <2>1. F \in [rows -> P]
    BY DEF Schedule
  <2>2. \A f, g \in rows : F[f] = F[g] => f = g
    BY DEF Schedule, Meets
  <2>3. ASSUME NEW x \in P PROVE \E f \in rows : F[f] = x
    <3>1. PICK e \in T, o \in T : x = << e, o >> /\ e # o
      OBVIOUS
    <3>2. PICK f \in rows : Meets(f, e, o)
      BY <1>4, <3>1 DEF Schedule
    <3> QED BY <3>1, <3>2 DEF Meets
  <2> HIDE DEF F, P
  <2>4. Cardinality(P) = Cardinality(rows)
    BY <2>1, <2>2, <2>3, SameSize
  <2> HIDE DEF m
  <2> QED BY <1>1, <1>2, <1>4, <2>4 DEF m
<1>5. CASE Legs = 1
  <2> DEFINE B == {"home", "away"}
             S == rows \X B
             Seen(x) == IF x[2] = "home" THEN << x[1].home, x[1].away >> ELSE << x[1].away, x[1].home >>
             F == [x \in S |-> Seen(x)]
  <2>1. F \in [S -> P]
    BY DEF Schedule
  <2>2. ASSUME NEW f \in rows, NEW g \in rows, NEW b \in B, NEW c \in B,
               F[<< f, b >>] = F[<< g, c >>]
        PROVE  << f, b >> = << g, c >>
    <3>1. Seen(<< f, b >>) = Seen(<< g, c >>)
      BY <2>2
    <3>2. {f.home, f.away} = {g.home, g.away}
      BY <3>1
    <3>3. f = g
      BY <1>5, <3>2 DEF Schedule
    <3>4. f.home # f.away
      BY DEF Schedule
    <3>5. b = c
      BY <3>1, <3>3, <3>4
    <3> QED BY <3>3, <3>5
  <2>3. ASSUME NEW x \in P PROVE \E y \in S : F[y] = x
    <3>1. PICK e \in T, o \in T : x = << e, o >> /\ e # o
      OBVIOUS
    <3>2. PICK f \in rows : Meets(f, e, o) \/ Meets(f, o, e)
      BY <3>1 DEF Schedule
    <3>3. F[<< f, "home" >>] = << f.home, f.away >> /\ F[<< f, "away" >>] = << f.away, f.home >>
      OBVIOUS
    <3>4. << f, "home" >> \in S /\ << f, "away" >> \in S
      OBVIOUS
    <3> HIDE DEF F, S
    <3> QED BY <3>1, <3>2, <3>3, <3>4 DEF Meets
  <2>4. \A x, y \in S : F[x] = F[y] => x = y
    <3> TAKE x \in S, y \in S
    <3>1. PICK f \in rows, b \in B : x = << f, b >>
      OBVIOUS
    <3>2. PICK g \in rows, c \in B : y = << g, c >>
      OBVIOUS
    <3> HIDE DEF F, S, B
    <3> QED BY <2>2, <3>1, <3>2
  <2>5. IsFiniteSet(B) /\ Cardinality(B) = 2
    BY TwoSides
  <2>6. IsFiniteSet(S) /\ Cardinality(S) = Cardinality(rows) * 2
    <3> HIDE DEF B
    <3> QED BY <2>5, FS_Product
  <2> HIDE DEF F, S, P
  <2>7. Cardinality(P) = Cardinality(S)
    BY <2>1, <2>3, <2>4, <2>6, SameSize
  <2> HIDE DEF m
  <2>8. Cardinality(rows) = (m \div 2) * Legs
    BY <1>1, <1>2, <1>3, <1>5, <2>6, <2>7
  <2> QED BY <1>1, <2>8 DEF m
<1> QED BY <1>1, <1>4, <1>5, LegsAssumption

(* Such a schedule of two teams or more passes the validation. *)
LEMMA SchedulesAreValid ==
  ASSUME NEW rows, IsFiniteSet(rows), NEW T, IsFiniteSet(T), Cardinality(T) >= 2,
         Schedule(rows, T, Rounds(Cardinality(T)) * Legs), Rounds(Cardinality(T)) \in Nat
  PROVE  Valid(rows)
<1> DEFINE n == Cardinality(T)
           last == Rounds(n) * Legs
           meetings(pair) == {f \in rows : Teams(f) = pair}
<1>1. \A f \in rows : Teams(f) = {f.home, f.away}
  BY DEF Teams
<1>2. ASSUME NEW e \in T PROVE T \ {e} # {}
  <2>1. IsFiniteSet(T \ {e}) /\ Cardinality(T \ {e}) = n - 1 /\ n \in Nat
    BY FS_RemoveElement, FS_CardinalityType
  <2>2. Cardinality(T \ {e}) # 0
    BY <2>1
  <2> QED BY <2>2, FS_EmptySet
<1>3. UNION {Teams(f) : f \in rows} = T
  <2>1. \A f \in rows : Teams(f) \subseteq T
    BY <1>1 DEF Schedule
  <2>2. ASSUME NEW e \in T PROVE \E f \in rows : e \in Teams(f)
    <3>1. PICK o \in T : o # e
      BY <1>2
    <3> QED BY <1>1, <3>1 DEF Schedule, Meets
  <2> QED BY <2>1, <2>2
<1>4. \A f \in rows : f.home # f.away
  BY DEF Schedule
<1>5. \A f, g \in rows : f # g => /\ ~Meets(f, g.home, g.away)
                                  /\ f.round = g.round => Teams(f) \cap Teams(g) = {}
  BY DEF Schedule, Teams
<1>6. ASSUME NEW e \in T, NEW o \in T \ {e}
      PROVE  Cardinality(meetings({e, o})) = Legs
  <2> DEFINE M == meetings({e, o})
  <2>1. \A f \in M : f \in rows /\ (Meets(f, e, o) \/ Meets(f, o, e))
    BY <1>1 DEF Meets
  <2>2. \A f \in rows : Meets(f, e, o) \/ Meets(f, o, e) => f \in M
    BY <1>1 DEF Meets
  <2> HIDE DEF M
  <2>3. CASE Legs = 1
    <3>1. PICK f \in rows : Meets(f, e, o) \/ Meets(f, o, e)
      BY DEF Schedule
    <3>2. M = {f}
      BY <2>1, <2>2, <2>3, <3>1 DEF Schedule, Meets
    <3> QED BY <2>3, <3>2, FS_Singleton DEF M
  <2>4. CASE Legs = 2
    <3>1. PICK f \in rows : Meets(f, e, o)
      BY <2>4 DEF Schedule
    <3>2. PICK g \in rows : Meets(g, o, e)
      BY <2>4 DEF Schedule
    <3>3. g \notin {f} /\ M = {f} \cup {g}
      BY <2>1, <2>2, <3>1, <3>2 DEF Schedule, Meets
    <3> DEFINE one == {f}
    <3>4. IsFiniteSet(one) /\ Cardinality(one) = 1 /\ g \notin one /\ M = one \cup {g}
      BY <3>3, FS_Singleton
    <3> HIDE DEF one
    <3>5. Cardinality(one \cup {g}) = 1 + 1
      BY <3>4, FS_AddElement
    <3>6. Cardinality(M) = Legs
      BY <2>4, <3>4, <3>5
    <3> QED BY <3>6 DEF M
  <2> QED BY <2>3, <2>4, LegsAssumption
<1>7. {f.round : f \in rows} = 1 .. last
  BY DEF Schedule
<1>8. Cardinality(1 .. last) = last
  <2>1. last \in Nat
    BY LegsAssumption
  <2> HIDE DEF last
  <2>2. Cardinality(1 .. last) = IF 1 > last THEN 0 ELSE last - 1 + 1
    BY <2>1, FS_Interval
  <2> QED BY <2>1, <2>2
<1>9. Cardinality(rows) = ((n * (n - 1)) \div 2) * Legs
  BY ScheduleCounted
<1> HIDE DEF n, last
<1> QED BY <1>3, <1>4, <1>5, <1>6, <1>7, <1>8, <1>9 DEF Valid, n, last

(* What the generator is given it schedules, and that is finite.           *)
LEMMA PlanFinite ==
  ASSUME NEW list \in Lists
  PROVE  /\ IsFiniteSet(RoundRobin(list)) /\ IsFiniteSet(DoubleRoundRobin(list))
         /\ RoundRobin(list) \subseteq [round : Nat, position : Nat, home : Entries, away : Entries]
         /\ DoubleRoundRobin(list) \subseteq [round : Nat, position : Nat, home : Entries, away : Entries]
<1>1. Lineup(list, Entries)
  BY ListsAssumption DEF Lineup, IsInjective
<1> DEFINE n == Len(list)
           last == LastSlot(n)
           fixture(r, k) == [round |-> r + 1, position |-> k + 1,
                             home |-> list[Meeting(last, r, k).home + 1],
                             away |-> list[Meeting(last, r, k).away + 1]]
           W == (0 .. Rounds(n) - 1) \X (0 .. last \div 2)
           D == {y \in W : Meeting(last, y[1], y[2]).home < n /\ Meeting(last, y[1], y[2]).away < n}
<1>2. n \in Nat /\ n >= 2 /\ last \in Nat /\ last \div 2 \in Nat /\ Rounds(n) \in Nat
  BY <1>1, LastSlotOdd DEF Lineup, Rounds
<1>3. IsFiniteSet(D)
  <2>1. IsFiniteSet(0 .. Rounds(n) - 1) /\ IsFiniteSet(0 .. last \div 2)
    <3> DEFINE R == Rounds(n) - 1
               K == last \div 2
    <3>1. 0 \in Int /\ R \in Int /\ K \in Int
      BY <1>2
    <3> HIDE DEF R, K
    <3>2. IsFiniteSet(0 .. R)
      BY <3>1, FS_Interval
    <3>3. IsFiniteSet(0 .. K)
      BY <3>1, FS_Interval
    <3> QED BY <3>2, <3>3 DEF R, K
  <2>2. D \in SUBSET W
    OBVIOUS
  <2> HIDE DEF n, last, D
  <2>3. IsFiniteSet(W)
    BY <2>1, FS_Product
  <2> QED BY <2>2, <2>3, FS_Subset
<1>4. RoundRobin(list) = {fixture(x[1], x[2]) : x \in D}
  BY DEF RoundRobin
<1>5. IsFiniteSet(RoundRobin(list))
  <2>1. [x \in D |-> fixture(x[1], x[2])] \in Surjection(D, RoundRobin(list))
    BY <1>4 DEF Surjection
  <2> HIDE DEF D
  <2> QED BY <1>3, <2>1, FS_Surjection
<1>6. IsFiniteSet(DoubleRoundRobin(list))
  <2> DEFINE first == RoundRobin(list)
             second == {Return(f, Rounds(n)) : f \in first}
  <2>1. [f \in first |-> Return(f, Rounds(n))] \in Surjection(first, second)
    BY DEF Surjection
  <2>2. DoubleRoundRobin(list) = first \cup second
    BY DEF DoubleRoundRobin
  <2> HIDE DEF first, second
  <2>3. IsFiniteSet(second)
    BY <1>5, <2>1, FS_Surjection DEF first
  <2> QED BY <1>5, <2>2, <2>3, FS_Union DEF first
<1> QED BY <1>1, <1>5, <1>6, RoundRobinType, DoubleRoundRobinType

(* In every round there is a match: of the first two one is no bye.        *)
LEMMA EveryRoundPlayed ==
  ASSUME NEW list \in Lists, NEW q \in 1 .. Rounds(Len(list))
  PROVE  \E f \in RoundRobin(list) : f.round = q
<1> DEFINE n == Len(list)
           h == Half(n)
           r == q - 1
<1>1. Lineup(list, Entries) /\ n \in Nat /\ n >= 2
  BY ListsAssumption DEF Lineup, IsInjective
<1>2. h \in Nat /\ LastSlot(n) = 2 * h + 1 /\ (n = 2 * h + 2 \/ (n = 2 * h + 1 /\ h >= 1))
  <2>1. h \in Nat /\ LastSlot(n) = 2 * h + 1
    BY <1>1, RoundRobinMembers
  <2> HIDE DEF n, h
  <2>2. LastSlot(n) = n - 1 \/ LastSlot(n) = n
    BY DEF LastSlot
  <2> QED BY <1>1, <2>1, <2>2
<1>3. r \in 0 .. 2 * h
  BY <1>2 DEF Rounds
<1>4. \E k \in 0 .. h : Meeting(2 * h + 1, r, k).home < n /\ Meeting(2 * h + 1, r, k).away < n
  <2>1. CASE n = 2 * h + 2
    <3>1. /\ Meeting(2 * h + 1, r, 0).home \in 0 .. 2 * h + 1
          /\ Meeting(2 * h + 1, r, 0).away \in 0 .. 2 * h + 1
      BY <1>2, <1>3, MeetingSides
    <3> QED BY <1>2, <2>1, <3>1
  <2>2. CASE n = 2 * h + 1 /\ h >= 1
    <3> DEFINE m(k) == Meeting(2 * h + 1, r, k)
    <3>1. 0 \in 0 .. h /\ 1 \in 0 .. h
      BY <1>2, <2>2
    <3>2. \A k \in {0, 1} : m(k).home \in 0 .. 2 * h + 1 /\ m(k).away \in 0 .. 2 * h + 1
                            /\ Meet(2 * h + 1, r, k) = {m(k).home, m(k).away}
      <4>1. h \in Nat /\ r \in 0 .. 2 * h
        BY <1>2, <1>3
      <4> HIDE DEF h, r
      <4>2. ASSUME NEW k \in 0 .. h
            PROVE  m(k).home \in 0 .. 2 * h + 1 /\ m(k).away \in 0 .. 2 * h + 1
                   /\ Meet(2 * h + 1, r, k) = {m(k).home, m(k).away}
        BY <4>1, MeetingSides
      <4> HIDE DEF m
      <4> QED BY <3>1, <4>2
    <3>3. Meet(2 * h + 1, r, 0) \cap Meet(2 * h + 1, r, 1) = {}
      BY <1>2, <1>3, <3>1, OncePerRound
    <3> HIDE DEF m, h, n
    <3>4. \E k \in {0, 1} : 2 * h + 1 \notin {m(k).home, m(k).away}
      BY <3>2, <3>3
    <3>5. PICK k \in {0, 1} : m(k).home < n /\ m(k).away < n
      BY <1>2, <2>2, <3>2, <3>4
    <3> QED BY <3>1, <3>5 DEF m
  <2> QED BY <1>2, <2>1, <2>2
<1>5. PICK k \in 0 .. h : Meeting(2 * h + 1, r, k).home < n /\ Meeting(2 * h + 1, r, k).away < n
  BY <1>4
<1> DEFINE f == [round |-> r + 1, position |-> k + 1,
                 home |-> list[Meeting(2 * h + 1, r, k).home + 1],
                 away |-> list[Meeting(2 * h + 1, r, k).away + 1]]
<1>6. FixtureAt(list, h, f, r, k)
  BY <1>5 DEF FixtureAt
<1>7. f.round = q
  BY <1>3
<1> HIDE DEF f, h, r
<1>8. f \in RoundRobin(list)
  BY <1>1, <1>3, <1>6, RoundRobinMembers DEF h
<1> QED BY <1>7, <1>8

(* The plan of a list is a round robin of its members. *)
LEMMA PlanIsSchedule ==
  ASSUME NEW list \in Lists
  PROVE  LET T == {list[i] : i \in DOMAIN list} IN
         /\ IsFiniteSet(T) /\ Cardinality(T) = Len(list) /\ Len(list) \in Nat /\ Len(list) >= 2
         /\ Rounds(Len(list)) \in Nat
         /\ Schedule(Plan(list), T, Rounds(Len(list)) * Legs)
<1> DEFINE n == Len(list)
           R == Rounds(n)
           T == {list[i] : i \in DOMAIN list}
           first == RoundRobin(list)
           Back(f) == Return(f, R)
<1>1. Lineup(list, Entries) /\ n \in Nat /\ n >= 2 /\ DOMAIN list = 1 .. n
  BY ListsAssumption DEF Lineup, IsInjective
<1>2. R \in Nat
  BY <1>1, LastSlotOdd DEF Rounds
<1>3. IsFiniteSet(T) /\ Cardinality(T) = n
  <2> DEFINE F == [i \in 1 .. n |-> list[i]]
  <2>1. F \in [1 .. n -> T] /\ \A i, j \in 1 .. n : F[i] = F[j] => i = j
    BY <1>1 DEF Lineup
  <2>2. \A t \in T : \E i \in 1 .. n : F[i] = t
    BY <1>1
  <2>3. IsFiniteSet(1 .. n) /\ Cardinality(1 .. n) = n
    <3> HIDE DEF n
    <3>1. Cardinality(1 .. n) = IF 1 > n THEN 0 ELSE n - 1 + 1
      BY <1>1, FS_Interval
    <3> QED BY <1>1, <3>1, FS_Interval
  <2> HIDE DEF n, F, T
  <2>4. F \in Bijection(1 .. n, T)
    BY <2>1, <2>2 DEF Bijection, Injection, IsInjective, Surjection
  <2> QED BY <2>3, <2>4, FS_Bijection DEF ExistsBijection
<1>4. \A f \in first : f.home \in T /\ f.away \in T /\ f.home # f.away /\ f.round \in 1 .. R
  BY <1>1, RoundRobinProper
<1>5. ASSUME NEW e \in T, NEW o \in T, e # o
      PROVE  \E i, j \in 1 .. n : i # j /\ e = list[i] /\ o = list[j]
  BY <1>1, <1>5
<1>6. CASE Legs = 1
  <2>1. Plan(list) = first
    BY <1>6 DEF Plan
  <2>2. \A f, g \in first : f # g =>
          /\ ~Meets(f, g.home, g.away)
          /\ {f.home, f.away} # {g.home, g.away}
          /\ f.round = g.round => {f.home, f.away} \cap {g.home, g.away} = {}
    <3>1. \A f, g \in first : f # g =>
            /\ f.round = g.round => {f.home, f.away} \cap {g.home, g.away} = {}
            /\ {f.home, f.away} # {g.home, g.away}
      BY <1>1, RoundRobinProper
    <3> HIDE DEF first
    <3>2. ASSUME NEW f \in first, NEW g \in first, f # g
          PROVE  ~Meets(f, g.home, g.away)
      BY <3>1, <3>2 DEF Meets
    <3> QED BY <3>1, <3>2
  <2>3. \A e, o \in T : e # o => \E f \in first : Meets(f, e, o) \/ Meets(f, o, e)
    BY <1>1, <1>5, RoundRobinComplete
  <2>4. \A q \in 1 .. R : \E f \in first : f.round = q
    BY EveryRoundPlayed
  <2>5. R * Legs = R
    BY <1>2, <1>6
  <2> HIDE DEF first, T, R, n
  <2>6. Schedule(Plan(list), T, R)
    BY <1>4, <1>6, <2>1, <2>2, <2>3, <2>4 DEF Schedule
  <2> QED BY <1>1, <1>2, <1>3, <2>5, <2>6 DEF n, T, R
<1>7. CASE Legs = 2
  <2> DEFINE all == DoubleRoundRobin(list)
  <2>1. Plan(list) = all /\ all = first \cup {Back(f) : f \in first}
    BY <1>7 DEF Plan, DoubleRoundRobin
  <2>2. \A f \in first : /\ Back(f).home = f.away /\ Back(f).away = f.home
                         /\ Back(f).round = f.round + R
    BY <1>1, ReturnFacts
  <2> HIDE DEF Back
  <2>3. \A f \in all : f.home \in T /\ f.away \in T /\ f.home # f.away /\ f.round \in 1 .. 2 * R
    BY <1>2, <1>4, <2>1, <2>2
  <2>4. \A f, g \in all : f # g =>
          /\ ~Meets(f, g.home, g.away)
          /\ f.round = g.round => {f.home, f.away} \cap {g.home, g.away} = {}
    BY <1>1, DoubleRoundRobinProper
  <2>5. \A e, o \in T : e # o => \E f \in all : Meets(f, e, o)
    BY <1>1, <1>5, DoubleRoundRobinComplete
  <2>6. ASSUME NEW q \in 1 .. 2 * R PROVE \E f \in all : f.round = q
    <3>1. CASE q \in 1 .. R
      BY <2>1, <3>1, EveryRoundPlayed
    <3>2. CASE q - R \in 1 .. R
      <4>1. PICK f \in first : f.round = q - R
        BY <3>2, EveryRoundPlayed
      <4>2. Back(f) \in all /\ Back(f).round = q
        BY <1>2, <2>1, <2>2, <4>1
      <4> QED BY <4>2
    <3> QED BY <1>2, <3>1, <3>2
  <2>7. R * Legs = 2 * R
    BY <1>2, <1>7
  <2> HIDE DEF first, T, R, n, all
  <2>8. Schedule(Plan(list), T, 2 * R)
    BY <1>7, <2>1, <2>3, <2>4, <2>5, <2>6 DEF Schedule
  <2> QED BY <1>1, <1>2, <1>3, <2>7, <2>8 DEF n, T, R
<1> QED BY <1>6, <1>7, LegsAssumption

(* The drafts the generator creates for any list of entries pass the       *)
(* validation of publishFixtures, which is written apart from it, whichever *)
(* pairs are turned round.                                                 *)
THEOREM GeneratedDraftsAreValid ==
  ASSUME NEW list \in Lists, NEW turned \in TurnedPairs(Plan(list))
  PROVE  Valid(NewRows(Plan(list), turned))
<1> DEFINE plan == Plan(list)
           T == {list[i] : i \in DOMAIN list}
           last == Rounds(Len(list)) * Legs
           ids == NewIds(plan)
           row(f) == IF Teams(f) \in turned THEN Row(ids[f], f.round, f.away, f.home)
                     ELSE Row(ids[f], f.round, f.home, f.away)
           rows == {row(f) : f \in plan}
<1>1. /\ IsFiniteSet(T) /\ Cardinality(T) = Len(list) /\ Cardinality(T) >= 2
      /\ Rounds(Len(list)) \in Nat
      /\ Schedule(plan, T, last)
  BY PlanIsSchedule
<1>2. IsFiniteSet(plan)
  BY PlanFinite DEF Plan
<1>3. NewRows(plan, turned) = rows
  BY DEF NewRows
<1> HIDE DEF plan, ids, T, last
<1>4. \A f \in plan :
        /\ row(f).round = f.round
        /\ row(f).home = IF {f.home, f.away} \in turned THEN f.away ELSE f.home
        /\ row(f).away = IF {f.home, f.away} \in turned THEN f.home ELSE f.away
  BY DEF Row, Teams
<1>5. IsFiniteSet(rows)
  <2>1. [f \in plan |-> row(f)] \in Surjection(plan, rows)
    BY DEF Surjection
  <2> HIDE DEF rows, row
  <2> QED BY <1>2, <2>1, FS_Surjection
<1> HIDE DEF row
<1>6. Schedule(rows, T, last)
  <2>1. ASSUME NEW f \in rows
        PROVE  f.home \in T /\ f.away \in T /\ f.home # f.away /\ f.round \in 1 .. last
    <3>1. PICK a \in plan : f = row(a)
      OBVIOUS
    <3>2. a.home \in T /\ a.away \in T /\ a.home # a.away /\ a.round \in 1 .. last
      BY <1>1 DEF Schedule
    <3> HIDE DEF rows
    <3> QED BY <1>4, <3>1, <3>2
  <2>2. ASSUME NEW f \in rows, NEW g \in rows, f # g
        PROVE  /\ ~Meets(f, g.home, g.away)
               /\ Legs = 1 => {f.home, f.away} # {g.home, g.away}
               /\ f.round = g.round => {f.home, f.away} \cap {g.home, g.away} = {}
    <3>1. PICK a \in plan : f = row(a)
      OBVIOUS
    <3>2. PICK b \in plan : g = row(b)
      OBVIOUS
    <3>3. a # b
      BY <2>2, <3>1, <3>2
    <3>4. /\ f.round = a.round /\ {f.home, f.away} = {a.home, a.away}
          /\ g.round = b.round /\ {g.home, g.away} = {b.home, b.away}
      BY <1>4, <3>1, <3>2
    <3>5. /\ ~(a.home = b.home /\ a.away = b.away)
          /\ Legs = 1 => {a.home, a.away} # {b.home, b.away}
          /\ a.round = b.round => {a.home, a.away} \cap {b.home, b.away} = {}
      BY <1>1, <3>3 DEF Schedule, Meets
    <3>6. f.home = g.home /\ f.away = g.away => a.home = b.home /\ a.away = b.away
      <4>1. f.home = g.home /\ f.away = g.away => {a.home, a.away} = {b.home, b.away}
        BY <3>4
      <4> HIDE DEF rows
      <4> QED BY <1>4, <3>1, <3>2, <4>1
    <3> HIDE DEF rows
    <3> QED BY <3>4, <3>5, <3>6 DEF Meets
  <2>3. ASSUME NEW e \in T, NEW o \in T, e # o
        PROVE  \E f \in rows : Meets(f, e, o) \/ (Legs = 1 /\ Meets(f, o, e))
    <3>1. CASE Legs = 1
      <4>1. PICK a \in plan : Meets(a, e, o) \/ Meets(a, o, e)
        BY <1>1, <2>3 DEF Schedule
      <4> QED BY <1>4, <3>1, <4>1 DEF Meets
    <3>2. CASE Legs = 2 /\ {e, o} \in turned
      <4>1. PICK a \in plan : Meets(a, o, e)
        BY <1>1, <2>3, <3>2 DEF Schedule
      <4>2. {a.home, a.away} = {e, o}
        BY <4>1 DEF Meets
      <4> QED BY <1>4, <3>2, <4>1, <4>2 DEF Meets
    <3>3. CASE Legs = 2 /\ {e, o} \notin turned
      <4>1. PICK a \in plan : Meets(a, e, o)
        BY <1>1, <2>3, <3>3 DEF Schedule
      <4>2. {a.home, a.away} = {e, o}
        BY <4>1 DEF Meets
      <4> QED BY <1>4, <3>3, <4>1, <4>2 DEF Meets
    <3> QED BY <3>1, <3>2, <3>3, LegsAssumption
  <2>4. ASSUME NEW q \in 1 .. last PROVE \E f \in rows : f.round = q
    <3>1. PICK a \in plan : a.round = q
      BY <1>1 DEF Schedule
    <3>2. row(a) \in rows /\ row(a).round = q
      BY <1>4, <3>1
    <3> QED BY <3>2
  <2> HIDE DEF rows
  <2> QED BY <2>1, <2>2, <2>3, <2>4 DEF Schedule
<1> HIDE DEF rows
<1>7. Valid(rows)
  BY <1>1, <1>5, <1>6, SchedulesAreValid DEF last
<1> QED BY <1>3, <1>7 DEF plan

-----------------------------------------------------------------------------
(* No id is given to two rows. *)
OneRowAnId == \A f, g \in fixtures : f.id = g.id => f = g

(* Of two operations under way both are among those that overlap. *)
Overlaps ==
  \A p, q \in Organisers :
    p # q /\ Begun(p) /\ Begun(q) => {request[p].op, request[q].op} \subseteq Racing

(* As long as all the rows a publication has read are there, they are the  *)
(* rows that were validated.                                               *)
ReadsStand ==
  \A p \in Organisers : Doing(p, "PUBLISH") =>
    LET rows == PublishedNow(request[p].ids) IN
    request[p].ids \subseteq {f.id : f \in rows} => Valid(rows)

(* What is being deleted or edited is a draft. *)
TargetsAreDrafts(op) ==
  \A p \in Organisers : Doing(p, op) => request[p].id \notin published

IdsInv == TypeOK /\ OneRowAnId /\ Overlaps

(* What is asked for is one of the requests with its parameters.           *)
LEMMA RequestTypes ==
  ASSUME TypeOK, NEW p \in Organisers
  PROVE  /\ Doing(p, "GENERATE") =>
              request[p] \in [op : {"GENERATE"}, step : {"DELETE", "CREATE"}, list : Lists]
         /\ Doing(p, "ADD") =>
              request[p] \in [op : {"ADD"}, round : ManualRounds, home : Entries, away : Entries]
         /\ Doing(p, "EDIT") => request[p] \in
              [op : {"EDIT"}, id : Nat, round : ManualRounds, home : Entries, away : Entries]
         /\ Doing(p, "DELETE") => request[p] \in [op : {"DELETE"}, id : Nat]
         /\ Doing(p, "PUBLISH") =>
              request[p].ids \in SUBSET Nat /\ IsFiniteSet(request[p].ids)
<1>1. request[p] \in {NONE} \cup Asked
  BY DEF TypeOK
<1> QED
  BY <1>1 DEF Doing, Begun, Asked

(* What rows and requests mention is a finite set of numbers. *)
LEMMA MentionedFinite ==
  ASSUME TypeOK
  PROVE  Mentioned \in SUBSET Nat /\ IsFiniteSet(Mentioned)
<1> DEFINE rowIds == {f.id : f \in fixtures}
           read == {IdsRead(p) : p \in Organisers}
<1>1. rowIds \in SUBSET Nat /\ IsFiniteSet(rowIds)
  BY RowsFinite DEF TypeOK
<1>2. ASSUME NEW p \in Organisers
      PROVE  IdsRead(p) \in SUBSET Nat /\ IsFiniteSet(IdsRead(p))
  <2>1. CASE Doing(p, "PUBLISH")
    BY <2>1, RequestTypes DEF IdsRead
  <2>2. CASE ~Doing(p, "PUBLISH") /\ (Doing(p, "EDIT") \/ Doing(p, "DELETE"))
    <3>1. IdsRead(p) = {request[p].id} /\ request[p].id \in Nat
      BY <2>2, RequestTypes DEF IdsRead
    <3> QED BY <3>1, FS_Singleton
  <2>3. CASE ~Doing(p, "PUBLISH") /\ ~Doing(p, "EDIT") /\ ~Doing(p, "DELETE")
    BY <2>3, FS_EmptySet DEF IdsRead
  <2> QED BY <2>1, <2>2, <2>3
<1>3. [p \in Organisers |-> IdsRead(p)] \in Surjection(Organisers, read)
  BY DEF Surjection
<1>4. \A s \in read : s \in SUBSET Nat /\ IsFiniteSet(s)
  BY <1>2
<1>5. Mentioned = rowIds \cup UNION read
  BY DEF Mentioned
<1> HIDE DEF rowIds, read
<1>6. IsFiniteSet(read)
  BY <1>3, OrganisersAssumption, FS_Surjection
<1>7. IsFiniteSet(UNION read)
  BY <1>4, <1>6, FS_UNION
<1> QED BY <1>1, <1>4, <1>5, <1>7, FS_Union

(* New ids are there for any finite set of rows. *)
LEMMA NewIdsAreNew ==
  ASSUME TypeOK, NEW rows, IsFiniteSet(rows)
  PROVE  /\ NewIds(rows) \in [rows -> Nat \ Mentioned]
         /\ \A f, g \in rows : NewIds(rows)[f] = NewIds(rows)[g] => f = g
<1> DEFINE c == Cardinality(rows)
           m == Cardinality(Mentioned)
           A == 1 .. c + m
           T == A \ Mentioned
<1>1. c \in Nat /\ m \in Nat /\ IsFiniteSet(Mentioned) /\ IsFiniteSet(A) /\ Cardinality(A) = c + m
  <2>1. c \in Nat /\ m \in Nat /\ IsFiniteSet(Mentioned)
    BY MentionedFinite, FS_CardinalityType
  <2> HIDE DEF c, m
  <2>2. IsFiniteSet(1 .. c + m) /\ Cardinality(1 .. c + m) = IF 1 > c + m THEN 0 ELSE (c + m) - 1 + 1
    BY <2>1, FS_Interval
  <2> QED BY <2>1, <2>2
<1>2. IsFiniteSet(T) /\ Cardinality(T) \in Nat /\ Cardinality(T) >= c
  <2> DEFINE B == A \cap Mentioned
  <2>1. IsFiniteSet(T) /\ IsFiniteSet(B) /\ Cardinality(B) <= m
    <3>1. T \in SUBSET A /\ B \in SUBSET A /\ B \in SUBSET Mentioned
      OBVIOUS
    <3> HIDE DEF A, T, B
    <3> QED BY <1>1, <3>1, FS_Subset
  <2>2. A = T \cup B /\ T \cap B = {}
    OBVIOUS
  <2> HIDE DEF A, T, B, c, m
  <2>3. Cardinality(A) = Cardinality(T) + Cardinality(B) - 0
    BY <2>1, <2>2, FS_Union, FS_EmptySet
  <2>4. Cardinality(T) \in Nat /\ Cardinality(B) \in Nat
    BY <2>1, FS_CardinalityType
  <2> QED BY <1>1, <2>1, <2>3, <2>4
<1>3. \E ids \in Injection(rows, T) : TRUE
  <2> DEFINE t == Cardinality(T)
  <2> HIDE DEF T
  <2>1. PICK g \in Bijection(1 .. c, rows) : TRUE
    BY FS_CardinalityType DEF ExistsBijection
  <2>2. PICK h \in Bijection(1 .. t, T) : TRUE
    BY <1>2, FS_CardinalityType DEF ExistsBijection
  <2>3. 1 .. c \subseteq 1 .. t
    BY <1>1, <1>2
  <2> DEFINE place(f) == CHOOSE i \in 1 .. c : g[i] = f
             ids == [f \in rows |-> h[place(f)]]
  <2> HIDE DEF c, t
  <2>4. \A f \in rows : place(f) \in 1 .. c /\ g[place(f)] = f
    BY <2>1 DEF Bijection, Surjection
  <2>5. h \in [1 .. t -> T] /\ \A i, j \in 1 .. t : h[i] = h[j] => i = j
    BY <2>2 DEF Bijection, Injection, IsInjective
  <2>6. ids \in [rows -> T]
    BY <2>3, <2>4, <2>5
  <2>7. \A e, f \in rows : ids[e] = ids[f] => e = f
    BY <2>3, <2>4, <2>5
  <2> HIDE DEF ids
  <2> QED BY <2>6, <2>7 DEF Injection, IsInjective
<1>4. NewIds(rows) \in Injection(rows, T)
  BY <1>3 DEF NewIds
<1>5. T \subseteq Nat \ Mentioned
  BY <1>1
<1> HIDE DEF T
<1> QED BY <1>4, <1>5 DEF Injection, IsInjective

-----------------------------------------------------------------------------
(* Every reachable state has the rows and the requests in order.           *)

LEMMA AskKeepsIds ==
  ASSUME IdsInv, NEW p \in Organisers, NEW op, NEW asked \in Asked, asked.op = op,
         Begin(p, op), Ask(p, asked)
  PROVE  IdsInv'
<1>1. /\ request' = [request EXCEPT ![p] = asked] /\ ~Begun(p)
      /\ UNCHANGED << status, fixtures, published >>
      /\ \A q \in Organisers : Begun(q) => {op, request[q].op} \subseteq Racing
  BY DEF Ask, Begin
<1>2. TypeOK'
  BY <1>1 DEF IdsInv, TypeOK, Asked
<1>3. Overlaps'
  <2>1. request'[p] = asked /\ \A q \in Organisers : q # p => request'[q] = request[q]
    BY <1>1 DEF IdsInv, TypeOK
  <2> QED BY <1>1, <2>1 DEF IdsInv, Overlaps, Begun
<1> QED BY <1>1, <1>2, <1>3 DEF IdsInv, OneRowAnId

LEMMA AnswerKeepsOrder ==
  ASSUME IdsInv, NEW p \in Organisers, Answer(p)
  PROVE  /\ status' \in {"DRAFT", "ACTIVE"}
         /\ request' \in [Organisers -> {NONE} \cup Asked]
         /\ Overlaps'
<1>1. request' = [request EXCEPT ![p] = NONE] /\ status' = status
  BY DEF Answer
<1>2. /\ request'[p] = NONE /\ \A q \in Organisers : q # p => request'[q] = request[q]
      /\ request' \in [Organisers -> {NONE} \cup Asked]
  BY <1>1 DEF IdsInv, TypeOK
<1> QED BY <1>1, <1>2 DEF IdsInv, TypeOK, Overlaps, Begun

(* What is asked for, and on what grounds. *)
Asks(p) ==
  \/ \E list \in Lists : AskGenerate(p, list)
  \/ \E round \in ManualRounds : \E home, away \in Entries :
       \/ AskAdd(p, round, home, away)
       \/ \E f \in Drafts : AskEdit(p, f, round, home, away)
  \/ \E f \in Drafts : AskDelete(p, f)
  \/ AskPublish(p)
  \/ AskActivate(p)

LEMMA AskSteps ==
  ASSUME IdsInv, NEW p \in Organisers, Asks(p)
  PROVE  \E asked \in Asked :
           /\ Begin(p, asked.op) /\ Ask(p, asked)
           /\ asked.op \in {"DELETE", "EDIT"} => \E f \in Drafts : asked.id = f.id
           /\ asked.op = "PUBLISH" => Valid(Drafts) /\ asked.ids = {f.id : f \in Drafts}
<1>0. \A f \in Drafts : f.id \in Nat
  BY DEF IdsInv, TypeOK, Drafts
<1>1. CASE \E list \in Lists : AskGenerate(p, list)
  <2>1. PICK list \in Lists : AskGenerate(p, list)
    BY <1>1
  <2> DEFINE asked == [op |-> "GENERATE", step |-> "DELETE", list |-> list]
  <2>2. asked \in Asked /\ asked.op = "GENERATE" /\ Begin(p, "GENERATE") /\ Ask(p, asked)
    BY <2>1 DEF AskGenerate, Asked
  <2> QED BY <2>2
<1>2. ASSUME NEW round \in ManualRounds, NEW home \in Entries, NEW away \in Entries,
             AskAdd(p, round, home, away)
      PROVE  \E asked \in Asked : asked.op = "ADD" /\ Begin(p, asked.op) /\ Ask(p, asked)
  <2> DEFINE asked == [op |-> "ADD", round |-> round, home |-> home, away |-> away]
  <2>1. asked \in Asked /\ asked.op = "ADD" /\ Begin(p, "ADD") /\ Ask(p, asked)
    BY <1>2 DEF AskAdd, Asked
  <2> QED BY <2>1
<1>3. ASSUME NEW round \in ManualRounds, NEW home \in Entries, NEW away \in Entries,
             NEW f \in Drafts, AskEdit(p, f, round, home, away)
      PROVE  \E asked \in Asked :
               asked.op = "EDIT" /\ Begin(p, asked.op) /\ Ask(p, asked) /\ asked.id = f.id
  <2> DEFINE asked == [op |-> "EDIT", id |-> f.id, round |-> round, home |-> home, away |-> away]
  <2>1. asked \in Asked /\ asked.op = "EDIT" /\ Begin(p, "EDIT") /\ Ask(p, asked) /\ asked.id = f.id
    BY <1>0, <1>3 DEF AskEdit, Asked
  <2> QED BY <2>1
<1>4. CASE \E f \in Drafts : AskDelete(p, f)
  <2>1. PICK f \in Drafts : AskDelete(p, f)
    BY <1>4
  <2> DEFINE asked == [op |-> "DELETE", id |-> f.id]
  <2>2. asked \in Asked /\ asked.op = "DELETE" /\ Begin(p, "DELETE") /\ Ask(p, asked) /\ asked.id = f.id
    BY <1>0, <2>1 DEF AskDelete, Asked
  <2> QED BY <2>2
<1>5. CASE AskPublish(p)
  <2> DEFINE ids == {f.id : f \in Drafts}
             asked == [op |-> "PUBLISH", ids |-> ids]
  <2>1. Drafts \in SUBSET fixtures /\ IsFiniteSet(fixtures)
    BY DEF Drafts, IdsInv, TypeOK
  <2>2. ids \in SUBSET Nat /\ IsFiniteSet(ids)
    BY <1>0, <2>1, FS_Subset, RowsFinite
  <2>3. Begin(p, "PUBLISH") /\ Ask(p, asked) /\ Valid(Drafts)
    BY <1>5 DEF AskPublish
  <2>4. asked \in Asked /\ asked.op = "PUBLISH" /\ asked.ids = ids
    BY <2>2 DEF Asked
  <2> QED BY <2>3, <2>4
<1>6. CASE AskActivate(p)
  <2> DEFINE asked == [op |-> "ACTIVATE"]
  <2>1. asked \in Asked /\ asked.op = "ACTIVATE" /\ Begin(p, "ACTIVATE") /\ Ask(p, asked)
    BY <1>6 DEF AskActivate, Asked
  <2> QED BY <2>1
<1> QED
  BY <1>1, <1>2, <1>3, <1>4, <1>5, <1>6 DEF Asks

(* New rows have ids of their own. *)
LEMMA CreateKeepsIds ==
  ASSUME IdsInv, NEW p \in Organisers, CreateDrafts(p)
  PROVE  /\ IdsInv' /\ Published \subseteq Published'
         /\ \A f \in fixtures' : f \in fixtures \/ f.id \notin Mentioned
         /\ fixtures \subseteq fixtures'
<1> DEFINE plan == Plan(request[p].list)
           ids == NewIds(plan)
<1>0. PICK turned \in TurnedPairs(plan) :
        /\ fixtures' = fixtures \cup NewRows(plan, turned)
        /\ published' = published /\ Answer(p) /\ Doing(p, "GENERATE")
  BY DEF CreateDrafts
<1> DEFINE row(f) == IF Teams(f) \in turned THEN Row(ids[f], f.round, f.away, f.home)
                     ELSE Row(ids[f], f.round, f.home, f.away)
           new == {row(f) : f \in plan}
<1>1. /\ fixtures' = fixtures \cup new
      /\ published' = published /\ Answer(p) /\ Doing(p, "GENERATE")
  BY <1>0 DEF NewRows
<1>2. request[p].list \in Lists
  BY <1>1, RequestTypes DEF IdsInv
<1>3. /\ IsFiniteSet(plan)
      /\ plan \subseteq [round : Nat, position : Nat, home : Entries, away : Entries]
  BY <1>2, PlanFinite DEF Plan
<1>4. /\ ids \in [plan -> Nat \ Mentioned]
      /\ \A f, g \in plan : ids[f] = ids[g] => f = g
  <2> HIDE DEF plan
  <2> QED BY <1>3, NewIdsAreNew DEF IdsInv
<1>5. {f.id : f \in fixtures} \subseteq Mentioned
  BY DEF Mentioned
<1> HIDE DEF plan, ids
<1>6. \A f \in plan : row(f) \in [id : Nat \ Mentioned, round : Nat, home : Entries, away : Entries]
  BY <1>3, <1>4 DEF Row
<1>7. \A f, g \in new : f.id = g.id => f = g
  BY <1>4 DEF Row
<1>8. IsFiniteSet(new)
  <2>1. [f \in plan |-> row(f)] \in Surjection(plan, new)
    BY DEF Surjection
  <2> HIDE DEF new
  <2> QED BY <1>3, <2>1, FS_Surjection
<1>9. \A f \in new : f \in [id : Nat \ Mentioned, round : Nat, home : Entries, away : Entries]
  BY <1>6
<1> HIDE DEF new
<1>10. OneRowAnId'
  BY <1>1, <1>5, <1>7, <1>9 DEF IdsInv, OneRowAnId
<1>11. /\ fixtures' \subseteq [id : Nat, round : Nat, home : Entries, away : Entries]
       /\ published' \subseteq {f.id : f \in fixtures'}
  BY <1>1, <1>9 DEF IdsInv, TypeOK
<1>12. IsFiniteSet(fixtures')
  BY <1>1, <1>8, FS_Union DEF IdsInv, TypeOK
<1>13. IdsInv'
  BY <1>1, <1>10, <1>11, <1>12, AnswerKeepsOrder DEF IdsInv, TypeOK
<1> QED BY <1>1, <1>9, <1>13 DEF Published

LEMMA AddKeepsIds ==
  ASSUME IdsInv, NEW p \in Organisers, Add(p)
  PROVE  /\ IdsInv' /\ Published \subseteq Published'
         /\ \A f \in fixtures' : f \in fixtures \/ f.id \notin Mentioned
         /\ fixtures \subseteq fixtures'
<1> DEFINE new == Row(NewIds({p})[p], request[p].round, request[p].home, request[p].away)
<1>1. /\ fixtures' = fixtures \cup {new}
      /\ published' = published /\ Answer(p) /\ Doing(p, "ADD")
  BY DEF Add
<1>2. NewIds({p})[p] \in Nat \ Mentioned
  <2>1. NewIds({p}) \in [{p} -> Nat \ Mentioned]
    BY FS_Singleton, NewIdsAreNew DEF IdsInv
  <2> QED BY <2>1
<1>3. request[p].round \in Nat /\ request[p].home \in Entries /\ request[p].away \in Entries
  BY <1>1, RequestTypes, RoundsAssumption DEF IdsInv
<1>4. new \in [id : Nat \ Mentioned, round : Nat, home : Entries, away : Entries]
  BY <1>2, <1>3 DEF Row
<1>5. {f.id : f \in fixtures} \subseteq Mentioned
  BY DEF Mentioned
<1> HIDE DEF new
<1>6. OneRowAnId'
  BY <1>1, <1>4, <1>5 DEF IdsInv, OneRowAnId
<1>7. /\ fixtures' \subseteq [id : Nat, round : Nat, home : Entries, away : Entries]
      /\ published' \subseteq {f.id : f \in fixtures'}
  BY <1>1, <1>4 DEF IdsInv, TypeOK
<1>8. IsFiniteSet(fixtures')
  BY <1>1, FS_AddElement DEF IdsInv, TypeOK
<1>9. IdsInv'
  BY <1>1, <1>6, <1>7, <1>8, AnswerKeepsOrder DEF IdsInv, TypeOK
<1> QED BY <1>1, <1>4, <1>9 DEF Published

(* Rows that are cleared away or deleted. *)
LEMMA FewerRows ==
  ASSUME IdsInv, fixtures' \subseteq fixtures
  PROVE  /\ fixtures' \subseteq [id : Nat, round : Nat, home : Entries, away : Entries]
         /\ IsFiniteSet(fixtures') /\ OneRowAnId'
  BY FS_Subset DEF IdsInv, TypeOK, OneRowAnId

LEMMA ClearKeepsIds ==
  ASSUME IdsInv, NEW p \in Organisers, ClearDrafts(p)
  PROVE  /\ IdsInv' /\ Published \subseteq Published' /\ fixtures' \subseteq fixtures
         /\ \A q \in Organisers : Begun(q)' => Begun(q) /\ request'[q].op = request[q].op
         /\ \A q \in Organisers : q # p => request'[q] = request[q]
         /\ request'[p].op = "GENERATE"
<1>1. /\ fixtures' = Published /\ published' = published /\ status' = status
      /\ request' = [request EXCEPT ![p].step = "CREATE"]
      /\ Doing(p, "GENERATE")
  BY DEF ClearDrafts, KeptByGeneration
<1>2. request[p] \in [op : {"GENERATE"}, step : {"DELETE", "CREATE"}, list : Lists]
  BY <1>1, RequestTypes DEF IdsInv
<1>3. /\ request'[p] \in [op : {"GENERATE"}, step : {"DELETE", "CREATE"}, list : Lists]
      /\ \A q \in Organisers : q # p => request'[q] = request[q]
      /\ request' \in [Organisers -> {NONE} \cup Asked]
  BY <1>1, <1>2 DEF IdsInv, TypeOK, Asked
<1>4. \A q \in Organisers : Begun(q)' => Begun(q) /\ request'[q].op = request[q].op
  BY <1>1, <1>2, <1>3 DEF Begun, Doing
<1>5. Overlaps'
  BY <1>4 DEF IdsInv, Overlaps, Begun
<1>6. fixtures' \subseteq fixtures /\ Published \subseteq Published'
      /\ published' \subseteq {f.id : f \in fixtures'}
  BY <1>1 DEF Published, IdsInv, TypeOK
<1> QED BY <1>1, <1>3, <1>4, <1>5, <1>6, FewerRows DEF IdsInv, TypeOK

LEMMA EditKeepsIds ==
  ASSUME IdsInv, NEW p \in Organisers, Edit(p)
  PROVE  IdsInv' /\ (request[p].id \notin published => Published \subseteq Published')
<1> DEFINE new(f) == IF f.id = request[p].id
                     THEN [f EXCEPT !.round = request[p].round,
                                    !.home = request[p].home, !.away = request[p].away]
                     ELSE f
<1>1. /\ fixtures' = {new(f) : f \in fixtures}
      /\ published' = published /\ Answer(p) /\ Doing(p, "EDIT")
  BY DEF Edit
<1>2. request[p].round \in Nat /\ request[p].home \in Entries /\ request[p].away \in Entries
  BY <1>1, RequestTypes, RoundsAssumption DEF IdsInv
<1>3. \A f \in fixtures : f \in [id : Nat, round : Nat, home : Entries, away : Entries]
  BY DEF IdsInv, TypeOK
<1>4. \A f \in fixtures : /\ new(f) \in [id : Nat, round : Nat, home : Entries, away : Entries]
                          /\ new(f).id = f.id
                          /\ f.id # request[p].id => new(f) = f
  BY <1>2, <1>3
<1>5. IsFiniteSet(fixtures')
  <2>1. [f \in fixtures |-> new(f)] \in Surjection(fixtures, fixtures')
    BY <1>1 DEF Surjection
  <2> HIDE DEF new
  <2> QED BY <2>1, FS_Surjection DEF IdsInv, TypeOK
<1> HIDE DEF new
<1>6. /\ fixtures' \subseteq [id : Nat, round : Nat, home : Entries, away : Entries]
      /\ published' \subseteq {f.id : f \in fixtures'}
  <2>1. \A f \in fixtures : new(f) \in fixtures' /\ new(f).id = f.id
    BY <1>1, <1>4
  <2> QED BY <1>1, <1>4, <2>1 DEF IdsInv, TypeOK
<1>7. OneRowAnId'
  BY <1>1, <1>4 DEF IdsInv, OneRowAnId
<1>8. IdsInv'
  BY <1>1, <1>5, <1>6, <1>7, AnswerKeepsOrder DEF IdsInv, TypeOK
<1>9. request[p].id \notin published => Published \subseteq Published'
  BY <1>1, <1>4 DEF Published
<1> QED BY <1>8, <1>9

LEMMA DeleteKeepsIds ==
  ASSUME IdsInv, NEW p \in Organisers, Delete(p)
  PROVE  /\ IdsInv' /\ fixtures' \subseteq fixtures
         /\ request[p].id \notin published => Published \subseteq Published'
<1>1. /\ fixtures' = {f \in fixtures : f.id # request[p].id}
      /\ published' = published \ {request[p].id} /\ Answer(p)
  BY DEF Delete
<1>2. fixtures' \subseteq fixtures /\ published' \subseteq {f.id : f \in fixtures'}
  BY <1>1 DEF IdsInv, TypeOK
<1>3. IdsInv'
  BY <1>1, <1>2, FewerRows, AnswerKeepsOrder DEF IdsInv, TypeOK
<1>4. request[p].id \notin published => Published \subseteq Published'
  BY <1>1 DEF Published
<1> QED BY <1>2, <1>3, <1>4

LEMMA ResetKeepsIds ==
  ASSUME IdsInv, NEW p \in Organisers, Reset(p)
  PROVE  IdsInv' /\ fixtures' \subseteq fixtures /\ Published \subseteq Published'
<1>1. fixtures' = Published /\ UNCHANGED << status, published, request >>
  BY DEF Reset
<1>2. fixtures' \subseteq fixtures /\ published' \subseteq {f.id : f \in fixtures'}
      /\ Published \subseteq Published'
  BY <1>1 DEF IdsInv, TypeOK, Published
<1>3. Overlaps'
  BY <1>1 DEF IdsInv, Overlaps, Begun
<1> QED BY <1>1, <1>2, <1>3, FewerRows DEF IdsInv, TypeOK

LEMMA PublishKeepsIds ==
  ASSUME IdsInv, NEW p \in Organisers, Publish(p)
  PROVE  IdsInv' /\ fixtures' = fixtures /\ published \subseteq published'
<1>1. /\ published' \subseteq published \cup {f.id : f \in fixtures}
      /\ published \subseteq published' /\ fixtures' = fixtures /\ Answer(p)
  BY DEF Publish, PublishedNow
<1>2. published' \subseteq {f.id : f \in fixtures'}
  BY <1>1 DEF IdsInv, TypeOK
<1> QED BY <1>1, <1>2, AnswerKeepsOrder DEF IdsInv, TypeOK, OneRowAnId

LEMMA ActivateKeepsIds ==
  ASSUME IdsInv, NEW p \in Organisers, Activate(p)
  PROVE  /\ IdsInv' /\ UNCHANGED << fixtures, published >>
         /\ request' = [request EXCEPT ![p] = NONE]
<1>1. /\ status' = "ACTIVE" /\ UNCHANGED << fixtures, published >>
      /\ request' = [request EXCEPT ![p] = NONE]
  BY DEF Activate
<1>2. /\ request'[p] = NONE /\ \A q \in Organisers : q # p => request'[q] = request[q]
      /\ request' \in [Organisers -> {NONE} \cup Asked]
  BY <1>1 DEF IdsInv, TypeOK
<1>3. Overlaps'
  BY <1>2 DEF IdsInv, Overlaps, Begun
<1> QED BY <1>1, <1>2, <1>3 DEF IdsInv, TypeOK, OneRowAnId

(* The steps of Next: somebody asks for something or changes something. *)
Changes(p) ==
  \/ ClearDrafts(p) \/ CreateDrafts(p) \/ Add(p) \/ Edit(p)
  \/ Delete(p) \/ Reset(p) \/ Publish(p) \/ Activate(p)

LEMMA PreviewSteps ==
  Next <=> \E p \in Organisers : Asks(p) \/ Changes(p)
  BY DEF Next, Asks, Changes

LEMMA IdsStep ==
  ASSUME IdsInv, [Next]_vars
  PROVE  IdsInv'
<1>1. CASE UNCHANGED vars
  BY <1>1 DEF vars, IdsInv, TypeOK, OneRowAnId, Overlaps, Begun
<1>2. ASSUME NEW p \in Organisers, Asks(p)
      PROVE  IdsInv'
  <2>1. PICK asked \in Asked : Begin(p, asked.op) /\ Ask(p, asked)
    BY <1>2, AskSteps
  <2> QED BY <2>1, AskKeepsIds
<1> QED
  BY <1>1, <1>2, PreviewSteps, ClearKeepsIds, CreateKeepsIds, AddKeepsIds, EditKeepsIds,
     DeleteKeepsIds, ResetKeepsIds, PublishKeepsIds, ActivateKeepsIds
  DEF Changes

LEMMA IdsInvariant == Spec => []IdsInv
<1>1. Init => IdsInv
  BY FS_EmptySet DEF Init, IdsInv, TypeOK, OneRowAnId, Overlaps, Begun
<1> QED
  BY <1>1, IdsStep, PTL DEF Spec
-----------------------------------------------------------------------------
(* Requests and what becomes of them. *)

(* A change by one organiser leaves what the others have asked for alone.  *)
LEMMA RequestsStay ==
  ASSUME IdsInv, NEW p \in Organisers, Changes(p),
         NEW q \in Organisers, NEW op \in {"EDIT", "DELETE", "PUBLISH"}, Doing(q, op)'
  PROVE  Doing(q, op) /\ request'[q] = request[q] /\ (q = p => Reset(p))
<1>1. CASE Answer(p) \/ Activate(p)
  BY <1>1 DEF Answer, Activate, Doing, Begun, IdsInv, TypeOK
<1>2. CASE ClearDrafts(p)
  BY <1>2, ClearKeepsIds DEF Doing
<1>3. CASE Reset(p)
  BY <1>3 DEF Reset, Doing, Begun
<1> QED
  BY <1>1, <1>2, <1>3 DEF Changes, CreateDrafts, Add, Edit, Delete, Publish

(* Nobody works on a row that is published, unless in a race. *)
LEMMA TargetsStep ==
  ASSUME NEW op \in {"EDIT", "DELETE"}, op \notin Racing,
         IdsInv, TargetsAreDrafts(op), [Next]_vars
  PROVE  TargetsAreDrafts(op)'
<1> SUFFICES ASSUME NEW q \in Organisers, Doing(q, op)'
             PROVE  request'[q].id \notin published'
  BY DEF TargetsAreDrafts
<1>1. CASE UNCHANGED vars
  BY <1>1 DEF vars, TargetsAreDrafts, Doing, Begun
<1>2. ASSUME NEW p \in Organisers, Asks(p)
      PROVE  request'[q].id \notin published'
  <2>1. PICK asked \in Asked :
          /\ Ask(p, asked)
          /\ asked.op \in {"DELETE", "EDIT"} => \E f \in Drafts : asked.id = f.id
    BY <1>2, AskSteps
  <2>2. /\ request'[p] = asked /\ \A r \in Organisers : r # p => request'[r] = request[r]
        /\ published' = published
    BY <2>1 DEF Ask, IdsInv, TypeOK
  <2>3. CASE q = p
    BY <2>1, <2>2, <2>3 DEF Doing, Drafts, Published
  <2>4. CASE q # p
    BY <2>2, <2>4 DEF TargetsAreDrafts, Doing, Begun
  <2> QED BY <2>3, <2>4
<1>3. ASSUME NEW p \in Organisers, Changes(p)
      PROVE  request'[q].id \notin published'
  <2>1. Doing(q, op) /\ request'[q] = request[q] /\ (q = p => Reset(p))
    BY <1>3, RequestsStay
  <2>2. ~Publish(p)
    BY <2>1 DEF Publish, Reset, IdsInv, Overlaps, Doing
  <2>3. published' \subseteq published
    BY <1>3, <2>2 DEF Changes, ClearDrafts, CreateDrafts, Add, Edit, Delete, Reset, Activate
  <2> QED BY <2>1, <2>3 DEF TargetsAreDrafts
<1> QED BY <1>1, <1>2, <1>3, PreviewSteps

(* The rows a publication has read stay the rows that were validated, or   *)
(* some of them are gone, as long as none is rewritten.                    *)
LEMMA ReadsKept ==
  ASSUME IdsInv, ReadsStand,
         \A f \in fixtures' : f \in fixtures \/ f.id \notin Mentioned,
         \A q \in Organisers : Doing(q, "PUBLISH")' =>
           Doing(q, "PUBLISH") /\ request'[q] = request[q]
  PROVE  ReadsStand'
<1> SUFFICES ASSUME NEW q \in Organisers, Doing(q, "PUBLISH")',
                    request'[q].ids \subseteq {f.id : f \in {g \in fixtures' : g.id \in request'[q].ids}}
             PROVE  Valid({f \in fixtures' : f.id \in request'[q].ids})
  BY DEF ReadsStand, PublishedNow, Valid
<1> DEFINE ids == request[q].ids
           rows == {f \in fixtures : f.id \in ids}
           later == {f \in fixtures' : f.id \in ids}
<1>1. Doing(q, "PUBLISH") /\ request'[q] = request[q]
  OBVIOUS
<1>2. ids \subseteq {f.id : f \in later}
  BY <1>1
<1>3. ids \subseteq Mentioned
  BY <1>1 DEF Mentioned, IdsRead
<1>4. later \subseteq rows
  BY <1>3
<1>5. rows \subseteq later
  BY <1>2, <1>4 DEF IdsInv, OneRowAnId
<1>6. Valid(rows)
  BY <1>1, <1>2, <1>4 DEF ReadsStand, PublishedNow
<1>7. later = rows
  BY <1>4, <1>5
<1> QED BY <1>1, <1>6, <1>7

(* Who begins a publication has read drafts that are valid. *)
LEMMA AskKeepsReads ==
  ASSUME IdsInv, ReadsStand, NEW p \in Organisers, Asks(p)
  PROVE  ReadsStand'
<1>1. PICK asked \in Asked :
        /\ Begin(p, asked.op) /\ Ask(p, asked)
        /\ asked.op = "PUBLISH" => Valid(Drafts) /\ asked.ids = {f.id : f \in Drafts}
  BY AskSteps
<1>2. /\ request'[p] = asked /\ \A q \in Organisers : q # p => request'[q] = request[q]
      /\ fixtures' = fixtures
  BY <1>1 DEF Ask, IdsInv, TypeOK
<1>3. CASE asked.op # "PUBLISH"
  BY <1>2, <1>3, ReadsKept DEF Doing, Begun
<1>4. CASE asked.op = "PUBLISH"
  <2> SUFFICES ASSUME NEW q \in Organisers, Doing(q, "PUBLISH")',
                      request'[q].ids \subseteq {f.id : f \in {g \in fixtures' : g.id \in request'[q].ids}}
               PROVE  Valid({f \in fixtures' : f.id \in request'[q].ids})
    BY DEF ReadsStand, PublishedNow, Valid
  <2>1. CASE q # p
    BY <1>2, <2>1 DEF ReadsStand, PublishedNow, Doing, Begun
  <2>2. CASE q = p
    <3>1. {f \in fixtures : f.id \in asked.ids} = Drafts
      BY <1>1, <1>4 DEF IdsInv, OneRowAnId, Drafts
    <3> QED BY <1>1, <1>2, <1>4, <2>2, <3>1
  <2> QED BY <2>1, <2>2
<1> QED BY <1>3, <1>4

LEMMA ReadsStep ==
  ASSUME "EDIT" \notin Racing, IdsInv, ReadsStand, [Next]_vars
  PROVE  ReadsStand'
<1>1. CASE UNCHANGED vars
  BY <1>1, ReadsKept DEF vars, Doing, Begun
<1>2. ASSUME NEW p \in Organisers, Edit(p)
      PROVE  ReadsStand'
  <2>1. ASSUME NEW q \in Organisers, Doing(q, "PUBLISH")'
        PROVE  FALSE
    <3>1. Changes(p) /\ Doing(p, "EDIT")
      BY <1>2 DEF Changes, Edit
    <3>2. Doing(q, "PUBLISH")
      BY <2>1, <3>1, RequestsStay
    <3> QED BY <3>1, <3>2 DEF IdsInv, Overlaps, Doing
  <2> QED BY <2>1 DEF ReadsStand
<1>3. ASSUME NEW p \in Organisers, Changes(p), ~Edit(p)
      PROVE  ReadsStand'
  <2>1. \A f \in fixtures' : f \in fixtures \/ f.id \notin Mentioned
    <3>1. CASE Publish(p) \/ Activate(p)
      BY <3>1 DEF Publish, Activate
    <3> QED
      BY <1>3, <3>1, ClearKeepsIds, CreateKeepsIds, AddKeepsIds, DeleteKeepsIds, ResetKeepsIds
      DEF Changes
  <2> QED BY <1>3, <2>1, RequestsStay, ReadsKept
<1> QED BY <1>1, <1>2, <1>3, AskKeepsReads, PreviewSteps

(* Only a publication makes rows official, and then a round robin stands.  *)
LEMMA PublishedTogether ==
  ASSUME IdsInv, ReadsStand, NEW p \in Organisers, Publish(p), Published' \ Published # {}
  PROVE  \E rows \in SUBSET Published' :
           Published' \ Published \subseteq rows /\ RoundRobinOf(rows)
<1> DEFINE ids == request[p].ids
           rows == PublishedNow(ids)
<1>1. /\ fixtures' = fixtures /\ Doing(p, "PUBLISH")
      /\ published' = IF ids \subseteq {f.id : f \in rows}
                      THEN published \cup {f.id : f \in rows} ELSE published
  BY DEF Publish
<1>2. ids \subseteq {f.id : f \in rows}
  BY <1>1 DEF Published
<1>3. Valid(rows)
  BY <1>1, <1>2 DEF ReadsStand
<1>4. rows \subseteq fixtures /\ IsFiniteSet(fixtures)
  BY DEF IdsInv, TypeOK, PublishedNow
<1>5. RoundRobinOf(rows)
  <2> HIDE DEF rows
  <2> QED BY <1>3, <1>4, FS_Subset, ValidatedIsRoundRobin
<1>6. rows \subseteq Published' /\ Published' \ Published \subseteq rows
  BY <1>1, <1>2, <1>4 DEF Published, PublishedNow
<1> HIDE DEF rows
<1> QED BY <1>5, <1>6

LEMMA OnlyPublicationPublishes ==
  ASSUME IdsInv, [Next]_vars, Published' \ Published # {}
  PROVE  \E p \in Organisers :
           Publish(p) \/ (Doing(p, "EDIT") /\ request[p].id \in published)
<1>1. ~ /\ published' \subseteq published
        /\ \A f \in fixtures' : f \in fixtures \/ f.id \notin Mentioned
  <2>1. {f.id : f \in fixtures} \subseteq Mentioned /\ published \subseteq {f.id : f \in fixtures}
    BY DEF Mentioned, IdsInv, TypeOK
  <2> QED BY <2>1 DEF Published
<1>2. CASE UNCHANGED vars
  BY <1>1, <1>2 DEF vars
<1>3. ASSUME NEW p \in Organisers, Asks(p)
      PROVE  FALSE
  <2>1. UNCHANGED << fixtures, published >>
    BY <1>3, AskSteps DEF Ask
  <2> QED BY <1>1, <2>1
<1>4. ASSUME NEW p \in Organisers,
             \/ ClearDrafts(p) \/ CreateDrafts(p) \/ Add(p) \/ Delete(p) \/ Reset(p) \/ Activate(p)
      PROVE  FALSE
  <2>1. published' \subseteq published
    BY <1>4 DEF ClearDrafts, CreateDrafts, Add, Delete, Reset, Activate
  <2> QED
    BY <1>1, <1>4, <2>1, ClearKeepsIds, CreateKeepsIds, AddKeepsIds, DeleteKeepsIds, ResetKeepsIds,
       ActivateKeepsIds
<1>5. ASSUME NEW p \in Organisers, Edit(p), request[p].id \notin published
      PROVE  FALSE
  <2>1. \A f \in fixtures' : f \in fixtures \/ f.id = request[p].id
    <3>1. \A f \in fixtures : f \in [id : Nat, round : Nat, home : Entries, away : Entries]
      BY DEF IdsInv, TypeOK
    <3> QED BY <1>5, <3>1 DEF Edit
  <2> QED BY <1>5, <2>1 DEF Edit, Published
<1> QED BY <1>2, <1>3, <1>4, <1>5, PreviewSteps DEF Changes, Edit

(* What a publication makes official completes a round robin, whatever     *)
(* overlaps with it: unless an edit begun before it ends within it.        *)
THEOREM PublicationsAreRoundRobins ==
  ASSUME "EDIT" \notin Racing
  PROVE  Spec => PublishesRoundRobin
<1>1. Init => ReadsStand
  BY DEF Init, ReadsStand, Doing, Begun
<1>2. IdsInv /\ ReadsStand /\ [Next]_vars => ReadsStand'
  BY ReadsStep
<1>3. /\ Init => TargetsAreDrafts("EDIT")
      /\ IdsInv /\ TargetsAreDrafts("EDIT") /\ [Next]_vars => TargetsAreDrafts("EDIT")'
  BY TargetsStep DEF Init, TargetsAreDrafts, Doing, Begun
<1>4. ASSUME IdsInv, ReadsStand, TargetsAreDrafts("EDIT"), Next,
             Published' \ Published # {}
      PROVE  \E rows \in SUBSET Published' :
               Published' \ Published \subseteq rows /\ RoundRobinOf(rows)
  <2>1. PICK p \in Organisers : Publish(p)
    BY <1>4, OnlyPublicationPublishes DEF TargetsAreDrafts
  <2> QED BY <1>4, <2>1, PublishedTogether
<1>5. IdsInv /\ ReadsStand /\ TargetsAreDrafts("EDIT") /\ [Next]_vars
        => [LET official == Published' \ Published
            IN official # {} => \E rows \in SUBSET Published' :
                                  official \subseteq rows /\ RoundRobinOf(rows)]_vars
  BY <1>4
<1> QED
  BY <1>1, <1>2, <1>3, <1>5, IdsInvariant, PTL DEF Spec, PublishesRoundRobin

(* A published fixture is there for good, unless an edit or a removal of   *)
(* it that began while it was a draft ends after its publication.          *)
THEOREM PublishedFixturesStand ==
  ASSUME {"EDIT", "DELETE"} \cap Racing = {}
  PROVE  Spec => PublishedStand
<1>1. /\ Init => TargetsAreDrafts("EDIT") /\ TargetsAreDrafts("DELETE")
      /\ IdsInv /\ TargetsAreDrafts("EDIT") /\ [Next]_vars => TargetsAreDrafts("EDIT")'
      /\ IdsInv /\ TargetsAreDrafts("DELETE") /\ [Next]_vars => TargetsAreDrafts("DELETE")'
  <2>1. Init => TargetsAreDrafts("EDIT") /\ TargetsAreDrafts("DELETE")
    BY DEF Init, TargetsAreDrafts, Doing, Begun
  <2>2. "EDIT" \notin Racing /\ "DELETE" \notin Racing
    OBVIOUS
  <2> QED BY <2>1, <2>2, TargetsStep
<1>2. ASSUME IdsInv, TargetsAreDrafts("EDIT"), TargetsAreDrafts("DELETE"), Next
      PROVE  Published \subseteq Published'
  <2>1. ASSUME NEW p \in Organisers, Asks(p) \/ Publish(p) \/ Activate(p)
        PROVE  Published \subseteq Published'
    <3>1. fixtures' = fixtures /\ published \subseteq published'
      <4>1. CASE Asks(p)
        BY <1>2, <4>1, AskSteps DEF Ask
      <4> QED BY <1>2, <2>1, <4>1, PublishKeepsIds, ActivateKeepsIds
    <3> QED BY <3>1 DEF Published
  <2>2. ASSUME NEW p \in Organisers, Edit(p) \/ Delete(p)
        PROVE  Published \subseteq Published'
    BY <1>2, <2>2, EditKeepsIds, DeleteKeepsIds DEF Edit, Delete, TargetsAreDrafts
  <2> QED
    BY <1>2, <2>1, <2>2, PreviewSteps, ClearKeepsIds, CreateKeepsIds, AddKeepsIds, ResetKeepsIds
    DEF Changes
<1>3. IdsInv /\ TargetsAreDrafts("EDIT") /\ TargetsAreDrafts("DELETE") /\ [Next]_vars
        => [Published \subseteq Published']_vars
  BY <1>2
<1> QED BY <1>1, <1>3, IdsInvariant, PTL DEF Spec, PublishedStand
=============================================================================
