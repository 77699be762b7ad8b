-------------------------- MODULE MatchDay_proofs --------------------------
(***************************************************************************)
(* Proofs about MatchDay.  The argument: what an operation has checked     *)
(* still holds when it writes, unless another one wrote in between; and    *)
(* then the write is a race, which the properties leave aside.             *)
(***************************************************************************)
EXTENDS MatchDay, FiniteSetTheorems, WellFoundedInduction, TLAPS

(* What the check of an operation has established. *)
CheckHolds(d) ==
  /\ d.op = "SCHEDULE" =>
       /\ fixture[d.fixture].status \notin Locked
       /\ MatchdayFree(d.fixture, d.matchday) /\ DayFree(d.fixture, d.at)
  /\ d.op = "POSTPONE" => fixture[d.fixture].status \notin Locked
  /\ d.op = "CANCEL" => fixture[d.fixture].status # "COMPLETED"
  /\ d.op = "SMART" =>
       /\ DOMAIN d.at = Unscheduled
       /\ \A f \in DOMAIN d.at : Room(f, d.at[f], Restrict(d.at, {g \in DOMAIN d.at : g < f}))
  /\ d.op = "READY" => match[d.fixture].status \in {"UNSCHEDULED", "SCHEDULED"}

ChecksHold == \A q \in requests : ~q.outdated => CheckHolds(q.do)

DayInv ==
  /\ TypeOK /\ ChecksHold
  /\ DayLimitsHold /\ MatchdaysProper /\ CalledOffNotReady

-----------------------------------------------------------------------------
(* Lemmas on sets of fixtures. *)

(* A finite set of numbers has a greatest one. *)
LEMMA GreatestExists ==
  ASSUME NEW S \in SUBSET Nat, IsFiniteSet(S), S # {}
  PROVE  \E n \in S : \A m \in S : m <= n
<1> DEFINE Greater(n) == {m \in S : m > n}
           T == {Greater(n) : n \in S}
<1>1. T \subseteq FiniteSubsetsOf(S) /\ T # {}
  <2>1. \A V \in SUBSET S : V \in FiniteSubsetsOf(S)
    BY FS_Subset DEF FiniteSubsetsOf
  <2>2. \A n \in S : Greater(n) \in SUBSET S
    OBVIOUS
  <2> QED BY <2>1, <2>2
<1>2. PICK U \in T : \A V \in T : <<V, U>> \notin StrictSubsetOrdering(S)
  <2> HIDE DEF T
  <2> QED BY <1>1, FS_StrictSubsetOrderingWellFounded, WFMin
<1>3. PICK n \in S : U = Greater(n)
  BY <1>2
<1>4. ASSUME NEW m \in S, m > n PROVE FALSE
  <2>1. \A k \in S : k > m => k > n
    <3>1. \A k \in S : k \in Nat
      OBVIOUS
    <3> QED BY <1>4, <3>1
  <2>2. Greater(m) \subseteq Greater(n) /\ m \in Greater(n) /\ m \notin Greater(m)
    <3>1. m \in Nat /\ ~(m > m)
      OBVIOUS
    <3> QED BY <1>4, <2>1, <3>1
  <2>3. Greater(m) \in SUBSET S /\ Greater(n) \in SUBSET S /\ Greater(m) \in T
    OBVIOUS
  <2> HIDE DEF Greater, T
  <2> QED BY <1>2, <1>3, <2>2, <2>3 DEF StrictSubsetOrdering
<1>5. \A m \in S : m \in Nat /\ n \in Nat
  OBVIOUS
<1> QED BY <1>4, <1>5

LEMMA FixturesFinite ==
  ASSUME NEW S \in SUBSET Fixtures
  PROVE  S \in SUBSET Nat /\ IsFiniteSet(S) /\ Cardinality(S) \in Nat
BY FixturesAssumption, FS_Subset, FS_CardinalityType

(* One more than fewer than n is at most n. *)
LEMMA OneMore ==
  ASSUME NEW S \in SUBSET Fixtures, NEW f \in Fixtures, NEW T \in SUBSET (S \cup {f}),
         NEW n \in Nat, Cardinality(S) < n
  PROVE  Cardinality(T) <= n
<1>1. IsFiniteSet(S) /\ Cardinality(S) \in Nat /\ IsFiniteSet(T) /\ Cardinality(T) \in Nat
  <2>1. T \in SUBSET Fixtures
    OBVIOUS
  <2> QED BY <2>1, FixturesFinite
<1>2. Cardinality(S \cup {f}) <= Cardinality(S) + 1 /\ IsFiniteSet(S \cup {f})
      /\ Cardinality(S \cup {f}) \in Nat
  <2>1. /\ IsFiniteSet(S \cup {f})
        /\ Cardinality(S \cup {f}) = IF f \in S THEN Cardinality(S) ELSE Cardinality(S) + 1
    BY <1>1, FS_AddElement
  <2> QED BY <1>1, <2>1
<1>3. Cardinality(T) <= Cardinality(S \cup {f})
  BY <1>2, FS_Subset
<1> QED BY <1>1, <1>2, <1>3

(* The limits of a day on which S is played, and room for f beside S. *)
Limits(S) ==
  /\ Cardinality(S) <= DayLimit
  /\ \A f \in Fixtures : \A e \in Entries(f) : Cardinality(Of(e, S)) <= EntryLimit

Fits(f, S) ==
  /\ Cardinality(S) < DayLimit
  /\ \A e \in Entries(f) : Cardinality(Of(e, S)) < EntryLimit

LEMMA LimitsOfFewer ==
  ASSUME NEW S \in SUBSET Fixtures, Limits(S), NEW T \in SUBSET S
  PROVE  Limits(T)
<1>1. IsFiniteSet(S) /\ Cardinality(S) \in Nat /\ Cardinality(T) \in Nat
  <2>1. T \in SUBSET Fixtures
    OBVIOUS
  <2> QED BY <2>1, FixturesFinite
<1>2. Cardinality(T) <= DayLimit
  BY <1>1, FS_Subset, LimitsAssumption DEF Limits
<1>3. ASSUME NEW f \in Fixtures, NEW e \in Entries(f)
      PROVE  Cardinality(Of(e, T)) <= EntryLimit
  <2>1. Of(e, S) \in SUBSET Fixtures /\ Of(e, T) \in SUBSET Fixtures /\ Of(e, T) \in SUBSET Of(e, S)
    BY DEF Of
  <2>2. Cardinality(Of(e, T)) <= Cardinality(Of(e, S)) /\ Cardinality(Of(e, S)) \in Nat
        /\ Cardinality(Of(e, T)) \in Nat
    BY <2>1, FixturesFinite, FS_Subset
  <2>3. Cardinality(Of(e, S)) <= EntryLimit
    BY <1>3 DEF Limits
  <2> QED BY <2>2, <2>3, LimitsAssumption
<1> QED BY <1>2, <1>3 DEF Limits

(* Fixtures that each find room beside those before them keep the limits. *)
LEMMA LimitsOfMore ==
  ASSUME NEW old \in SUBSET Fixtures, Limits(old), NEW new \in SUBSET Fixtures,
         \A f \in new : Fits(f, (old \cup {g \in new : g < f}) \ {f})
  PROVE  Limits(old \cup new)
<1> DEFINE Before(f) == (old \cup {g \in new : g < f}) \ {f}
<1>1. Cardinality(old \cup new) <= DayLimit
  <2>1. CASE new = {}
    <3>1. old \cup new = old
      BY <2>1
    <3> QED BY <3>1 DEF Limits
  <2>2. CASE new # {}
    <3>1. PICK f \in new : \A g \in new : g <= f
      BY <2>2, FixturesFinite, GreatestExists
    <3>2. \A g \in new : g \in Nat
      BY FixturesFinite
    <3>3. old \cup new \in SUBSET (Before(f) \cup {f})
      BY <3>1, <3>2
    <3>4. Before(f) \in SUBSET Fixtures /\ Cardinality(Before(f)) < DayLimit
      BY DEF Fits
    <3> HIDE DEF Before
    <3> QED BY <3>3, <3>4, OneMore, LimitsAssumption
  <2> QED BY <2>1, <2>2
<1>2. ASSUME NEW h \in Fixtures, NEW e \in Entries(h)
      PROVE  Cardinality(Of(e, old \cup new)) <= EntryLimit
  <2> DEFINE mine == Of(e, new)
  <2>1. CASE mine = {}
    <3>1. Of(e, old \cup new) = Of(e, old)
      BY <2>1 DEF Of
    <3> QED BY <3>1 DEF Limits
  <2>2. CASE mine # {}
    <3>1. mine \in SUBSET Fixtures
      BY DEF Of
    <3> HIDE DEF mine
    <3>2. PICK f \in mine : \A g \in mine : g <= f
      BY <2>2, <3>1, FixturesFinite, GreatestExists
    <3>3. f \in new /\ e \in Entries(f)
      BY <3>2 DEF mine, Of
    <3>4. \A g \in mine : g \in Nat
      BY <3>1, FixturesFinite
    <3>5. Of(e, old \cup new) \in SUBSET (Of(e, Before(f)) \cup {f})
      BY <3>2, <3>4 DEF mine, Of
    <3>6. Of(e, Before(f)) \in SUBSET Fixtures /\ Cardinality(Of(e, Before(f))) < EntryLimit
      BY <3>3 DEF Fits, Of
    <3> HIDE DEF Before
    <3> QED BY <3>3, <3>5, <3>6, OneMore, LimitsAssumption
  <2> QED BY <2>1, <2>2
<1> QED BY <1>1, <1>2 DEF Limits

-----------------------------------------------------------------------------
(* The requests in flight. *)

(* What a check has established depends on the fixtures and the status of  *)
(* their matches only.                                                     *)
LEMMA ChecksDepend ==
  ASSUME TypeOK, NEW d \in Asked, fixture' = fixture,
         \A f \in Fixtures : match'[f].status = match[f].status
  PROVE  CheckHolds(d) => CheckHolds(d)'
<1>1. /\ Unscheduled' = Unscheduled
      /\ \A f \in Fixtures, day \in Moves : MatchdayFree(f, day)' = MatchdayFree(f, day)
      /\ \A f, t : DayFree(f, t)' = DayFree(f, t)
      /\ \A f, t, placed : Room(f, t, placed)' = Room(f, t, placed)
  BY DEF Unscheduled, MatchdayFree, Others, Standing, DayFree, Room, OnDay, Of
<1>2. d.op = "READY" => d.fixture \in Fixtures
  BY DEF Asked
<1>3. d.op = "SCHEDULE" => d.fixture \in Fixtures /\ d.matchday \in Moves
  BY DEF Asked
<1> QED BY <1>1, <1>2, <1>3 DEF CheckHolds

LEMMA AskRequests ==
  ASSUME TypeOK, ChecksHold, NEW d \in Asked, Ask(d), CheckHolds(d)
  PROVE  /\ requests' \subseteq [outdated : BOOLEAN, do : Asked]
         /\ IsFiniteSet(requests') /\ Cardinality(requests') <= MaxRequests
         /\ ChecksHold'
<1> DEFINE q == [outdated |-> FALSE, do |-> d]
<1>1. requests' = requests \cup {q} /\ fixture' = fixture /\ match' = match
      /\ Cardinality(requests) < MaxRequests
  BY DEF Ask
<1>2. IsFiniteSet(requests) /\ Cardinality(requests) \in Nat
  BY FS_CardinalityType DEF TypeOK
<1>3. IsFiniteSet(requests') /\ Cardinality(requests') <= Cardinality(requests) + 1
      /\ Cardinality(requests') \in Nat
  <2>1. /\ IsFiniteSet(requests \cup {q})
        /\ Cardinality(requests \cup {q}) =
             IF q \in requests THEN Cardinality(requests) ELSE Cardinality(requests) + 1
    <3> HIDE DEF q
    <3> QED BY <1>2, FS_AddElement
  <2> HIDE DEF q
  <2> QED BY <1>1, <1>2, <2>1
<1>4. Cardinality(requests') <= MaxRequests
  BY <1>1, <1>2, <1>3, LimitsAssumption
<1>5. \A r \in requests' : r.do \in Asked /\ (~r.outdated => CheckHolds(r.do))
  BY <1>1 DEF TypeOK, ChecksHold
<1>6. ChecksHold'
  BY <1>1, <1>5, ChecksDepend DEF ChecksHold
<1>7. q \in [outdated : BOOLEAN, do : Asked]
  OBVIOUS
<1> QED BY <1>1, <1>3, <1>4, <1>6, <1>7 DEF TypeOK

(* After a write every check that is left is outdated. *)
LEMMA OutdatedRequests ==
  ASSUME TypeOK, NEW S \in SUBSET requests,
         requests' = {[o EXCEPT !.outdated = TRUE] : o \in S}
  PROVE  /\ requests' \subseteq [outdated : BOOLEAN, do : Asked]
         /\ IsFiniteSet(requests') /\ Cardinality(requests') <= MaxRequests
         /\ ChecksHold'
<1> DEFINE late == [o \in S |-> [o EXCEPT !.outdated = TRUE]]
<1>1. IsFiniteSet(S) /\ Cardinality(S) <= Cardinality(requests)
      /\ Cardinality(S) \in Nat /\ Cardinality(requests) \in Nat
  BY FS_Subset, FS_CardinalityType DEF TypeOK
<1>2. late \in Surjection(S, requests')
  BY DEF Surjection
<1>3. IsFiniteSet(requests') /\ Cardinality(requests') <= Cardinality(S)
  <2> HIDE DEF late
  <2> QED BY <1>1, <1>2, FS_Surjection
<1>4. Cardinality(requests') \in Nat
  BY <1>3, FS_CardinalityType
<1>5. \A r \in requests' : r \in [outdated : BOOLEAN, do : Asked] /\ r.outdated
  <2>1. \A o \in S : o \in [outdated : BOOLEAN, do : Asked]
    BY DEF TypeOK
  <2>2. \A o \in [outdated : BOOLEAN, do : Asked] :
          /\ [o EXCEPT !.outdated = TRUE] \in [outdated : BOOLEAN, do : Asked]
          /\ [o EXCEPT !.outdated = TRUE].outdated
    OBVIOUS
  <2> QED BY <2>1, <2>2
<1>6. Cardinality(requests') <= MaxRequests
  BY <1>1, <1>3, <1>4, LimitsAssumption DEF TypeOK
<1> QED BY <1>3, <1>5, <1>6 DEF ChecksHold

(* A request that is dropped, or whose write other checks do not see. *)
LEMMA FewerRequests ==
  ASSUME TypeOK, ChecksHold, NEW q, requests' = requests \ {q}, fixture' = fixture,
         \A f \in Fixtures : match'[f].status = match[f].status
  PROVE  /\ requests' \subseteq [outdated : BOOLEAN, do : Asked]
         /\ IsFiniteSet(requests') /\ Cardinality(requests') <= MaxRequests
         /\ ChecksHold'
<1>1. IsFiniteSet(requests') /\ Cardinality(requests') <= Cardinality(requests)
      /\ Cardinality(requests') \in Nat /\ Cardinality(requests) \in Nat
  BY FS_Subset, FS_CardinalityType DEF TypeOK
<1>2. \A r \in requests' : r.do \in Asked /\ (~r.outdated => CheckHolds(r.do))
  BY DEF TypeOK, ChecksHold
<1>3. ChecksHold'
  BY <1>2, ChecksDepend DEF ChecksHold
<1> QED BY <1>1, <1>3, LimitsAssumption DEF TypeOK

-----------------------------------------------------------------------------
(* The steps. *)

(* The properties of days and matchdays stand where no fixture comes to a  *)
(* day, none comes back and none changes its matchday.                     *)
LEMMA CalendarKept ==
  ASSUME TypeOK, DayLimitsHold, MatchdaysProper,
         raced => raced',
         ~raced' => \A day : OnDay(day)' \subseteq OnDay(day),
         ~raced' => \A f \in Fixtures : fixture'[f].matchday = fixture[f].matchday
                                       /\ (Standing(f)' => Standing(f))
  PROVE  DayLimitsHold' /\ MatchdaysProper'
<1>1. \A day : OnDay(day) \in SUBSET Fixtures /\ OnDay(day)' \in SUBSET Fixtures
  BY DEF OnDay
<1>2. ASSUME ~raced', NEW day \in 0 .. Days - 1 PROVE Limits(OnDay(day)')
  <2>1. Limits(OnDay(day)) /\ OnDay(day)' \in SUBSET OnDay(day)
    BY <1>2 DEF DayLimitsHold, Limits
  <2> QED BY <1>1, <2>1, LimitsOfFewer
<1>3. DayLimitsHold'
  BY <1>2 DEF DayLimitsHold, Limits, Of
<1>4. MatchdaysProper'
  <2>1. ASSUME ~raced', NEW f \in Fixtures, Standing(f)', NEW o \in Others(f)'
        PROVE  /\ fixture'[f].matchday = fixture'[o].matchday => Entries(f) \cap Entries(o) = {}
               /\ Leg(fixture'[f].matchday) = Leg(fixture'[o].matchday) => Entries(f) # Entries(o)
    <3>1. o \in Fixtures /\ o # f /\ Standing(o)'
      BY <2>1 DEF Others, Standing
    <3>2. Standing(f) /\ o \in Others(f)
      BY <2>1, <3>1 DEF Others, Standing
    <3>3. fixture'[f].matchday = fixture[f].matchday /\ fixture'[o].matchday = fixture[o].matchday
      BY <2>1, <3>1 DEF Standing
    <3> QED BY <2>1, <3>2, <3>3 DEF MatchdaysProper
  <2> QED BY <2>1 DEF MatchdaysProper
<1> QED BY <1>3, <1>4

LEMMA DayInit == Init => DayInv
<1> SUFFICES ASSUME Init PROVE DayInv
  OBVIOUS
<1>1. \A f \in Fixtures : /\ fixture[f].status = "UNSCHEDULED" /\ fixture[f].at = 0
                          /\ fixture[f].matchday = Planned[f]
                          /\ match[f].status = "UNSCHEDULED" /\ match[f].ready = {}
  BY DEF Init
<1>2. TypeOK
  <2>1. IsFiniteSet(requests) /\ Cardinality(requests) <= MaxRequests
    BY FS_EmptySet, LimitsAssumption DEF Init
  <2> QED BY <1>1, <2>1, PlanAssumption DEF Init, TypeOK, Statuses
<1>3. DayLimitsHold
  <2>1. \A day : OnDay(day) = {}
    BY <1>1 DEF OnDay
  <2>2. \A e : Of(e, {}) = {}
    BY DEF Of
  <2> QED BY <2>1, <2>2, FS_EmptySet, LimitsAssumption DEF DayLimitsHold
<1>4. MatchdaysProper
  <2>1. \A f \in Fixtures : fixture[f].matchday = Planned[f] /\ Others(f) \subseteq Fixtures \ {f}
    BY <1>1 DEF Others
  <2> QED BY <2>1, PlanAssumption DEF MatchdaysProper
<1>5. CalledOffNotReady /\ ChecksHold
  BY <1>1 DEF CalledOffNotReady, ChecksHold, Init
<1> QED BY <1>2, <1>3, <1>4, <1>5 DEF DayInv

LEMMA AskStep ==
  ASSUME DayInv, NEW d \in Asked, Ask(d), CheckHolds(d)
  PROVE  DayInv'
<1>1. UNCHANGED << fixture, match, raced >>
  BY DEF Ask
<1>2. DayLimitsHold' /\ MatchdaysProper'
  BY <1>1, CalendarKept DEF DayInv, OnDay, Standing
<1> QED BY <1>1, <1>2, AskRequests DEF DayInv, TypeOK, CalledOffNotReady

LEMMA ScheduleStep ==
  ASSUME DayInv, NEW q \in requests, WriteSchedule(q)
  PROVE  DayInv'
<1> DEFINE f == q.do.fixture
           t == q.do.at
           day == q.do.matchday
<1>1. /\ f \in Fixtures /\ t \in Times /\ day \in Moves /\ q.outdated \in BOOLEAN
      /\ q.do.op = "SCHEDULE" /\ t # 0
  BY DEF DayInv, TypeOK, Asked, WriteSchedule, Times
<1>2. /\ fixture'[f] = [status |-> "SCHEDULED", at |-> t, matchday |-> day]
      /\ match'[f] = [status |-> "SCHEDULED", ready |-> {}]
      /\ \A o \in Fixtures \ {f} : fixture'[o] = fixture[o] /\ match'[o] = match[o]
  BY <1>1 DEF WriteSchedule, MatchSet, DayInv, TypeOK
<1>3. ~raced' => /\ ~raced /\ fixture[f].status \notin Locked
                 /\ MatchdayFree(f, day) /\ DayFree(f, t)
  BY <1>1 DEF WriteSchedule, DayInv, ChecksHold, CheckHolds
<1>4. TypeOK' /\ ChecksHold'
  <2>1. fixture' \in [Fixtures -> [status : Statuses, at : Times \cup {0}, matchday : 1 .. Matchdays]]
    BY <1>1, BoundsAssumption DEF WriteSchedule, DayInv, TypeOK, Statuses
  <2>2. match' \in [Fixtures -> [status : Statuses, ready : SUBSET Sides]] /\ raced' \in BOOLEAN
    BY <1>1 DEF WriteSchedule, MatchSet, DayInv, TypeOK, Statuses
  <2>3. \A g \in Fixtures :
          /\ match'[g].status = fixture'[g].status
          /\ fixture'[g].status = "SCHEDULED" => fixture'[g].at # 0
          /\ fixture'[g].status \in {"UNSCHEDULED", "POSTPONED"} => fixture'[g].at = 0
    BY <1>1, <1>2 DEF DayInv, TypeOK
  <2>4. /\ requests' \subseteq [outdated : BOOLEAN, do : Asked]
        /\ IsFiniteSet(requests') /\ Cardinality(requests') <= MaxRequests
        /\ ChecksHold'
    <3>1. requests' = {[o EXCEPT !.outdated = TRUE] : o \in requests \ {q}}
      BY DEF WriteSchedule, Answer
    <3> QED BY <3>1, OutdatedRequests DEF DayInv
  <2> QED BY <2>1, <2>2, <2>3, <2>4 DEF TypeOK
<1>5. DayLimitsHold'
  <2>1. ASSUME ~raced', NEW d \in 0 .. Days - 1 PROVE Limits(OnDay(d)')
    <3>1. Limits(OnDay(d)) /\ OnDay(d) \in SUBSET Fixtures /\ OnDay(d)' \in SUBSET Fixtures
      BY <1>3, <2>1 DEF DayInv, DayLimitsHold, Limits, OnDay
    <3>2. CASE d = DayOf(t)
      <4>1. Fits(f, (OnDay(d) \cup {g \in {f} : g < f}) \ {f})
        <5>1. (OnDay(d) \cup {g \in {f} : g < f}) \ {f} = OnDay(d) \ {f}
          OBVIOUS
        <5> QED BY <1>3, <2>1, <3>2, <5>1 DEF DayFree, Fits
      <4>2. Limits(OnDay(d) \cup {f})
        <5>1. {f} \in SUBSET Fixtures
          BY <1>1
        <5> QED BY <3>1, <4>1, <5>1, LimitsOfMore
      <4>3. OnDay(d)' \subseteq OnDay(d) \cup {f}
        BY <1>2 DEF OnDay, Standing
      <4>4. OnDay(d) \cup {f} \in SUBSET Fixtures
        BY <1>1, <3>1
      <4> HIDE DEF f, t
      <4> QED BY <4>2, <4>3, <4>4, LimitsOfFewer
    <3>3. CASE d # DayOf(t)
      <4>1. OnDay(d)' \subseteq OnDay(d)
        BY <1>1, <1>2, <3>3 DEF OnDay, Standing
      <4> QED BY <3>1, <4>1, LimitsOfFewer
    <3> QED BY <3>2, <3>3
  <2> QED BY <2>1 DEF DayLimitsHold, Limits, Of
<1>6. MatchdaysProper'
  <2>1. ASSUME ~raced', NEW g \in Fixtures, Standing(g)', NEW o \in Others(g)'
        PROVE  /\ fixture'[g].matchday = fixture'[o].matchday => Entries(g) \cap Entries(o) = {}
               /\ Leg(fixture'[g].matchday) = Leg(fixture'[o].matchday) => Entries(g) # Entries(o)
    <3>1. o \in Fixtures /\ o # g /\ fixture'[o].status # "CANCELLED"
      BY <2>1 DEF Others, Standing
    <3>2. fixture[f].status # "CANCELLED"
      BY <1>3, <2>1 DEF Locked
    <3>3. CASE g = f
      <4>1. o \in Others(f)
        BY <1>2, <3>1, <3>3 DEF Others, Standing
      <4> QED BY <1>2, <1>3, <2>1, <3>1, <3>3, <4>1 DEF MatchdayFree
    <3>4. CASE o = f
      <4>1. g \in Others(f)
        BY <1>2, <2>1, <3>1, <3>4 DEF Others, Standing
      <4> QED BY <1>2, <1>3, <2>1, <3>1, <3>4, <4>1 DEF MatchdayFree
    <3>5. CASE g # f /\ o # f
      BY <1>2, <1>3, <2>1, <3>1, <3>5 DEF DayInv, MatchdaysProper, Others, Standing
    <3> QED BY <3>3, <3>4, <3>5
  <2> QED BY <2>1 DEF MatchdaysProper
<1>7. CalledOffNotReady'
  BY <1>2, <1>3 DEF DayInv, CalledOffNotReady
<1> QED BY <1>4, <1>5, <1>6, <1>7 DEF DayInv

(* A write that sets the status of a fixture, and may take its time away.  *)
(* Postponing, cancelling, confirming a result and taking it back.         *)
SetsStatus(f, status, at, ready) ==
  /\ fixture' = [fixture EXCEPT ![f] = [status |-> status, at |-> at, matchday |-> @.matchday]]
  /\ match' = [match EXCEPT ![f] = [status |-> status, ready |-> ready]]

Outdated(S) == requests' = {[o EXCEPT !.outdated = TRUE] : o \in S}

LEMMA StatusStep ==
  ASSUME DayInv, NEW f \in Fixtures, NEW status, NEW at, NEW ready,
         SetsStatus(f, status, at, ready),
         status \in Statuses, at \in {0, fixture[f].at}, ready \in SUBSET Sides,
         status = "SCHEDULED" => at # 0,
         status \in {"UNSCHEDULED", "POSTPONED"} => at = 0,
         raced' \in BOOLEAN,
         raced => raced',
         ~raced' => /\ status # "CANCELLED" => fixture[f].status # "CANCELLED"
                    /\ status \in {"POSTPONED", "CANCELLED"} => ready = {},
         NEW S, S \in SUBSET requests, Outdated(S)
  PROVE  DayInv'
<1>1. /\ fixture'[f] = [status |-> status, at |-> at, matchday |-> fixture[f].matchday]
      /\ match'[f] = [status |-> status, ready |-> ready]
      /\ \A o \in Fixtures \ {f} : fixture'[o] = fixture[o] /\ match'[o] = match[o]
  BY DEF DayInv, TypeOK, SetsStatus
<1>2. TypeOK' /\ ChecksHold'
  <2>1. at \in Times \cup {0} /\ fixture[f].matchday \in 1 .. Matchdays
    BY DEF DayInv, TypeOK
  <2>2. fixture' \in [Fixtures -> [status : Statuses, at : Times \cup {0}, matchday : 1 .. Matchdays]]
        /\ match' \in [Fixtures -> [status : Statuses, ready : SUBSET Sides]]
    BY <2>1 DEF DayInv, TypeOK, SetsStatus
  <2>3. \A g \in Fixtures :
          /\ match'[g].status = fixture'[g].status
          /\ fixture'[g].status = "SCHEDULED" => fixture'[g].at # 0
          /\ fixture'[g].status \in {"UNSCHEDULED", "POSTPONED"} => fixture'[g].at = 0
    BY <1>1 DEF DayInv, TypeOK
  <2>4. /\ requests' \subseteq [outdated : BOOLEAN, do : Asked]
        /\ IsFiniteSet(requests') /\ Cardinality(requests') <= MaxRequests
        /\ ChecksHold'
    BY OutdatedRequests DEF DayInv, Outdated
  <2> QED BY <2>2, <2>3, <2>4 DEF TypeOK
<1>3. DayLimitsHold' /\ MatchdaysProper'
  <2>1. ASSUME ~raced'
        PROVE  /\ \A g \in Fixtures : /\ fixture'[g].matchday = fixture[g].matchday
                                      /\ Standing(g)' => Standing(g)
               /\ \A day : OnDay(day)' \subseteq OnDay(day)
    <3>1. \A g \in Fixtures : /\ fixture'[g].matchday = fixture[g].matchday
                              /\ Standing(g)' => Standing(g)
                              /\ fixture'[g].at # 0 => fixture'[g].at = fixture[g].at
      BY <1>1, <2>1 DEF Standing
    <3>2. \A day : OnDay(day)' \subseteq OnDay(day)
      BY <3>1 DEF OnDay, Standing
    <3> QED BY <3>1, <3>2
  <2> QED BY <2>1, CalendarKept DEF DayInv
<1>4. CalledOffNotReady'
  BY <1>1 DEF DayInv, CalledOffNotReady
<1> QED BY <1>2, <1>3, <1>4 DEF DayInv

(* The writes of the model in this form. *)
LEMMA Updates ==
  ASSUME TypeOK, NEW f \in Fixtures, NEW s
  PROVE  /\ [fixture EXCEPT ![f].status = s] =
              [fixture EXCEPT ![f] = [status |-> s, at |-> fixture[f].at, matchday |-> @.matchday]]
         /\ [fixture EXCEPT ![f].status = s, ![f].at = 0] =
              [fixture EXCEPT ![f] = [status |-> s, at |-> 0, matchday |-> @.matchday]]
         /\ [match EXCEPT ![f].status = s] =
              [match EXCEPT ![f] = [status |-> s, ready |-> match[f].ready]]
<1>1. PICK u, at, day : fixture[f] = [status |-> u, at |-> at, matchday |-> day]
  BY DEF TypeOK
<1>2. PICK v, ready : match[f] = [status |-> v, ready |-> ready]
  BY DEF TypeOK
<1>3. fixture \in [Fixtures -> [status : Statuses, at : Times \cup {0}, matchday : 1 .. Matchdays]]
      /\ match \in [Fixtures -> [status : Statuses, ready : SUBSET Sides]]
  BY DEF TypeOK
<1>4. /\ [[status |-> u, at |-> at, matchday |-> day] EXCEPT !.status = s] =
            [status |-> s, at |-> at, matchday |-> day]
      /\ [[status |-> s, at |-> at, matchday |-> day] EXCEPT !.at = 0] =
            [status |-> s, at |-> 0, matchday |-> day]
      /\ [[status |-> v, ready |-> ready] EXCEPT !.status = s] = [status |-> s, ready |-> ready]
  OBVIOUS
<1> DEFINE timed == [fixture EXCEPT ![f] = [status |-> s, at |-> at, matchday |-> day]]
<1>5. [fixture EXCEPT ![f].status = s] = timed
  BY <1>1, <1>4
<1>6. [timed EXCEPT ![f].at = 0] = [fixture EXCEPT ![f] = [status |-> s, at |-> 0, matchday |-> day]]
  <2>1. timed[f] = [status |-> s, at |-> at, matchday |-> day]
    BY <1>3
  <2> QED BY <1>4, <2>1
<1>7. [match EXCEPT ![f].status = s] = [match EXCEPT ![f] = [status |-> s, ready |-> ready]]
  BY <1>2, <1>4
<1>8. [fixture EXCEPT ![f].status = s, ![f].at = 0] = [timed EXCEPT ![f].at = 0]
  BY <1>5
<1> QED BY <1>1, <1>2, <1>5, <1>6, <1>7, <1>8

LEMMA PostponeStep ==
  ASSUME DayInv, NEW q \in requests, WritePostpone(q)
  PROVE  DayInv'
<1> DEFINE f == q.do.fixture
<1>1. f \in Fixtures /\ q.outdated \in BOOLEAN /\ q.do.op = "POSTPONE"
  BY DEF DayInv, TypeOK, Asked, WritePostpone
<1>2. SetsStatus(f, "POSTPONED", 0, {})
  <2> HIDE DEF f
  <2> QED BY <1>1, Updates DEF WritePostpone, MatchSet, DayInv, SetsStatus, f
<1>3. raced' \in BOOLEAN /\ (raced => raced') /\ (~raced' => fixture[f].status # "CANCELLED")
  BY <1>1 DEF WritePostpone, DayInv, TypeOK, ChecksHold, CheckHolds, Locked
<1>4. Outdated(requests \ {q})
  BY DEF WritePostpone, Answer, Outdated
<1>5. "POSTPONED" \in Statuses
  BY DEF Statuses
<1> HIDE DEF f
<1> QED BY <1>1, <1>2, <1>3, <1>4, <1>5, StatusStep

LEMMA CancelStep ==
  ASSUME DayInv, NEW q \in requests, WriteCancel(q)
  PROVE  DayInv'
<1> DEFINE f == q.do.fixture
<1>1. f \in Fixtures /\ q.outdated \in BOOLEAN /\ q.do.op = "CANCEL"
  BY DEF DayInv, TypeOK, Asked, WriteCancel
<1>2. SetsStatus(f, "CANCELLED", fixture[f].at, {})
  BY <1>1, Updates DEF WriteCancel, MatchSet, DayInv, SetsStatus
<1>3. raced' \in BOOLEAN /\ (raced => raced')
  BY <1>1 DEF WriteCancel, DayInv, TypeOK
<1>4. Outdated(requests \ {q})
  BY DEF WriteCancel, Answer, Outdated
<1>5. "CANCELLED" \in Statuses
  BY DEF Statuses
<1> HIDE DEF f
<1> QED BY <1>1, <1>2, <1>3, <1>4, <1>5, StatusStep

LEMMA ResultStep ==
  ASSUME DayInv, NEW f \in Fixtures, Complete(f) \/ Reopen(f)
  PROVE  DayInv'
<1>1. Outdated(requests)
  BY DEF Complete, Reopen, Outdated
<1>2. match[f].ready \in SUBSET Sides
  BY DEF DayInv, TypeOK
<1>3. CASE Complete(f)
  <2>1. SetsStatus(f, "COMPLETED", fixture[f].at, match[f].ready)
    BY <1>3, Updates DEF Complete, DayInv, SetsStatus
  <2>2. raced' \in BOOLEAN /\ (raced => raced') /\ (~raced' => fixture[f].status # "CANCELLED")
    BY <1>3 DEF Complete, DayInv, TypeOK
  <2>3. "COMPLETED" \in Statuses
    BY DEF Statuses
  <2> QED BY <1>1, <1>2, <2>1, <2>2, <2>3, StatusStep
<1>4. CASE Reopen(f)
  <2> DEFINE status == IF fixture[f].at = 0 THEN "UNSCHEDULED" ELSE "SCHEDULED"
  <2>1. SetsStatus(f, status, fixture[f].at, match[f].ready)
    BY <1>4, Updates DEF Reopen, DayInv, SetsStatus
  <2>2. raced' \in BOOLEAN /\ (raced => raced') /\ fixture[f].status = "COMPLETED"
    BY <1>4 DEF Reopen, DayInv, TypeOK
  <2>3. /\ status \in Statuses
        /\ status = "SCHEDULED" => fixture[f].at # 0
        /\ status = "UNSCHEDULED" => fixture[f].at = 0
        /\ status \notin {"POSTPONED", "CANCELLED"}
    BY DEF Statuses
  <2> HIDE DEF status
  <2> QED BY <1>1, <1>2, <2>1, <2>2, <2>3, StatusStep
<1> QED BY <1>3, <1>4

(* The smart schedule: the fixtures it places had no time, and each found  *)
(* room beside those of the day and those placed before it.                *)
LEMMA SmartStep ==
  ASSUME DayInv, NEW q \in requests, WriteSmart(q)
  PROVE  DayInv'
<1> DEFINE at == q.do.at
           P == DOMAIN at
           new(d) == {f \in P : DayOf(at[f]) = d}
<1>1. P \in SUBSET Fixtures /\ at \in [P -> Times] /\ q.outdated \in BOOLEAN /\ q.do.op = "SMART"
  <2>1. q.do \in Asked /\ q.outdated \in BOOLEAN /\ q.do.op = "SMART"
    BY DEF DayInv, TypeOK, WriteSmart
  <2>2. at \in UNION {[fs -> Times] : fs \in SUBSET Fixtures}
    BY <2>1 DEF Asked
  <2>3. PICK fs \in SUBSET Fixtures : at \in [fs -> Times]
    BY <2>2
  <2> QED BY <2>1, <2>3
<1>2. \A f \in P : at[f] # 0 /\ fixture[f].at = 0 /\ fixture[f].status = "UNSCHEDULED"
  <2>1. 0 \notin Times
    BY DEF Times
  <2>2. \A f \in P : at[f] \in Times
    BY <1>1
  <2> QED BY <2>1, <2>2 DEF WriteSmart, InputsStand
<1>3. /\ \A f \in P : /\ fixture'[f].status = "SCHEDULED" /\ fixture'[f].at = at[f]
                     /\ fixture'[f].matchday = fixture[f].matchday
                     /\ match'[f] = [status |-> "SCHEDULED", ready |-> {}]
      /\ \A f \in Fixtures \ P : fixture'[f] = fixture[f] /\ match'[f] = match[f]
  BY <1>1 DEF WriteSmart, DayInv, TypeOK
<1>4. TypeOK' /\ ChecksHold'
  <2>1. fixture' \in [Fixtures -> [status : Statuses, at : Times \cup {0}, matchday : 1 .. Matchdays]]
    <3> DEFINE Row == [status : Statuses, at : Times \cup {0}, matchday : 1 .. Matchdays]
               row(f) == IF f \in P THEN [fixture[f] EXCEPT !.status = "SCHEDULED", !.at = at[f]]
                         ELSE fixture[f]
    <3>1. fixture' = [f \in Fixtures |-> row(f)]
      BY DEF WriteSmart
    <3>2. ASSUME NEW f \in Fixtures PROVE row(f) \in Row
      <4>1. fixture[f] \in Row /\ "SCHEDULED" \in Statuses
        BY DEF DayInv, TypeOK, Statuses
      <4>2. f \in P => at[f] \in Times
        BY <1>1
      <4> HIDE DEF P, at
      <4> QED BY <4>1, <4>2
    <3> HIDE DEF Row, row
    <3>3. fixture' \in [Fixtures -> Row]
      BY <3>1, <3>2
    <3> QED BY <3>3 DEF Row
  <2>2. match' \in [Fixtures -> [status : Statuses, ready : SUBSET Sides]] /\ raced' \in BOOLEAN
    BY <1>1 DEF WriteSmart, DayInv, TypeOK, Statuses
  <2>3. \A g \in Fixtures :
          /\ match'[g].status = fixture'[g].status
          /\ fixture'[g].status = "SCHEDULED" => fixture'[g].at # 0
          /\ fixture'[g].status \in {"UNSCHEDULED", "POSTPONED"} => fixture'[g].at = 0
    BY <1>1, <1>2, <1>3 DEF DayInv, TypeOK
  <2>4. /\ requests' \subseteq [outdated : BOOLEAN, do : Asked]
        /\ IsFiniteSet(requests') /\ Cardinality(requests') <= MaxRequests
        /\ ChecksHold'
    <3>1. requests' = {[o EXCEPT !.outdated = TRUE] : o \in requests \ {q}}
      BY DEF WriteSmart, Answer
    <3> QED BY <3>1, OutdatedRequests DEF DayInv
  <2> QED BY <2>1, <2>2, <2>3, <2>4 DEF TypeOK
<1>5. ~raced' => /\ ~raced
                 /\ \A f \in P : Room(f, at[f], Restrict(at, {g \in P : g < f}))
  BY <1>1 DEF WriteSmart, DayInv, ChecksHold, CheckHolds
<1>6. DayLimitsHold'
  <2>1. ASSUME ~raced', NEW d \in 0 .. Days - 1 PROVE Limits(OnDay(d)')
    <3>1. Limits(OnDay(d)) /\ OnDay(d) \in SUBSET Fixtures /\ new(d) \in SUBSET Fixtures
      BY <1>1, <1>5, <2>1 DEF DayInv, DayLimitsHold, Limits, OnDay
    <3>2. \A f \in P : f \notin OnDay(d)
      BY <1>2 DEF OnDay
    <3>3. ASSUME NEW f \in new(d)
          PROVE  Fits(f, (OnDay(d) \cup {g \in new(d) : g < f}) \ {f})
      <4> DEFINE before == {g \in P : g < f}
                 there == OnDay(d) \cup {g \in DOMAIN Restrict(at, before) : DayOf(Restrict(at, before)[g]) = d}
      <4>1. Room(f, at[f], Restrict(at, before)) /\ DayOf(at[f]) = d
        BY <1>5, <2>1, <3>3
      <4>2. Fits(f, there)
        BY <4>1 DEF Room, Fits
      <4>3. ~(f < f)
        <5>1. f \in Nat
          BY <1>1, <3>3, FixturesAssumption
        <5> QED BY <5>1
      <4>4. there = (OnDay(d) \cup {g \in new(d) : g < f}) \ {f}
        BY <3>2, <3>3, <4>3 DEF Restrict
      <4> QED BY <4>2, <4>4
    <3>4. OnDay(d)' = OnDay(d) \cup new(d)
      BY <1>1, <1>2, <1>3 DEF OnDay, Standing
    <3> HIDE DEF new
    <3> QED BY <3>1, <3>3, <3>4, LimitsOfMore
  <2> QED BY <2>1 DEF DayLimitsHold, Limits, Of
<1>7. MatchdaysProper'
  <2>1. \A f \in Fixtures : fixture'[f].matchday = fixture[f].matchday
                          /\ (fixture'[f].status = "CANCELLED" <=> fixture[f].status = "CANCELLED")
    BY <1>2, <1>3
  <2>2. \A f \in Fixtures : (Standing(f)' <=> Standing(f)) /\ Others(f)' = Others(f)
    BY <2>1 DEF Standing, Others
  <2>3. \A f \in Fixtures : Others(f) \subseteq Fixtures
    BY DEF Others
  <2> QED BY <1>5, <2>1, <2>2, <2>3 DEF DayInv, MatchdaysProper
<1>8. CalledOffNotReady'
  BY <1>3, <1>5 DEF DayInv, CalledOffNotReady
<1> QED BY <1>4, <1>6, <1>7, <1>8 DEF DayInv

LEMMA ReadyStep ==
  ASSUME DayInv, NEW q \in requests, WriteReady(q)
  PROVE  DayInv'
<1> DEFINE f == q.do.fixture
           ready == IF q.do.ready THEN match[f].ready \cup {q.do.side} ELSE match[f].ready \ {q.do.side}
<1>1. /\ f \in Fixtures /\ q.do.side \in Sides /\ q.outdated \in BOOLEAN
      /\ q.do.op = "READY" /\ match[f].ready \in SUBSET Sides
  BY DEF DayInv, TypeOK, Asked, WriteReady
<1>2. fixture' = fixture /\ requests' = requests \ {q}
      /\ match' = [match EXCEPT ![f].ready = ready]
  BY DEF WriteReady
<1>3. ready \in SUBSET Sides
  BY <1>1
<1>4. /\ match' \in [Fixtures -> [status : Statuses, ready : SUBSET Sides]]
      /\ \A g \in Fixtures : match'[g].status = match[g].status
      /\ \A g \in Fixtures \ {f} : match'[g] = match[g]
  <2> HIDE DEF f, ready
  <2> QED BY <1>1, <1>2, <1>3 DEF DayInv, TypeOK
<1>5. raced' \in BOOLEAN /\ (raced => raced')
      /\ (~raced' => match[f].status \in {"UNSCHEDULED", "SCHEDULED"})
  BY <1>1 DEF WriteReady, DayInv, TypeOK, ChecksHold, CheckHolds
<1>6. TypeOK' /\ ChecksHold'
  <2>1. /\ requests' \subseteq [outdated : BOOLEAN, do : Asked]
        /\ IsFiniteSet(requests') /\ Cardinality(requests') <= MaxRequests
        /\ ChecksHold'
    BY <1>2, <1>4, FewerRequests DEF DayInv
  <2> QED BY <1>2, <1>4, <1>5, <2>1 DEF DayInv, TypeOK
<1>7. DayLimitsHold' /\ MatchdaysProper'
  BY <1>2, <1>5, CalendarKept DEF DayInv, OnDay, Standing
<1>8. CalledOffNotReady'
  BY <1>4, <1>5 DEF DayInv, CalledOffNotReady
<1> QED BY <1>6, <1>7, <1>8 DEF DayInv

LEMMA RefuseStep ==
  ASSUME DayInv, NEW q \in requests, Refuse(q)
  PROVE  DayInv'
<1>1. UNCHANGED << fixture, match, raced >> /\ requests' = requests \ {q}
  BY DEF Refuse
<1>2. DayLimitsHold' /\ MatchdaysProper'
  BY <1>1, CalendarKept DEF DayInv, OnDay, Standing
<1>3. /\ requests' \subseteq [outdated : BOOLEAN, do : Asked]
      /\ IsFiniteSet(requests') /\ Cardinality(requests') <= MaxRequests
      /\ ChecksHold'
  BY <1>1, FewerRequests DEF DayInv
<1> QED BY <1>1, <1>2, <1>3 DEF DayInv, TypeOK, CalledOffNotReady

LEMMA SmartAsk ==
  ASSUME DayInv, NEW start, NEW step, CheckSmart(start, step)
  PROVE  DayInv'
<1>1. PICK at \in [Unscheduled -> Times] :
        Preview(start, step, at) /\ Ask([op |-> "SMART", at |-> at])
  BY DEF CheckSmart
<1> DEFINE d == [op |-> "SMART", at |-> at]
<1>2. Unscheduled \in SUBSET Fixtures /\ DOMAIN at = Unscheduled
  BY DEF Unscheduled
<1>3. d \in Asked
  <2>1. at \in UNION {[fs -> Times] : fs \in SUBSET Fixtures}
    BY <1>2
  <2> QED BY <2>1 DEF Asked
<1>4. \A f \in Unscheduled : Room(f, at[f], Restrict(at, {g \in Unscheduled : g < f}))
  BY <1>1 DEF Preview
<1>5. CheckHolds(d)
  BY <1>2, <1>4 DEF CheckHolds
<1> HIDE DEF d
<1>6. Ask(d)
  BY <1>1 DEF d
<1> QED BY <1>3, <1>5, <1>6, AskStep

LEMMA DayStep == DayInv /\ [Next]_vars => DayInv'
<1> SUFFICES ASSUME DayInv, [Next]_vars PROVE DayInv'
  OBVIOUS
<1>1. ASSUME NEW f \in Fixtures, NEW t \in Times, NEW day \in Moves, CheckSchedule(f, t, day)
      PROVE  DayInv'
  <2> DEFINE d == [op |-> "SCHEDULE", fixture |-> f, at |-> t, matchday |-> day]
  <2>1. d \in Asked /\ CheckHolds(d) /\ Ask(d)
    BY <1>1 DEF CheckSchedule, Asked, CheckHolds
  <2> HIDE DEF d
  <2> QED BY <2>1, AskStep
<1>2. ASSUME NEW f \in Fixtures, CheckPostpone(f) PROVE DayInv'
  <2> DEFINE d == [op |-> "POSTPONE", fixture |-> f]
  <2>1. d \in Asked /\ CheckHolds(d) /\ Ask(d)
    BY <1>2 DEF CheckPostpone, Asked, CheckHolds
  <2> HIDE DEF d
  <2> QED BY <2>1, AskStep
<1>3. ASSUME NEW f \in Fixtures, CheckCancel(f) PROVE DayInv'
  <2> DEFINE d == [op |-> "CANCEL", fixture |-> f]
  <2>1. d \in Asked /\ CheckHolds(d) /\ Ask(d)
    BY <1>3 DEF CheckCancel, Asked, CheckHolds
  <2> HIDE DEF d
  <2> QED BY <2>1, AskStep
<1>4. ASSUME NEW c \in Callers, NEW ready \in BOOLEAN, CheckReady(c[1], c[2], ready) PROVE DayInv'
  <2> DEFINE d == [op |-> "READY", fixture |-> c[1], side |-> c[2], ready |-> ready]
  <2>1. c[1] \in Fixtures /\ c[2] \in Sides
    BY BoundsAssumption DEF Sides
  <2>2. d \in Asked /\ CheckHolds(d) /\ Ask(d)
    BY <1>4, <2>1 DEF CheckReady, Asked, CheckHolds
  <2> HIDE DEF d
  <2> QED BY <2>2, AskStep
<1>5. ASSUME NEW f \in Fixtures, Complete(f) \/ Reopen(f) PROVE DayInv'
  BY <1>5, ResultStep
<1>6. ASSUME NEW start, NEW step, CheckSmart(start, step) PROVE DayInv'
  BY <1>6, SmartAsk
<1>7. ASSUME NEW q \in requests,
             WriteSchedule(q) \/ WritePostpone(q) \/ WriteCancel(q) \/ WriteSmart(q)
               \/ WriteReady(q) \/ Refuse(q)
      PROVE  DayInv'
  BY <1>7, ScheduleStep, PostponeStep, CancelStep, SmartStep, ReadyStep, RefuseStep
<1>8. CASE UNCHANGED vars
  <2>1. UNCHANGED << fixture, match, raced, requests >>
    BY <1>8 DEF vars
  <2>2. DayLimitsHold' /\ MatchdaysProper'
    BY <2>1, CalendarKept DEF DayInv, OnDay, Standing
  <2>3. \A q \in requests : q.do \in Asked /\ (~q.outdated => CheckHolds(q.do))
    BY DEF DayInv, TypeOK, ChecksHold
  <2>4. ChecksHold'
    BY <2>1, <2>3, ChecksDepend DEF DayInv, ChecksHold
  <2> QED BY <2>1, <2>2, <2>4 DEF DayInv, TypeOK, CalledOffNotReady
<1> QED BY <1>1, <1>2, <1>3, <1>4, <1>5, <1>6, <1>7, <1>8 DEF Next

-----------------------------------------------------------------------------
(* The invariant in every state. *)
THEOREM DayInvariant == Spec => []DayInv
BY DayInit, DayStep, PTL DEF Spec

(* A fixture has a time exactly as its status says, and its match is in    *)
(* step with it, whatever the operations race for.                         *)
THEOREM MatchesInStep == Spec => []TypeOK
<1>1. DayInv => TypeOK
  BY DEF DayInv
<1> QED BY <1>1, DayInvariant, PTL

(* For any fixtures, horizon and limits: as long as no two operations      *)
(* crossed, no day is fuller than its limits, neither by hand nor by the   *)
(* smart schedule.                                                         *)
THEOREM DaysStayWithinLimits == Spec => []DayLimitsHold
<1>1. DayInv => DayLimitsHold
  BY DEF DayInv
<1> QED BY <1>1, DayInvariant, PTL

(* As long as no two operations crossed, rescheduling keeps the matchdays  *)
(* as the generator made them: one fixture each, one meeting a leg.        *)
THEOREM MatchdaysStayProper == Spec => []MatchdaysProper
<1>1. DayInv => MatchdaysProper
  BY DEF DayInv
<1> QED BY <1>1, DayInvariant, PTL

(* As long as no two operations crossed, a match that is postponed or      *)
(* cancelled has nobody waiting for it.                                    *)
THEOREM NobodyReadyForCalledOff == Spec => []CalledOffNotReady
<1>1. DayInv => CalledOffNotReady
  BY DEF DayInv
<1> QED BY <1>1, DayInvariant, PTL

(* However operations cross, what a smart schedule writes leaves every     *)
(* fixture alone that got a time, or was postponed, cancelled or played.   *)
THEOREM SmartScheduleMovesNothing == Spec => SmartNeverMoves
<1>1. ASSUME TypeOK, [Next]_vars
      PROVE  \A q \in requests : WriteSmart(q) =>
               \A f \in Fixtures : fixture[f].status # "UNSCHEDULED" => fixture'[f] = fixture[f]
  <2>1. ASSUME NEW q \in requests, WriteSmart(q), NEW f \in Fixtures, fixture[f].status # "UNSCHEDULED"
        PROVE  fixture'[f] = fixture[f]
    <3>1. f \notin DOMAIN q.do.at
      BY <2>1 DEF WriteSmart, InputsStand
    <3> QED BY <2>1, <3>1 DEF WriteSmart
  <2> QED BY <2>1
<1> QED BY <1>1, MatchesInStep, PTL DEF Spec, SmartNeverMoves
=============================================================================
