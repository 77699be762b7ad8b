------------------------------ MODULE MatchDay ------------------------------
(***************************************************************************)
(* When the fixtures of a league are played: scheduling one by hand, the   *)
(* smart schedule, postponing and cancelling (tournaments/fixtures.service)*)
(* and the Ready flags of the sides (matches.service).  Each of them reads *)
(* and checks first and writes afterwards, in a transaction that repeats   *)
(* none of the checks but those of the smart schedule; results arrive in   *)
(* between.                                                                *)
(*                                                                         *)
(* Time is 1 .. Slots * Days, in slots of a day; its passing, and with it  *)
(* the refusal of a time in the past, is left out.                         *)
(***************************************************************************)
EXTENDS Integers, FiniteSets, FiniteSetsExt, Functions

CONSTANTS
  Fixtures,     \* the fixtures, each its sequence
  Home, Away,   \* the registrations of each
  Planned,      \* the matchday each was generated for
  LastOfLeg,    \* roundsPerLeg
  Matchdays,    \* maxMatchday
  Days, Slots,  \* bound: the horizon, and the times of a day
  Duration,     \* matchDurationMinutes, in slots
  SlotSteps,    \* bound: values of slotMinutes asked for, in slots
  DayLimit,     \* dailyMatchLimit
  EntryLimit,   \* matchesPerParticipantPerDay
  Moves,        \* bound: matchdays fixtures are scheduled on
  Callers,      \* bound: sides of fixtures that set their Ready flag
  MaxRequests   \* bound: operations in flight at the same time

ASSUME LimitsAssumption == {Days, Slots, DayLimit, EntryLimit, MaxRequests} \subseteq Nat
ASSUME DurationAssumption == Duration \in Nat \ {0} /\ SlotSteps \subseteq Nat \ {0}
ASSUME FixturesAssumption == Fixtures \subseteq Nat \ {0} /\ IsFiniteSet(Fixtures)
ASSUME BoundsAssumption == Moves \subseteq 1 .. Matchdays /\ Callers \subseteq Fixtures \X {"HOME", "AWAY"}

VARIABLES
  fixture,   \* [Fixtures -> status, scheduledAt (0 for null), matchday]
  match,     \* [Fixtures -> status and sides that are ready of its match]
  requests,  \* operations between their check and their write
  raced      \* for the properties: a write was based on outdated reading

vars == << fixture, match, requests, raced >>

Times == 1 .. Slots * Days
DayOf(t) == (t - 1) \div Slots
FirstOf(day) == day * Slots + 1
Sides == {"HOME", "AWAY"}
Entries(f) == {Home[f], Away[f]}
Leg(day) == IF day <= LastOfLeg THEN 1 ELSE 2
Locked == {"COMPLETED", "CANCELLED"}

(* The generator gives each entry one fixture of a matchday, and each pair *)
(* one of a leg (FixtureGenerator).                                        *)
ASSUME PlanAssumption ==
  /\ Planned \in [Fixtures -> 1 .. Matchdays]
  /\ \A f \in Fixtures : \A o \in Fixtures \ {f} :
       /\ Planned[f] = Planned[o] => Entries(f) \cap Entries(o) = {}
       /\ Leg(Planned[f]) = Leg(Planned[o]) => Entries(f) # Entries(o)

Init ==
  /\ fixture = [f \in Fixtures |-> [status |-> "UNSCHEDULED", at |-> 0, matchday |-> Planned[f]]]
  /\ match = [f \in Fixtures |-> [status |-> "UNSCHEDULED", ready |-> {}]]
  /\ requests = {}
  /\ raced = FALSE

Standing(f) == fixture[f].status # "CANCELLED"
Others(f) == {o \in Fixtures \ {f} : Standing(o)}
OnDay(day) == {f \in Fixtures : fixture[f].at # 0 /\ DayOf(fixture[f].at) = day /\ Standing(f)}
Of(e, fs) == {f \in fs : e \in Entries(f)}

(* Whoever has read before a write of another operation has read outdated  *)
(* fixtures.                                                               *)
Ask(q) ==
  /\ Cardinality(requests) < MaxRequests
  /\ requests' = requests \cup {[outdated |-> FALSE, do |-> q]}
  /\ UNCHANGED << fixture, match, raced >>

Answer(q) == requests' = {[o EXCEPT !.outdated = TRUE] : o \in requests \ {q}}

-----------------------------------------------------------------------------
(* Altered: only the fixtures of the entry at home count. *)
MatchdayFreeAtHome(f, day) ==
  \A o \in Others(f) : fixture[o].matchday = day => Home[f] \notin Entries(o)

(* assertRoundRobinSchedulingIntegrity *)
MatchdayFree(f, day) ==
  \A o \in Others(f) :
    /\ fixture[o].matchday = day => Entries(o) \cap Entries(f) = {}
    /\ Leg(fixture[o].matchday) = Leg(day) => Entries(o) # Entries(f)

DayFree(f, t) ==
  LET others == OnDay(DayOf(t)) \ {f} IN
  /\ Cardinality(others) < DayLimit
  /\ \A e \in Entries(f) : Cardinality(Of(e, others)) < EntryLimit

Overlap(t, u) == t < u + Duration /\ u < t + Duration

TimeFree(f, t) ==
  \A o \in Fixtures \ {f} :
    fixture[o].status = "SCHEDULED" /\ Entries(o) \cap Entries(f) # {}
      => ~Overlap(fixture[o].at, t)

(* scheduleFixture *)
CheckSchedule(f, t, day) ==
  /\ fixture[f].status \notin Locked
  /\ MatchdayFree(f, day) /\ DayFree(f, t) /\ TimeFree(f, t)
  /\ Ask([op |-> "SCHEDULE", fixture |-> f, at |-> t, matchday |-> day])

CheckPostpone(f) ==
  /\ fixture[f].status \notin Locked
  /\ Ask([op |-> "POSTPONE", fixture |-> f])

CheckCancel(f) ==
  /\ fixture[f].status # "COMPLETED"
  /\ Ask([op |-> "CANCEL", fixture |-> f])

(* The match follows its fixture in the same transaction. *)
MatchSet(f, status) == [match EXCEPT ![f] = [status |-> status, ready |-> {}]]

WriteSchedule(q) ==
  /\ q.do.op = "SCHEDULE"
  /\ fixture' = [fixture EXCEPT ![q.do.fixture] =
                   [status |-> "SCHEDULED", at |-> q.do.at, matchday |-> q.do.matchday]]
  /\ match' = MatchSet(q.do.fixture, "SCHEDULED")
  /\ raced' = (raced \/ q.outdated)
  /\ Answer(q)

WritePostpone(q) ==
  /\ q.do.op = "POSTPONE"
  /\ fixture' = [fixture EXCEPT ![q.do.fixture].status = "POSTPONED",
                                ![q.do.fixture].at = 0]
  /\ match' = MatchSet(q.do.fixture, "POSTPONED")
  /\ raced' = (raced \/ q.outdated)
  /\ Answer(q)

WriteCancel(q) ==
  /\ q.do.op = "CANCEL"
  /\ fixture' = [fixture EXCEPT ![q.do.fixture].status = "CANCELLED"]
  /\ match' = MatchSet(q.do.fixture, "CANCELLED")
  /\ raced' = (raced \/ q.outdated)
  /\ Answer(q)

-----------------------------------------------------------------------------
(* smartSchedule goes once through the unscheduled fixtures with a cursor  *)
(* that never turns back: it stays where the day has room for the fixture  *)
(* and both entries, else it moves to the start of the next day.           *)
Unscheduled == {f \in Fixtures : fixture[f].at = 0 /\ fixture[f].status = "UNSCHEDULED"}

(* Altered: the fixtures that have their time already are not counted. *)
RoomAmongPlaced(f, t, placed) ==
  LET there == {g \in DOMAIN placed : DayOf(placed[g]) = DayOf(t)} IN
  /\ Cardinality(there) < DayLimit
  /\ \A e \in Entries(f) : Cardinality(Of(e, there)) < EntryLimit

Room(f, t, placed) ==
  LET there == OnDay(DayOf(t)) \cup {g \in DOMAIN placed : DayOf(placed[g]) = DayOf(t)} IN
  /\ Cardinality(there) < DayLimit
  /\ \A e \in Entries(f) : Cardinality(Of(e, there)) < EntryLimit

Candidates(cursor) == {cursor} \cup {FirstOf(d) : d \in DayOf(cursor) + 1 .. Days - 1}

(* The proposals: each fixture has the first time with room, counting the  *)
(* proposals before it, from where its predecessor left the cursor.        *)
Preview(start, step, at) ==
  \A f \in Unscheduled :
    LET earlier == {g \in Unscheduled : g < f}
        cursor == IF earlier = {} THEN start ELSE at[Max(earlier)] + step
        open == {t \in Candidates(cursor) \cap Times : Room(f, t, Restrict(at, earlier))}
    IN at[f] \in open /\ \A t \in open : at[f] <= t

(* Nothing is applied once a fixture finds no room within the horizon.     *)
CheckSmart(start, step) ==
  /\ Unscheduled # {}
  /\ \E at \in [Unscheduled -> Times] :
       Preview(start, step, at) /\ Ask([op |-> "SMART", at |-> at])

(* Altered: the proposals are written whatever became of the fixtures. *)
InputsUnchecked(at) == TRUE

(* updateMany on fixtures that still have no time; one that fails undoes   *)
(* the whole transaction (SCHEDULE_INPUTS_CHANGED).                        *)
InputsStand(at) ==
  \A f \in DOMAIN at : fixture[f].at = 0 /\ fixture[f].status = "UNSCHEDULED"

WriteSmart(q) ==
  /\ q.do.op = "SMART"
  /\ InputsStand(q.do.at)
  /\ fixture' = [f \in Fixtures |->
                   IF f \in DOMAIN q.do.at
                   THEN [fixture[f] EXCEPT !.status = "SCHEDULED", !.at = q.do.at[f]]
                   ELSE fixture[f]]
  /\ match' = [f \in Fixtures |-> IF f \in DOMAIN q.do.at
                                  THEN [status |-> "SCHEDULED", ready |-> {}] ELSE match[f]]
  /\ raced' = (raced \/ q.outdated)
  /\ Answer(q)

(* A smart schedule that is refused, or any request whose process stops. *)
Refuse(q) ==
  /\ requests' = requests \ {q}
  /\ UNCHANGED << fixture, match, raced >>

-----------------------------------------------------------------------------
(* setReady *)
CheckReady(f, side, ready) ==
  /\ match[f].status \in {"UNSCHEDULED", "SCHEDULED"}
  /\ Ask([op |-> "READY", fixture |-> f, side |-> side, ready |-> ready])

WriteReady(q) ==
  /\ q.do.op = "READY"
  /\ match' = [match EXCEPT ![q.do.fixture].ready =
                 IF q.do.ready THEN @ \cup {q.do.side} ELSE @ \ {q.do.side}]
  /\ raced' = (raced \/ q.outdated)
  /\ requests' = requests \ {q}
  /\ UNCHANGED fixture

(* A result is confirmed, or taken back (results: the modules on results). *)
(* That of a fixture cancelled meanwhile brings the fixture back.          *)
Complete(f) ==
  /\ fixture[f].status # "COMPLETED"
  /\ fixture' = [fixture EXCEPT ![f].status = "COMPLETED"]
  /\ match' = [match EXCEPT ![f].status = "COMPLETED"]
  /\ raced' = (raced \/ fixture[f].status = "CANCELLED")
  /\ requests' = {[o EXCEPT !.outdated = TRUE] : o \in requests}

Reopen(f) ==
  LET status == IF fixture[f].at = 0 THEN "UNSCHEDULED" ELSE "SCHEDULED" IN
  /\ fixture[f].status = "COMPLETED"
  /\ fixture' = [fixture EXCEPT ![f].status = status]
  /\ match' = [match EXCEPT ![f].status = status]
  /\ requests' = {[o EXCEPT !.outdated = TRUE] : o \in requests}
  /\ UNCHANGED raced

-----------------------------------------------------------------------------
Next ==
  \/ \E f \in Fixtures :
       \/ \E t \in Times, day \in Moves : CheckSchedule(f, t, day)
       \/ CheckPostpone(f) \/ CheckCancel(f)
       \/ Complete(f) \/ Reopen(f)
  \/ \E c \in Callers, ready \in BOOLEAN : CheckReady(c[1], c[2], ready)
  \/ \E start \in Times, step \in SlotSteps : CheckSmart(start, step)
  \/ \E q \in requests :
       \/ WriteSchedule(q) \/ WritePostpone(q) \/ WriteCancel(q) \/ WriteSmart(q)
       \/ WriteReady(q) \/ Refuse(q)

Spec == Init /\ [][Next]_vars

-----------------------------------------------------------------------------
Statuses == {"UNSCHEDULED", "SCHEDULED", "POSTPONED", "CANCELLED", "COMPLETED"}

Asked ==
  [op : {"SCHEDULE"}, fixture : Fixtures, at : Times, matchday : Moves]
    \cup [op : {"POSTPONE", "CANCEL"}, fixture : Fixtures]
    \cup [op : {"READY"}, fixture : Fixtures, side : Sides, ready : BOOLEAN]
    \cup [op : {"SMART"}, at : UNION {[fs -> Times] : fs \in SUBSET Fixtures}]

(* A scheduled fixture has a time, a postponed one and one that was never  *)
(* scheduled have none, and the match is always in step with its fixture,  *)
(* in whatever order the writes of several operations land.                *)
TypeOK ==
  /\ fixture \in [Fixtures -> [status : Statuses, at : Times \cup {0}, matchday : 1 .. Matchdays]]
  /\ match \in [Fixtures -> [status : Statuses, ready : SUBSET Sides]]
  /\ requests \subseteq [outdated : BOOLEAN, do : Asked]
  /\ IsFiniteSet(requests) /\ Cardinality(requests) <= MaxRequests
  /\ raced \in BOOLEAN
  /\ \A f \in Fixtures :
       /\ match[f].status = fixture[f].status
       /\ fixture[f].status = "SCHEDULED" => fixture[f].at # 0
       /\ fixture[f].status \in {"UNSCHEDULED", "POSTPONED"} => fixture[f].at = 0

(* Unless two operations crossed, no day has more matches than the limit   *)
(* and nobody plays more than theirs, whether the times come from the      *)
(* admin or from the smart schedule, and through postponing, cancelling,   *)
(* results and reversals.                                                  *)
DayLimitsHold ==
  ~raced => \A day \in 0 .. Days - 1 :
    /\ Cardinality(OnDay(day)) <= DayLimit
    /\ \A f \in Fixtures : \A e \in Entries(f) : Cardinality(Of(e, OnDay(day))) <= EntryLimit

(* Unless two operations crossed, moving fixtures between matchdays never  *)
(* leaves an entry with two fixtures on a matchday, nor a pair with two    *)
(* fixtures in a leg.                                                      *)
MatchdaysProper ==
  ~raced => \A f \in Fixtures : Standing(f) => \A o \in Others(f) :
    /\ fixture[f].matchday = fixture[o].matchday => Entries(f) \cap Entries(o) = {}
    /\ Leg(fixture[f].matchday) = Leg(fixture[o].matchday) => Entries(f) # Entries(o)

(* Unless two operations crossed, nobody is ready for a match that was     *)
(* called off.                                                             *)
CalledOffNotReady ==
  ~raced => \A f \in Fixtures : match[f].status \in {"POSTPONED", "CANCELLED"} =>
    match[f].ready = {}

(* However the operations cross, a smart schedule is written whole or not  *)
(* at all, and never moves a fixture that got its time, or was postponed,  *)
(* cancelled or played, after the preview.                                 *)
SmartNeverMoves ==
  [][\A q \in requests : WriteSmart(q) =>
       \A f \in Fixtures : fixture[f].status # "UNSCHEDULED" => fixture'[f] = fixture[f]]_vars
=============================================================================
