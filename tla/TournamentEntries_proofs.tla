---------------------- MODULE TournamentEntries_proofs ----------------------
(***************************************************************************)
(* For any number of entries, any capacity and any number of operations in *)
(* flight: the capacity holds, no name or player is entered twice, and the *)
(* fixtures are a proper round robin of the entries approved when they     *)
(* were made.                                                              *)
(***************************************************************************)
EXTENDS TournamentEntries, FixtureGenerator_proofs, FiniteSetTheorems

(* What a request holds. *)
RequestOK(q) ==
  /\ q.op \in {"REGISTER", "REJECT", "DELETE"} => q.entry \in Entries
  /\ q.op = "CREATE" => /\ q.batch \in SUBSET Entries
                        /\ \A e, o \in q.batch : Name[e] = Name[o] => e = o
  /\ q.op = "GENERATE" => Lineup(q.order, Entries)

RequestsOK == IsFiniteSet(requests) /\ \A q \in requests : RequestOK(q)

EntriesInv == TypeOK /\ RequestsOK /\ CapacityHeld /\ PlacesDistinct /\ PlanProper

-----------------------------------------------------------------------------
(* Requests come one at a time, and go. *)
LEMMA AskRequests ==
  ASSUME EntriesInv, NEW q, Ask(q), RequestOK(q)
  PROVE  RequestsOK' /\ Cardinality(requests') <= MaxRequests
<1>1. IsFiniteSet(requests) /\ Cardinality(requests) \in Nat
  BY FS_CardinalityType DEF EntriesInv, RequestsOK
<1>2. /\ IsFiniteSet(requests')
      /\ Cardinality(requests') <= Cardinality(requests) + 1
  BY <1>1, FS_AddElement DEF Ask
<1>3. Cardinality(requests') \in Nat
  BY <1>2, FS_CardinalityType
<1>4. Cardinality(requests') <= MaxRequests
  BY <1>1, <1>2, <1>3, MaxRequestsAssumption DEF Ask
<1>5. RequestsOK'
  BY <1>2 DEF RequestsOK, EntriesInv, Ask, RequestOK
<1> QED
  BY <1>4, <1>5

LEMMA DoneRequests ==
  ASSUME EntriesInv, NEW q, requests' = requests \ {q}
  PROVE  RequestsOK' /\ Cardinality(requests') <= MaxRequests
<1>1. IsFiniteSet(requests) /\ Cardinality(requests) \in Nat
      /\ Cardinality(requests) <= MaxRequests
  BY FS_CardinalityType DEF EntriesInv, RequestsOK, TypeOK
<1>2. requests' \in SUBSET requests
  OBVIOUS
<1>3. IsFiniteSet(requests') /\ Cardinality(requests') <= Cardinality(requests)
  BY <1>1, <1>2, FS_Subset
<1>4. Cardinality(requests') \in Nat
  BY <1>3, FS_CardinalityType
<1>5. Cardinality(requests') <= MaxRequests
  BY <1>1, <1>3, <1>4, MaxRequestsAssumption
<1>6. RequestsOK'
  BY <1>2, <1>3 DEF RequestsOK, EntriesInv, RequestOK
<1> QED
  BY <1>5, <1>6

(* The entries of any status are finitely many. *)
LEMMA WithFinite ==
  ASSUME NEW states
  PROVE  IsFiniteSet(With(states)) /\ Cardinality(With(states)) \in Nat
<1>1. With(states) \in SUBSET Entries
  BY DEF With
<1> QED
  BY <1>1, EntriesAssumption, FS_Subset, FS_CardinalityType

(* Capacity survives when no entry but e becomes approved and a place was  *)
(* left for it.                                                            *)
LEMMA CapacityOfOne ==
  ASSUME NEW e, Approved' \subseteq Approved \cup {e}, PlaceLeft
  PROVE  CapacityHeld'
<1>1. IsFiniteSet(Approved) /\ Cardinality(Approved) \in Nat
  BY WithFinite DEF Approved
<1>2. /\ IsFiniteSet(Approved \cup {e})
      /\ Cardinality(Approved \cup {e}) <= Cardinality(Approved) + 1
      /\ Cardinality(Approved \cup {e}) \in Nat
  BY <1>1, FS_AddElement, FS_CardinalityType
<1>3. Cardinality(Approved') <= Cardinality(Approved \cup {e}) /\ Cardinality(Approved') \in Nat
  BY <1>2, FS_Subset, FS_CardinalityType
<1> QED
  BY <1>1, <1>2, <1>3, CapacityAssumption DEF PlaceLeft, CapacityHeld

LEMMA CapacityOfNone ==
  ASSUME Approved' \subseteq Approved, CapacityHeld
  PROVE  CapacityHeld'
<1>1. IsFiniteSet(Approved) /\ Cardinality(Approved) \in Nat
  BY WithFinite DEF Approved
<1>2. Cardinality(Approved') <= Cardinality(Approved) /\ Cardinality(Approved') \in Nat
  BY <1>1, FS_Subset, FS_CardinalityType
<1> QED
  BY <1>1, <1>2, CapacityAssumption DEF CapacityHeld

LEMMA CapacityOfBatch ==
  ASSUME NEW batch \in SUBSET Entries, Approved' \subseteq Live \cup batch,
         Cardinality(Live) + Cardinality(batch) <= MaxEntries
  PROVE  CapacityHeld'
<1>1. IsFiniteSet(Live) /\ Cardinality(Live) \in Nat
  BY WithFinite DEF Live
<1>2. IsFiniteSet(batch) /\ Cardinality(batch) \in Nat
  BY EntriesAssumption, FS_Subset, FS_CardinalityType
<1>3. /\ IsFiniteSet(Live \cup batch)
      /\ Cardinality(Live \cup batch)
           = Cardinality(Live) + Cardinality(batch) - Cardinality(Live \cap batch)
  BY <1>1, <1>2, FS_Union
<1>4. IsFiniteSet(Live \cap batch) /\ Cardinality(Live \cap batch) \in Nat
  <2>1. Live \cap batch \in SUBSET batch
    OBVIOUS
  <2> QED
    BY <1>2, <2>1, FS_Subset, FS_CardinalityType
<1>5. /\ Cardinality(Approved') <= Cardinality(Live \cup batch)
      /\ Cardinality(Approved') \in Nat /\ Cardinality(Live \cup batch) \in Nat
  BY <1>3, FS_Subset, FS_CardinalityType
<1> QED
  BY <1>1, <1>2, <1>3, <1>4, <1>5, CapacityAssumption DEF CapacityHeld

-----------------------------------------------------------------------------
(* A list of the approved entries is a lineup of the generator. *)
LEMMA OrderIsLineup ==
  ASSUME NEW order \in SetToSeqs(Approved), Cardinality(Approved) >= 2
  PROVE  Lineup(order, Entries)
<1>1. Cardinality(Approved) \in Nat /\ Approved \subseteq Entries
  BY WithFinite DEF Approved, With
<1>2. /\ order \in [1 .. Cardinality(Approved) -> Approved]
      /\ \A i, j \in 1 .. Cardinality(Approved) : i # j => order[i] # order[j]
  BY DEF SetToSeqs
<1>3. order \in Seq(Entries) /\ Len(order) = Cardinality(Approved)
  BY <1>1, <1>2
<1> QED
  BY <1>2, <1>3 DEF Lineup

(* What is generated is proper and made of the entries listed. *)
LEMMA ScheduleProper ==
  ASSUME NEW order, Lineup(order, Entries)
  PROVE  /\ \A f, g \in Schedule(order) : f # g =>
              /\ f.round = g.round => {f.home, f.away} \cap {g.home, g.away} = {}
              /\ ~ Meets(g, f.home, f.away)
              /\ Legs = 1 => ~ Meets(g, f.away, f.home)
         /\ \A f \in Schedule(order) :
              f.home \in Range(order) /\ f.away \in Range(order)
<1>1. order \in Seq(Entries) /\ Range(order) = {order[i] : i \in 1 .. Len(order)}
  BY DEF Lineup, Range
<1>2. CASE Legs = 2
  BY <1>1, <1>2, DoubleRoundRobinProper DEF Schedule
<1>3. CASE Legs = 1
  <2>1. Schedule(order) = RoundRobin(order)
    BY <1>3 DEF Schedule
  <2>2. ASSUME NEW f \in RoundRobin(order), NEW g \in RoundRobin(order), f # g
        PROVE  /\ f.round = g.round => {f.home, f.away} \cap {g.home, g.away} = {}
               /\ ~ Meets(g, f.home, f.away) /\ ~ Meets(g, f.away, f.home)
    <3>1. {f.home, f.away} # {g.home, g.away}
      BY <2>2, RoundRobinProper
    <3>2. f.round = g.round => {f.home, f.away} \cap {g.home, g.away} = {}
      BY <2>2, RoundRobinProper
    <3> QED
      BY <3>1, <3>2 DEF Meets
  <2>3. ASSUME NEW f \in RoundRobin(order)
        PROVE  f.home \in Range(order) /\ f.away \in Range(order)
    BY <1>1, RoundRobinProper
  <2> QED
    BY <2>1, <2>2, <2>3
<1> QED
  BY <1>2, <1>3, LegsAssumption

(* It leaves out no two of them. *)
LEMMA ScheduleComplete ==
  ASSUME NEW order, Lineup(order, Entries), NEW e \in Range(order), NEW o \in Range(order), e # o
  PROVE  \E f \in Schedule(order) : Meets(f, e, o) \/ (Legs = 1 /\ Meets(f, o, e))
<1>1. order \in Seq(Entries) /\ Range(order) = {order[i] : i \in 1 .. Len(order)}
  BY DEF Lineup, Range
<1>2. PICK i \in 1 .. Len(order), j \in 1 .. Len(order) : e = order[i] /\ o = order[j] /\ i # j
  BY <1>1
<1>3. CASE Legs = 2
  BY <1>2, <1>3, DoubleRoundRobinComplete DEF Schedule
<1>4. CASE Legs = 1
  BY <1>2, <1>4, RoundRobinComplete DEF Schedule
<1> QED
  BY <1>3, <1>4, LegsAssumption

-----------------------------------------------------------------------------
LEMMA EntriesInit == Init => EntriesInv
<1> SUFFICES ASSUME Init PROVE EntriesInv
  OBVIOUS
<1>1. Approved = {} /\ Live = {} /\ requests = {} /\ plan = {} /\ members = {}
  BY DEF Init, Approved, Live, With
<1>2. IsFiniteSet({}) /\ Cardinality({}) = 0
  BY FS_EmptySet
<1>3. TypeOK
  BY <1>1, <1>2, MaxRequestsAssumption DEF Init, TypeOK
<1>4. CapacityHeld
  BY <1>1, <1>2, CapacityAssumption DEF CapacityHeld
<1> QED
  BY <1>1, <1>2, <1>3, <1>4 DEF EntriesInv, RequestsOK, PlacesDistinct, PlanProper

(* A check leaves a request and nothing else. *)
LEMMA AskStep ==
  ASSUME EntriesInv, NEW q, Ask(q), RequestOK(q)
  PROVE  EntriesInv'
<1>1. RequestsOK' /\ Cardinality(requests') <= MaxRequests
  BY AskRequests
<1>2. Approved' = Approved /\ Live' = Live /\ Rows' = Rows
  BY DEF Ask, Approved, Live, Rows, With
<1> QED
  BY <1>1, <1>2 DEF EntriesInv, Ask, TypeOK, CapacityHeld, PlacesDistinct, PlanProper

(* A step that changes neither entries nor fixtures. *)
LEMMA DoneStep ==
  ASSUME EntriesInv, NEW q, requests' = requests \ {q},
         UNCHANGED << mode, entry, members, plan >>,
         status' \in {"DRAFT", "REGISTRATION_OPEN", "REGISTRATION_CLOSED", "ACTIVE"}
  PROVE  EntriesInv'
<1>1. RequestsOK' /\ Cardinality(requests') <= MaxRequests
  BY DoneRequests
<1>2. Approved' = Approved /\ Live' = Live /\ Rows' = Rows
  BY DEF Approved, Live, Rows, With
<1> QED
  BY <1>1, <1>2 DEF EntriesInv, TypeOK, CapacityHeld, PlacesDistinct, PlanProper

LEMMA RegisterStep ==
  ASSUME EntriesInv, NEW q \in requests, WriteRegister(q)
  PROVE  EntriesInv'
<1> DEFINE e == q.entry
<1>1. e \in Entries
  BY DEF EntriesInv, RequestsOK, RequestOK, WriteRegister
<1>2. RequestsOK' /\ Cardinality(requests') <= MaxRequests
  BY DoneRequests DEF WriteRegister
<1>3. /\ entry' \in [Entries -> {"NONE", "PENDING", "APPROVED", "REJECTED", "DELETED"}]
      /\ Live' = Live \cup {e} /\ members' = members \cup {e} /\ e \in Rows'
      /\ Rows \subseteq Rows'
      /\ Approved' \subseteq Approved \cup {e}
      /\ mode # "OPEN" => Approved' \subseteq Approved
  BY <1>1 DEF EntriesInv, TypeOK, WriteRegister, Live, Approved, Rows, With
<1>4. TypeOK'
  BY <1>2, <1>3 DEF EntriesInv, TypeOK, WriteRegister
<1>5. CapacityHeld'
  <2>1. CASE mode = "OPEN"
    BY <1>3, <2>1, CapacityOfOne DEF WriteRegister
  <2>2. CASE mode # "OPEN"
    BY <1>3, <2>2, CapacityOfNone DEF EntriesInv
  <2> QED
    BY <2>1, <2>2
<1>6. PlacesDistinct'
  BY <1>3 DEF EntriesInv, PlacesDistinct, WriteRegister, NameFree, PlayersFree
<1>7. PlanProper'
  BY DEF EntriesInv, PlanProper, WriteRegister
<1> QED
  BY <1>2, <1>4, <1>5, <1>6, <1>7 DEF EntriesInv

LEMMA ApproveStep ==
  ASSUME EntriesInv, NEW e \in Entries, Approve(e)
  PROVE  EntriesInv'
<1>1. /\ entry' \in [Entries -> {"NONE", "PENDING", "APPROVED", "REJECTED", "DELETED"}]
      /\ Live' = Live /\ Rows' = Rows
      /\ Approved' \subseteq Approved \cup {e}
  BY DEF EntriesInv, TypeOK, Approve, Live, Approved, Rows, With
<1>2. CapacityHeld'
  BY <1>1, CapacityOfOne DEF Approve
<1>3. RequestsOK'
  BY DEF EntriesInv, RequestsOK, RequestOK, Approve
<1> QED
  BY <1>1, <1>2, <1>3 DEF EntriesInv, TypeOK, Approve, PlacesDistinct, PlanProper

LEMMA RejectStep ==
  ASSUME EntriesInv, NEW q \in requests, WriteReject(q)
  PROVE  EntriesInv'
<1> DEFINE e == q.entry
<1>1. RequestsOK' /\ Cardinality(requests') <= MaxRequests
  BY DoneRequests DEF WriteReject
<1>2. /\ entry' \in [Entries -> {"NONE", "PENDING", "APPROVED", "REJECTED", "DELETED"}]
      /\ Live' = Live \ {e} /\ Rows' = Rows /\ members' = members \ {e}
      /\ Approved' \subseteq Approved
  BY DEF EntriesInv, TypeOK, WriteReject, MembersAfterRejecting, Live, Approved, Rows, With
<1>3. CapacityHeld'
  BY <1>2, CapacityOfNone DEF EntriesInv
<1> QED
  BY <1>1, <1>2, <1>3 DEF EntriesInv, TypeOK, WriteReject, PlacesDistinct, PlanProper

LEMMA CreateStep ==
  ASSUME EntriesInv, NEW q \in requests, WriteCreate(q)
  PROVE  EntriesInv'
<1> DEFINE batch == q.batch
<1>1. batch \in SUBSET Entries /\ \A e, o \in batch : Name[e] = Name[o] => e = o
  BY DEF EntriesInv, RequestsOK, RequestOK, WriteCreate
<1>2. RequestsOK' /\ Cardinality(requests') <= MaxRequests
  BY DoneRequests DEF WriteCreate
<1>3. /\ entry' \in [Entries -> {"NONE", "PENDING", "APPROVED", "REJECTED", "DELETED"}]
      /\ Live' = Live \cup batch
      /\ Rows \subseteq Rows'
      /\ Approved' \subseteq Live \cup batch
  BY <1>1 DEF EntriesInv, TypeOK, WriteCreate, Live, Approved, Rows, With
<1>4. CapacityHeld'
  BY <1>1, <1>3, CapacityOfBatch DEF WriteCreate
<1>5. \A e \in batch, o \in Live : Name[e] # Name[o]
  BY <1>1 DEF WriteCreate, NameFree, Live, With
<1>6. PlacesDistinct'
  BY <1>1, <1>3, <1>5 DEF EntriesInv, PlacesDistinct, WriteCreate
<1> QED
  BY <1>2, <1>3, <1>4, <1>6 DEF EntriesInv, TypeOK, WriteCreate, PlanProper

LEMMA DeleteStep ==
  ASSUME EntriesInv, NEW q \in requests, WriteDelete(q)
  PROVE  EntriesInv'
<1> DEFINE e == q.entry
<1>1. RequestsOK' /\ Cardinality(requests') <= MaxRequests
  BY DoneRequests DEF WriteDelete
<1>2. /\ entry' \in [Entries -> {"NONE", "PENDING", "APPROVED", "REJECTED", "DELETED"}]
      /\ Live' = Live \ {e} /\ Rows' = Rows \ {e} /\ members' = members \ {e}
      /\ Approved' \subseteq Approved
  BY DEF EntriesInv, TypeOK, WriteDelete, MembersAfterDeleting, Live, Approved, Rows, With
<1>3. CapacityHeld'
  BY <1>2, CapacityOfNone DEF EntriesInv
<1>4. PlacesDistinct'
  BY <1>2 DEF EntriesInv, PlacesDistinct
<1>5. ASSUME NEW f \in plan
      PROVE  LET u == Unseated(f, e)
             IN  /\ u \in [round : Nat, position : Nat,
                            home : Entries \cup {NoEntry}, away : Entries \cup {NoEntry}]
                 /\ u.round = f.round
                 /\ u.home \in {f.home, NoEntry} /\ u.away \in {f.away, NoEntry}
  BY DEF EntriesInv, TypeOK, Unseated
<1>6. plan' = {Unseated(f, e) : f \in plan}
  BY DEF WriteDelete
<1>7. TypeOK'
  BY <1>1, <1>2, <1>5, <1>6 DEF EntriesInv, TypeOK, WriteDelete
<1>8. PlanProper'
  <2> SUFFICES ASSUME NEW u \in plan', NEW v \in plan', u # v
               PROVE  /\ u.round = v.round =>
                           {u.home, u.away} \cap {v.home, v.away} \subseteq {NoEntry}
                      /\ NoEntry \notin {u.home, u.away} =>
                           ~ Meets(v, u.home, u.away) /\ (Legs = 1 => ~ Meets(v, u.away, u.home))
    BY DEF PlanProper
  <2>1. PICK f \in plan : u = Unseated(f, e)
    BY <1>6
  <2>2. PICK g \in plan : v = Unseated(g, e)
    BY <1>6
  <2>3. /\ f # g
        /\ u.round = f.round /\ u.home \in {f.home, NoEntry} /\ u.away \in {f.away, NoEntry}
        /\ v.round = g.round /\ v.home \in {g.home, NoEntry} /\ v.away \in {g.away, NoEntry}
    BY <1>5, <2>1, <2>2
  <2>4. /\ f.round = g.round => {f.home, f.away} \cap {g.home, g.away} \subseteq {NoEntry}
        /\ NoEntry \notin {f.home, f.away} =>
             ~ Meets(g, f.home, f.away) /\ (Legs = 1 => ~ Meets(g, f.away, f.home))
    BY <2>3 DEF EntriesInv, PlanProper
  <2> QED
    BY <2>3, <2>4 DEF Meets
<1> QED
  BY <1>1, <1>3, <1>4, <1>7, <1>8 DEF EntriesInv

LEMMA GenerateStep ==
  ASSUME EntriesInv, NEW q \in requests, WriteGenerate(q)
  PROVE  EntriesInv'
<1>1. RequestsOK' /\ Cardinality(requests') <= MaxRequests
  BY DoneRequests DEF WriteGenerate
<1>2. Lineup(q.order, Entries) /\ plan' = Schedule(q.order)
  BY DEF EntriesInv, RequestsOK, RequestOK, WriteGenerate, NoFixturesYet
<1>3. Schedule(q.order) \subseteq
        [round : Nat, position : Nat, home : Entries, away : Entries]
  BY <1>2, RoundRobinType, DoubleRoundRobinType DEF Schedule
<1>4. Approved' = Approved /\ Live' = Live /\ Rows' = Rows
  BY DEF WriteGenerate, Approved, Live, Rows, With
<1>5. TypeOK'
  BY <1>1, <1>2, <1>3, <1>4 DEF EntriesInv, TypeOK, WriteGenerate
<1>6. PlanProper'
  BY <1>2, ScheduleProper DEF PlanProper
<1> QED
  BY <1>1, <1>4, <1>5, <1>6 DEF EntriesInv, WriteGenerate, CapacityHeld, PlacesDistinct

LEMMA ActivateStep ==
  ASSUME EntriesInv, Activate
  PROVE  EntriesInv'
<1>1. Approved' = Approved /\ Live' = Live /\ Rows' = Rows
  BY DEF Activate, Approved, Live, Rows, With
<1> QED
  BY <1>1 DEF EntriesInv, Activate, TypeOK, RequestsOK, RequestOK, CapacityHeld,
              PlacesDistinct, PlanProper

LEMMA EntriesStep == EntriesInv /\ [Next]_vars => EntriesInv'
<1> SUFFICES ASSUME EntriesInv, [Next]_vars PROVE EntriesInv'
  OBVIOUS
<1>1. CASE CheckOpen \/ CheckClose
  BY <1>1, AskStep DEF CheckOpen, CheckClose, RequestOK
<1>2. ASSUME NEW e \in SelfMade, CheckRegister(e) PROVE EntriesInv'
  BY <1>2, AskStep, SelfMadeAssumption DEF CheckRegister, RequestOK
<1>3. ASSUME NEW e \in Entries, Approve(e) PROVE EntriesInv'
  BY <1>3, ApproveStep
<1>4. ASSUME NEW e \in Entries, CheckReject(e) \/ CheckDelete(e) PROVE EntriesInv'
  BY <1>4, AskStep DEF CheckReject, CheckDelete, RequestOK
<1>5. ASSUME NEW batch \in Batches, CheckCreate(batch) PROVE EntriesInv'
  BY <1>5, AskStep, BatchesAssumption DEF CheckCreate, RequestOK
<1>6. CASE CheckGenerate
  <2>1. PICK order \in SetToSeqs(Approved) : Ask([op |-> "GENERATE", order |-> order])
    BY <1>6 DEF CheckGenerate
  <2>2. Lineup(order, Entries)
    BY <1>6, OrderIsLineup DEF CheckGenerate
  <2>3. RequestOK([op |-> "GENERATE", order |-> order])
    BY <2>2 DEF RequestOK
  <2> QED
    BY <2>1, <2>3, AskStep
<1>7. CASE Activate
  BY <1>7, ActivateStep
<1>8. ASSUME NEW q \in requests, WriteStatus(q) \/ Refuse(q) PROVE EntriesInv'
  BY <1>8, DoneStep DEF WriteStatus, Refuse, EntriesInv, TypeOK
<1>9. ASSUME NEW q \in requests,
             WriteRegister(q) \/ WriteReject(q) \/ WriteCreate(q) \/ WriteDelete(q) \/ WriteGenerate(q)
      PROVE  EntriesInv'
  BY <1>9, RegisterStep, RejectStep, CreateStep, DeleteStep, GenerateStep
<1>10. CASE UNCHANGED vars
  BY <1>10 DEF vars, EntriesInv, TypeOK, RequestsOK, RequestOK, CapacityHeld, PlacesDistinct,
               PlanProper, Approved, Live, Rows, With
<1> QED
  BY <1>1, <1>2, <1>3, <1>4, <1>5, <1>6, <1>7, <1>8, <1>9, <1>10 DEF Next

(* The invariant in every state. *)
THEOREM EntriesInvariant == Spec => []EntriesInv
BY EntriesInit, EntriesStep, PTL DEF Spec

(* In any tournament, with any number of operations racing: approvals      *)
(* never exceed the capacity.                                              *)
THEOREM CapacityIsHeld == Spec => [](TypeOK /\ CapacityHeld)
<1>1. EntriesInv => TypeOK /\ CapacityHeld
  BY DEF EntriesInv
<1> QED
  BY <1>1, EntriesInvariant, PTL

(* No two players, and no two registrations, share a place.                *)
THEOREM PlacesStayDistinct == Spec => []PlacesDistinct
<1>1. EntriesInv => PlacesDistinct
  BY DEF EntriesInv
<1> QED
  BY <1>1, EntriesInvariant, PTL

(* The schedule that was generated stays one, over registrations that      *)
(* stand.                                                                  *)
THEOREM PlanStaysProper == Spec => []PlanProper
<1>1. EntriesInv => PlanProper
  BY DEF EntriesInv
<1> QED
  BY <1>1, EntriesInvariant, PTL

(* Only a generation makes the first fixtures. *)
LEMMA FirstFixtures ==
  ASSUME EntriesInv, [Next]_vars, plan = {}, plan' # {}
  PROVE  \E q \in requests : WriteGenerate(q)
<1>1. \A q : WriteDelete(q) => plan' = {}
  BY DEF WriteDelete
<1> QED
  BY <1>1 DEF Next, vars, Ask, CheckOpen, CheckClose, CheckRegister, Approve, CheckReject,
     CheckDelete, CheckCreate, CheckGenerate, Activate, WriteStatus, WriteRegister,
     WriteReject, WriteCreate, Refuse

(* The fixtures generated are those of the entries approved at that        *)
(* moment: all of them, each against each other.                           *)
THEOREM ScheduleCoversApproved == Spec => ScheduledAsApproved
<1>1. ASSUME EntriesInv, [Next]_vars, plan = {}, plan' # {}
      PROVE  /\ UNION {{f.home, f.away} : f \in plan'} = Approved'
             /\ \A e, o \in Approved' : e # o =>
                  \E f \in plan' : Meets(f, e, o) \/ (Legs = 1 /\ Meets(f, o, e))
  <2>1. PICK q \in requests : WriteGenerate(q)
    BY <1>1, FirstFixtures
  <2>2. /\ Lineup(q.order, Entries) /\ plan' = Schedule(q.order)
        /\ Approved = Range(q.order)
    BY <1>1, <2>1 DEF EntriesInv, RequestsOK, RequestOK, WriteGenerate, NoFixturesYet, InputsStand
  <2>3. Approved' = Range(q.order)
    BY <2>1, <2>2 DEF WriteGenerate, Approved, With
  <2>4. \A e, o \in Range(q.order) : e # o =>
          \E f \in plan' : Meets(f, e, o) \/ (Legs = 1 /\ Meets(f, o, e))
    BY <2>2, ScheduleComplete
  <2>5. \A f \in plan' : f.home \in Range(q.order) /\ f.away \in Range(q.order)
    BY <2>2, ScheduleProper
  <2>6. ASSUME NEW e \in Range(q.order)
        PROVE  \E o \in Range(q.order) : e # o
    <3>1. q.order \in Seq(Entries) /\ Len(q.order) >= 2
          /\ \A i, j \in 1 .. Len(q.order) : q.order[i] = q.order[j] => i = j
      BY <2>2 DEF Lineup
    <3>2. 1 \in 1 .. Len(q.order) /\ 2 \in 1 .. Len(q.order) /\ 1 # 2
      BY <3>1
    <3>3. q.order[1] \in Range(q.order) /\ q.order[2] \in Range(q.order)
          /\ q.order[1] # q.order[2]
      BY <3>1, <3>2 DEF Range
    <3> QED
      BY <3>3
  <2>7. \A e \in Range(q.order) : \E f \in plan' : e \in {f.home, f.away}
    BY <2>4, <2>6 DEF Meets
  <2>8. UNION {{f.home, f.away} : f \in plan'} = Range(q.order)
    BY <2>5, <2>7
  <2> QED
    BY <2>3, <2>4, <2>8
<1>2. EntriesInv /\ [Next]_vars =>
        (plan = {} /\ plan' # {} =>
           /\ UNION {{f.home, f.away} : f \in plan'} = Approved'
           /\ \A e, o \in Approved' : e # o =>
                \E f \in plan' : Meets(f, e, o) \/ (Legs = 1 /\ Meets(f, o, e)))
  BY <1>1
<1> QED
  BY <1>2, EntriesInvariant, PTL DEF Spec, ScheduledAsApproved
=============================================================================
