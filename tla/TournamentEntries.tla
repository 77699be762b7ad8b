-------------------------- MODULE TournamentEntries --------------------------
(***************************************************************************)
(* How a tournament gets its entries and its league fixtures: registration *)
(* (tournaments.service), the entries an admin keeps (tournament-entries)  *)
(* and the direct generation of the fixtures (fixtures.service), up to the *)
(* first confirmed result.                                                 *)
(*                                                                         *)
(* Registering, approving and creating entries count and write in one      *)
(* Serializable transaction, which is one step here.  What an operation    *)
(* asks before its transaction (the tournament's status, the fixtures, the *)
(* state of the entry) may have changed when it writes: these operations   *)
(* are a check and a write, with a request in flight between them.         *)
(***************************************************************************)
EXTENDS FixtureGenerator, FiniteSets, SequencesExt

CONSTANTS
  Entries,      \* registration rows that may come into being, each once
  Name,         \* the team name of each, normalised
  Players,      \* the members it registers with
  MaxEntries,   \* Tournament.maxEntries
  Modes,        \* values of registrationMode the tournament may have
  Legs,         \* 2 for a double round robin, else 1
  SelfMade,     \* bound: rows that come from people who register
  Batches,      \* bound: lists of rows an admin enters together
  NoEntry,      \* null
  MaxRequests   \* bound: operations in flight at the same time

ASSUME EntriesAssumption == IsFiniteSet(Entries) /\ NoEntry \notin Entries
ASSUME CapacityAssumption == MaxEntries \in Nat
ASSUME ModesAssumption == Modes \subseteq {"OPEN", "APPROVAL", "ADMIN_ONLY"}
ASSUME LegsAssumption == Legs \in {1, 2}
ASSUME SelfMadeAssumption == SelfMade \subseteq Entries
ASSUME BatchesAssumption == Batches \subseteq SUBSET Entries
ASSUME MaxRequestsAssumption == MaxRequests \in Nat

VARIABLES
  mode,      \* Tournament.registrationMode, settled in the wizard
  status,    \* Tournament.status
  entry,     \* the status of each registration row; NONE before it exists
  members,   \* rows whose TournamentRegistrationMember rows exist
  plan,      \* the fixtures
  requests   \* operations between their check and their write

vars == << mode, status, entry, members, plan, requests >>

With(states) == {e \in Entries : entry[e] \in states}
Approved == With({"APPROVED"})
Live == With({"PENDING", "APPROVED"})
Rows == With({"PENDING", "APPROVED", "REJECTED"})

Init ==
  /\ mode \in Modes
  /\ status = "DRAFT"
  /\ entry = [e \in Entries |-> "NONE"]
  /\ members = {}
  /\ plan = {}
  /\ requests = {}

Ask(q) ==
  /\ Cardinality(requests) < MaxRequests
  /\ requests' = requests \cup {q}
  /\ UNCHANGED << mode, status, entry, members, plan >>

-----------------------------------------------------------------------------
(* openRegistration and closeRegistration *)
CheckOpen == status \in {"DRAFT", "REGISTRATION_CLOSED"} /\ Ask([op |-> "REGISTRATION_OPEN"])
CheckClose == status = "REGISTRATION_OPEN" /\ Ask([op |-> "REGISTRATION_CLOSED"])

WriteStatus(q) ==
  /\ q.op \in {"REGISTRATION_OPEN", "REGISTRATION_CLOSED"}
  /\ status' = q.op
  /\ requests' = requests \ {q}
  /\ UNCHANGED << mode, entry, members, plan >>

-----------------------------------------------------------------------------
(* Altered: only the approved entries have a name to keep. *)
NameFreeOfApproved(e) == \A o \in Approved : Name[o] # Name[e]

(* assertUniqueEntryName *)
NameFree(e) == \A o \in Live \ {e} : Name[o] # Name[e]

(* The unique index over tournament and user. *)
PlayersFree(e) == \A o \in members : Players[o] \cap Players[e] = {}

(* Altered: the place taken meanwhile is counted when it is too late. *)
PlaceLeftAtMost == Cardinality(Approved) <= MaxEntries

PlaceLeft == Cardinality(Approved) < MaxEntries

(* register *)
CheckRegister(e) ==
  /\ entry[e] = "NONE"
  /\ status = "REGISTRATION_OPEN"
  /\ mode # "ADMIN_ONLY"
  /\ PlayersFree(e)
  /\ Ask([op |-> "REGISTER", entry |-> e])

WriteRegister(q) ==
  /\ q.op = "REGISTER"
  /\ NameFree(q.entry)
  /\ PlayersFree(q.entry)
  /\ mode = "OPEN" => PlaceLeft
  /\ entry' = [entry EXCEPT ![q.entry] = IF mode = "OPEN" THEN "APPROVED" ELSE "PENDING"]
  /\ members' = members \cup {q.entry}
  /\ requests' = requests \ {q}
  /\ UNCHANGED << mode, status, plan >>

(* approveRegistration: all of it in the transaction.                      *)
Approve(e) ==
  /\ entry[e] = "PENDING"
  /\ NameFree(e)
  /\ PlaceLeft
  /\ entry' = [entry EXCEPT ![e] = "APPROVED"]
  /\ UNCHANGED << mode, status, members, plan, requests >>

MembersAfterRejecting(e) == members \ {e}

(* rejectRegistration *)
CheckReject(e) == entry[e] = "PENDING" /\ Ask([op |-> "REJECT", entry |-> e])

WriteReject(q) ==
  /\ q.op = "REJECT"
  /\ q.entry \in Rows
  /\ entry' = [entry EXCEPT ![q.entry] = "REJECTED"]
  /\ members' = MembersAfterRejecting(q.entry)
  /\ requests' = requests \ {q}
  /\ UNCHANGED << mode, status, plan >>

-----------------------------------------------------------------------------
(* assertEntriesEditable *)
Editable ==
  /\ status \in {"DRAFT", "REGISTRATION_OPEN", "REGISTRATION_CLOSED"}
  /\ plan = {}

(* createEntry and bulkCreateEntries *)
CheckCreate(batch) ==
  /\ \A e \in batch : entry[e] = "NONE"
  /\ \A e, o \in batch : Name[e] = Name[o] => e = o
  /\ Editable
  /\ Ask([op |-> "CREATE", batch |-> batch])

WriteCreate(q) ==
  /\ q.op = "CREATE"
  /\ \A e \in q.batch : entry[e] = "NONE" /\ NameFree(e)
  /\ Cardinality(Live) + Cardinality(q.batch) <= MaxEntries
  /\ entry' = [e \in Entries |-> IF e \in q.batch THEN "APPROVED" ELSE entry[e]]
  /\ requests' = requests \ {q}
  /\ UNCHANGED << mode, status, members, plan >>

MembersAfterDeleting(e) == members \ {e}

(* The foreign keys of a deleted entry: fixtures lose the participant.     *)
Unseated(f, e) ==
  [f EXCEPT !.home = IF @ = e THEN NoEntry ELSE @, !.away = IF @ = e THEN NoEntry ELSE @]

(* deleteEntry *)
CheckDelete(e) == e \in Rows /\ Editable /\ Ask([op |-> "DELETE", entry |-> e])

WriteDelete(q) ==
  /\ q.op = "DELETE"
  /\ q.entry \in Rows
  /\ entry' = [entry EXCEPT ![q.entry] = "DELETED"]
  /\ members' = MembersAfterDeleting(q.entry)
  /\ plan' = {Unseated(f, q.entry) : f \in plan}
  /\ requests' = requests \ {q}
  /\ UNCHANGED << mode, status >>

-----------------------------------------------------------------------------
Schedule(order) == IF Legs = 2 THEN DoubleRoundRobin(order) ELSE RoundRobin(order)

(* generateFixtures of a league: the entries are listed in the order they  *)
(* were approved, which is any order here.                                 *)
CheckGenerate ==
  /\ status = "REGISTRATION_CLOSED"
  /\ Cardinality(Approved) >= 2
  /\ \E order \in SetToSeqs(Approved) : Ask([op |-> "GENERATE", order |-> order])

(* Altered: the entries are those the plan was laid out for. *)
InputsStandUnchecked(order) == status = "REGISTRATION_CLOSED"

InputsStand(order) == status = "REGISTRATION_CLOSED" /\ Approved = Range(order)

NoFixturesYet == plan = {}

WriteGenerate(q) ==
  /\ q.op = "GENERATE"
  /\ InputsStand(q.order)
  /\ NoFixturesYet
  /\ plan' = plan \cup Schedule(q.order)
  /\ requests' = requests \ {q}
  /\ UNCHANGED << mode, status, entry, members >>

(* finalizeConfirmation: the first confirmed result of a fixture. *)
Activate ==
  /\ status = "REGISTRATION_CLOSED"
  /\ \E f \in plan : NoEntry \notin {f.home, f.away}
  /\ status' = "ACTIVE"
  /\ UNCHANGED << mode, entry, members, plan, requests >>

(* A write that is refused, or whose process stops before it. *)
Refuse(q) ==
  /\ requests' = requests \ {q}
  /\ UNCHANGED << mode, status, entry, members, plan >>

-----------------------------------------------------------------------------
Next ==
  \/ CheckOpen
  \/ CheckClose
  \/ \E e \in SelfMade : CheckRegister(e)
  \/ \E e \in Entries : Approve(e) \/ CheckReject(e) \/ CheckDelete(e)
  \/ \E batch \in Batches : CheckCreate(batch)
  \/ CheckGenerate
  \/ Activate
  \/ \E q \in requests :
       \/ WriteStatus(q) \/ WriteRegister(q) \/ WriteReject(q) \/ WriteCreate(q)
       \/ WriteDelete(q) \/ WriteGenerate(q) \/ Refuse(q)

Spec == Init /\ [][Next]_vars

-----------------------------------------------------------------------------
(* Every variable has its type; members are of rows that exist. *)
TypeOK ==
  /\ mode \in Modes
  /\ status \in {"DRAFT", "REGISTRATION_OPEN", "REGISTRATION_CLOSED", "ACTIVE"}
  /\ entry \in [Entries -> {"NONE", "PENDING", "APPROVED", "REJECTED", "DELETED"}]
  /\ members \subseteq Rows
  /\ plan \subseteq [round : Nat, position : Nat,
                      home : Entries \cup {NoEntry}, away : Entries \cup {NoEntry}]
  /\ Cardinality(requests) <= MaxRequests

(* However registrations, approvals and the admin's lists race for the     *)
(* last place, no more entries are approved than the tournament takes.     *)
CapacityHeld == Cardinality(Approved) <= MaxEntries

(* No two live entries have the same name, nobody is a member of two, and  *)
(* whoever was turned away holds no place that would keep them from        *)
(* registering again.                                                      *)
PlacesDistinct ==
  /\ \A e, o \in Live : Name[e] = Name[o] => e = o
  /\ \A e, o \in members : Players[e] \cap Players[o] # {} => e = o
  /\ members \subseteq Live

(* However generations race with each other and with deletions, in the     *)
(* fixtures of a tournament nobody plays twice in a round, two entries     *)
(* meet once in a single round robin and once at either side in a double.  *)
PlanProper ==
  \A f, g \in plan : f # g =>
    /\ f.round = g.round => {f.home, f.away} \cap {g.home, g.away} \subseteq {NoEntry}
    /\ NoEntry \notin {f.home, f.away} =>
         ~Meets(g, f.home, f.away) /\ (Legs = 1 => ~Meets(g, f.away, f.home))

(* Fixtures are generated for exactly the entries approved at that moment: *)
(* each of them meets each other one.                                      *)
ScheduledAsApproved ==
  [][plan = {} /\ plan' # {} =>
       /\ UNION {{f.home, f.away} : f \in plan'} = Approved'
       /\ \A e, o \in Approved' : e # o =>
            \E f \in plan' : Meets(f, e, o) \/ (Legs = 1 /\ Meets(f, o, e))]_vars
=============================================================================
