--------------------------- MODULE FixturePreview ---------------------------
(***************************************************************************)
(* The fixture preview of the tournament wizard: draft fixtures of a round *)
(* robin are generated, added, edited and deleted by hand, and published.  *)
(* No operation is a transaction as a whole: each reads and checks first   *)
(* and writes later what it decided then, and two organisers may work at   *)
(* the same time.                                                          *)
(***************************************************************************)
EXTENDS FixtureGenerator, FiniteSets, Functions

CONSTANTS
  Organisers,   \* those who may manage the fixtures
  Lists,        \* lists of approved entries a generation may be asked for
  Legs,         \* 2 if legType is HOME_AWAY, 1 if SINGLE_LEG
  HomeAwayMode, \* "BALANCED" stands for MANUAL too
  ManualRounds, \* round numbers given by hand
  MaxRows,      \* bound: rows at a time
  MaxByHand,    \* bound: fixtures added, edited or deleted by hand
  Racing,       \* bound: the operations that overlap with others
  NONE

ASSUME LegsAssumption == Legs \in {1, 2}
ASSUME OrganisersAssumption == IsFiniteSet(Organisers)
ASSUME RoundsAssumption == ManualRounds \subseteq Nat

Entries == UNION {{list[i] : i \in DOMAIN list} : list \in Lists}

(* The generator refuses fewer than two; entries are different rows.       *)
ASSUME ListsAssumption == \A list \in Lists :
  list \in Seq(Entries) /\ Len(list) >= 2 /\ IsInjective(list)

VARIABLES
  status,    \* Tournament.status: "DRAFT" stands for REGISTRATION_CLOSED too
  fixtures,  \* rows of the tournament
  published, \* the ids of those whose publishedAt is set
  byHand,    \* changes by hand so far
  request    \* the operation each organiser has begun

vars == << status, fixtures, published, byHand, request >>

Published == {f \in fixtures : f.id \in published}
Drafts == fixtures \ Published
Teams(f) == {f.home, f.away}
Row(id, round, home, away) == [id |-> id, round |-> round, home |-> home, away |-> away]

(* Ids for new rows: unlike any that a row or a request has.               *)
Begun(p) == request[p] # NONE
Doing(p, op) == Begun(p) /\ request[p].op = op
IdsRead(p) ==
  IF Doing(p, "PUBLISH") THEN request[p].ids
  ELSE IF Doing(p, "EDIT") \/ Doing(p, "DELETE") THEN {request[p].id} ELSE {}
Mentioned == {f.id : f \in fixtures} \cup UNION {IdsRead(p) : p \in Organisers}
NewIds(rows) ==
  CHOOSE ids \in Injection(rows, (1 .. Cardinality(rows) + Cardinality(Mentioned)) \ Mentioned) : TRUE

Init ==
  /\ status = "DRAFT"
  /\ fixtures = {}
  /\ published = {}
  /\ byHand = 0
  /\ request = [p \in Organisers |-> NONE]

Begin(p, op) ==
  /\ ~Begun(p)
  /\ status = "DRAFT"
  /\ \A other \in Organisers : Begun(other) => {op, request[other].op} \subseteq Racing

Ask(p, asked) ==
  /\ request' = [request EXCEPT ![p] = asked]
  /\ UNCHANGED << status, fixtures, published, byHand >>

Answer(p) ==
  /\ request' = [request EXCEPT ![p] = NONE]
  /\ UNCHANGED status

-----------------------------------------------------------------------------
(* generatePreview: refused once something is published, *)
AskGenerate(p, list) ==
  /\ Begin(p, "GENERATE")
  /\ Published = {}
  /\ Ask(p, [op |-> "GENERATE", step |-> "DELETE", list |-> list])

(* Altered: everything of the tournament is cleared away. *)
KeptByGenerationNone == {}

(* it clears the drafts away, *)
KeptByGeneration == Published

ClearDrafts(p) ==
  /\ Doing(p, "GENERATE") /\ request[p].step = "DELETE"
  /\ fixtures' = KeptByGeneration
  /\ request' = [request EXCEPT ![p].step = "CREATE"]
  /\ UNCHANGED << status, published, byHand >>

(* and creates the round robin. *)
Plan(list) == IF Legs = 2 THEN DoubleRoundRobin(list) ELSE RoundRobin(list)

(* applyHomeAwayMode: at random a pair is turned round, in both its legs.  *)
TurnedPairs(plan) ==
  IF HomeAwayMode = "RANDOM" THEN SUBSET {Teams(f) : f \in plan} ELSE {{}}

NewRows(plan, turned) ==
  LET ids == NewIds(plan) IN
    {IF Teams(f) \in turned THEN Row(ids[f], f.round, f.away, f.home)
     ELSE Row(ids[f], f.round, f.home, f.away) : f \in plan}

(* The sequence numbers come after the last one, read just before the      *)
(* transaction; the unique index makes the later of two that read the same *)
(* fail, and nothing comes of it.                                          *)
CreateDrafts(p) ==
  /\ Doing(p, "GENERATE") /\ request[p].step = "CREATE"
  /\ LET plan == Plan(request[p].list)
     IN /\ Cardinality(fixtures) + Cardinality(plan) <= MaxRows
        /\ \E turned \in TurnedPairs(plan) : fixtures' = fixtures \cup NewRows(plan, turned)
  /\ UNCHANGED << published, byHand >>
  /\ Answer(p)

(* assertNoDuplicate looks at the drafts only. *)
NoDuplicate(home, away, rows) ==
  LET same == {f \in rows : Teams(f) = {home, away}}
  IN /\ \A f \in same : f.home # home
     /\ Cardinality(same) < Legs

(* createManualFixture *)
AskAdd(p, round, home, away) ==
  /\ Begin(p, "ADD")
  /\ byHand < MaxByHand
  /\ home # away
  /\ NoDuplicate(home, away, Drafts)
  /\ Ask(p, [op |-> "ADD", round |-> round, home |-> home, away |-> away])

Add(p) ==
  /\ Doing(p, "ADD")
  /\ Cardinality(fixtures) < MaxRows
  /\ byHand' = byHand + 1
  /\ fixtures' = fixtures \cup {Row(NewIds({p})[p], request[p].round, request[p].home, request[p].away)}
  /\ UNCHANGED published
  /\ Answer(p)

(* updateFixture; swapHomeAway is the case of its own teams turned round.  *)
AskEdit(p, f, round, home, away) ==
  /\ Begin(p, "EDIT")
  /\ byHand < MaxByHand
  /\ f \in Drafts
  /\ home # away
  /\ NoDuplicate(home, away, Drafts \ {f})
  /\ Ask(p, [op |-> "EDIT", id |-> f.id, round |-> round, home |-> home, away |-> away])

(* The row is written by its id, whatever became of it; an error without it. *)
Edit(p) ==
  /\ Doing(p, "EDIT")
  /\ fixtures' = {IF f.id = request[p].id
                  THEN [f EXCEPT !.round = request[p].round,
                                 !.home = request[p].home, !.away = request[p].away]
                  ELSE f : f \in fixtures}
  /\ byHand' = byHand + 1
  /\ UNCHANGED published
  /\ Answer(p)

(* deleteFixture *)
AskDelete(p, f) ==
  /\ Begin(p, "DELETE")
  /\ byHand < MaxByHand
  /\ f \in Drafts
  /\ Ask(p, [op |-> "DELETE", id |-> f.id])

Delete(p) ==
  /\ Doing(p, "DELETE")
  /\ fixtures' = {f \in fixtures : f.id # request[p].id}
  /\ published' = published \ {request[p].id}
  /\ byHand' = byHand + 1
  /\ Answer(p)

(* resetPreview *)
Reset(p) ==
  /\ ~Begun(p)
  /\ status = "DRAFT"
  /\ Drafts # {}
  /\ fixtures' = Published
  /\ UNCHANGED << status, published, byHand, request >>

-----------------------------------------------------------------------------
(* validateFixtureSet, for those who appear in the rows. *)
Valid(rows) ==
  LET teams == UNION {Teams(f) : f \in rows}
      meetings(pair) == {f \in rows : Teams(f) = pair}
      n == Cardinality(teams)
  IN /\ \A f \in rows : f.home # f.away
     /\ \A f, g \in rows : f # g =>
          /\ ~Meets(f, g.home, g.away)
          /\ f.round = g.round => Teams(f) \cap Teams(g) = {}
     /\ Cardinality(rows) = ((n * (n - 1)) \div 2) * Legs
     /\ \A e \in teams : \A o \in teams \ {e} : Cardinality(meetings({e, o})) = Legs
     /\ Cardinality({f.round : f \in rows}) = Rounds(n) * Legs

(* publishFixtures reads the drafts and checks them, *)
AskPublish(p) ==
  /\ Begin(p, "PUBLISH")
  /\ Drafts # {}
  /\ Valid(Drafts)
  /\ Ask(p, [op |-> "PUBLISH", ids |-> {f.id : f \in Drafts}])

(* Altered: whatever is a draft by then is published. *)
PublishedNowAnyDraft(ids) == Drafts

(* and publishes the rows it has read: by their ids. *)
PublishedNow(ids) == {f \in fixtures : f.id \in ids}

Publish(p) ==
  /\ Doing(p, "PUBLISH")
  /\ LET now == {f.id : f \in PublishedNow(request[p].ids)} IN
     published' = IF request[p].ids \subseteq now
                  THEN published \cup now
                  ELSE published  (* a row is gone: the transaction fails *)
  /\ UNCHANGED << fixtures, byHand >>
  /\ Answer(p)

(* publishTournament *)
AskActivate(p) ==
  /\ Begin(p, "ACTIVATE")
  /\ Published # {}
  /\ Ask(p, [op |-> "ACTIVATE"])

Activate(p) ==
  /\ Doing(p, "ACTIVATE")
  /\ status' = "ACTIVE"
  /\ request' = [request EXCEPT ![p] = NONE]
  /\ UNCHANGED << fixtures, published, byHand >>

Next == \E p \in Organisers :
  \/ \E list \in Lists : AskGenerate(p, list)
  \/ ClearDrafts(p)
  \/ CreateDrafts(p)
  \/ \E round \in ManualRounds : \E home, away \in Entries :
       \/ AskAdd(p, round, home, away)
       \/ \E f \in Drafts : AskEdit(p, f, round, home, away)
  \/ Add(p)
  \/ Edit(p)
  \/ \E f \in Drafts : AskDelete(p, f)
  \/ Delete(p)
  \/ Reset(p)
  \/ AskPublish(p)
  \/ Publish(p)
  \/ AskActivate(p)
  \/ Activate(p)

Spec == Init /\ [][Next]_vars

-----------------------------------------------------------------------------
Asked ==
  [op : {"GENERATE"}, step : {"DELETE", "CREATE"}, list : Lists]
    \cup [op : {"ADD"}, round : ManualRounds, home : Entries, away : Entries]
    \cup [op : {"EDIT"}, id : Nat, round : ManualRounds, home : Entries, away : Entries]
    \cup [op : {"DELETE"}, id : Nat]
    \cup [op : {"PUBLISH"}, ids : {ids \in SUBSET Nat : IsFiniteSet(ids)}]
    \cup [op : {"ACTIVATE"}]

TypeOK ==
  /\ status \in {"DRAFT", "ACTIVE"}
  /\ fixtures \subseteq [id : Nat, round : Nat, home : Entries, away : Entries]
  /\ IsFiniteSet(fixtures)
  /\ published \subseteq {f.id : f \in fixtures}
  /\ request \in [Organisers -> {NONE} \cup Asked]

(* What a publication makes official completes a round robin: everybody    *)
(* meets everybody else once in each leg and nobody plays twice in a       *)
(* round, whatever others generate, add or publish meanwhile.  (Of two     *)
(* publications the later one may find a part of its rows published.  An   *)
(* edit that began before and ends within it can break this: see the       *)
(* README.)                                                                *)
RoundRobinOf(rows) ==
  LET teams == UNION {Teams(f) : f \in rows}
      played(e) == {f \in rows : e \in Teams(f)}
  IN \A e \in teams :
       /\ Cardinality(played(e)) = Legs * (Cardinality(teams) - 1)
       /\ Cardinality({f.round : f \in played(e)}) = Cardinality(played(e))
       /\ \A o \in teams \ {e} :
            /\ \E f \in rows : Teams(f) = {e, o}
            /\ Legs = 2 => \E f \in rows : Meets(f, e, o)

PublishesRoundRobin ==
  [][LET official == Published' \ Published
     IN official # {} => \E rows \in SUBSET Published' :
                           official \subseteq rows /\ RoundRobinOf(rows)]_vars

(* A published fixture is there for good: generating anew, which was       *)
(* allowed before it was published, neither removes nor changes it.        *)
PublishedStand == [][Published \subseteq Published']_vars

(* What the editor says to whoever adds a third meeting: participants      *)
(* "already meet the maximum number of times for this fixture setup".      *)
(* tournament-fixture-preview.service.ts, assertNoDuplicate                *)
MeetingsLimited ==
  \A f \in Published : Cardinality({g \in Published : Teams(g) = Teams(f)}) <= Legs
=============================================================================
