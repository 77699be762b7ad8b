----------------------- MODULE ResultLifecycle_proofs -----------------------
(***************************************************************************)
(* Proofs about ResultLifecycle, for every plan, bracket, format, set of   *)
(* entries and number of submissions and requests its assumptions allow:   *)
(* types, the agreement of matches, submissions and ledger, the bracket,   *)
(* the implementation of ResultRegister, and the tables.                   *)
(***************************************************************************)
EXTENDS ResultRefinement, FiniteSetTheorems, WellFoundedInduction, TLAPS

Pair == [Sides -> Entries \cup {NoEntry}]
Table == [standings : SUBSET CountedResult, players : SUBSET CountedResult]

(* The entry an outcome sends on is one of the two that met, or nobody. *)
LEMMA ResultType ==
  ASSUME NEW pair \in Pair, NEW score, NEW o \in Outcomes
  PROVE  Result(pair, score, o) \in Entries \cup {NoEntry}
  BY DEF Result, Winner, Pair, Sides

(* What a result sends on is well typed. *)
LEMMA SentType ==
  ASSUME TypeOK, NEW f \in Fixtures, NEW score
  PROVE  SentBy(f, score) \in [Outcomes -> Entries \cup {NoEntry}]
<1>1. slot[f] \in Pair
  BY DEF TypeOK, Pair
<1>2. \A o \in Outcomes : Result(slot[f], score, o) \in Entries \cup {NoEntry}
  BY <1>1, ResultType
<1> QED BY <1>2 DEF SentBy

(* Moving entries along the bracket keeps the slots well typed. *)
LEMMA MovedType ==
  ASSUME TypeOK, NEW f \in Fixtures, NEW sent \in [Outcomes -> Entries \cup {NoEntry}]
  PROVE  Moved(f, sent) \in [Fixtures -> [Sides -> Entries \cup {NoEntry}]]
<1> SUFFICES ASSUME NEW g \in Fixtures, NEW side \in Sides
             PROVE  (IF \E o \in Outcomes : Progression[f][o] = <<g, side>>
                     THEN sent[CHOOSE o \in Outcomes : Progression[f][o] = <<g, side>>]
                     ELSE slot[g][side]) \in Entries \cup {NoEntry}
  BY DEF Moved
<1>1. CASE \E o \in Outcomes : Progression[f][o] = <<g, side>>
  <2>1. (CHOOSE o \in Outcomes : Progression[f][o] = <<g, side>>) \in Outcomes
    BY <1>1
  <2> QED BY <1>1, <2>1
<1>2. CASE ~ \E o \in Outcomes : Progression[f][o] = <<g, side>>
  BY <1>2 DEF TypeOK
<1> QED BY <1>1, <1>2

(* A rebuild counts well-formed results only. *)
LEMMA RebuiltType ==
  ASSUME TypeOK, NEW st,
         NEW cf \in [Fixtures -> Submissions \cup {NoSubmission}],
         NEW sb \in [Submissions -> Submission \cup {Unused}]
  PROVE  Rebuilt(st, cf, sb) \in Table
<1> DEFINE kept == {g \in Fixtures : st[g] = "COMPLETED" /\ cf[g] # NoSubmission
                                     /\ sb[cf[g]].status = "CONFIRMED"}
           rows == {FixtureRow(g) : g \in kept}
<1>1. \A r \in rows : /\ r.seq \in kept
                      /\ r.home \in Entries \cup {NoEntry}
                      /\ r.away \in Entries \cup {NoEntry}
  BY DEF FixtureRow, TypeOK, Sides
<1>2. \A g \in kept : sb[cf[g]].score \in Scores
  <2> SUFFICES ASSUME NEW g \in kept PROVE sb[cf[g]].score \in Scores
    OBVIOUS
  <2>1. cf[g] \in Submissions /\ sb[cf[g]].status = "CONFIRMED"
    OBVIOUS
  <2>2. sb[cf[g]] \in Submission
    BY <2>1 DEF Unused
  <2> QED BY <2>2 DEF Submission
<1>3. Canonical(st, cf, sb) \subseteq rows
  BY DEF Canonical, Deduplicated
<1>4. StandingsFixtures(Format, EntryGroup, Canonical(st, cf, sb)) \subseteq rows
  BY <1>3 DEF StandingsFixtures
<1>5. \A S \in SUBSET rows : ResultsOf(S, cf, sb) \subseteq CountedResult
  BY <1>1, <1>2 DEF ResultsOf, CountedResult
<1> QED BY <1>3, <1>4, <1>5 DEF Rebuilt, Table

-----------------------------------------------------------------------------
(* A new competition is well typed. *)
LEMMA InitType == Init => TypeOK
<1> SUFFICES ASSUME Init PROVE TypeOK
  OBVIOUS
<1>1. slot \in [Fixtures -> [Sides -> Entries \cup {NoEntry}]]
  BY PlanAssumption DEF Init, PlannedEntry
<1>2. tables \in Table
  BY DEF Init, Table
<1> QED BY <1>1, <1>2 DEF Init, TypeOK, Statuses, Table

(* submitResult keeps the state well typed. *)
LEMMA SubmitType ==
  ASSUME TypeOK, NEW f \in Fixtures, NEW s \in Submissions, NEW score \in Scores,
         Submit(f, s, score)
  PROVE  TypeOK'
<1>1. [match |-> f, score |-> score, status |-> "PENDING_VERIFICATION"]
        \in Submission
  BY DEF TypeOK, Submission
<1>2. subs' \in [Submissions -> Submission \cup {Unused}]
  BY <1>1 DEF Submit, TypeOK
<1> QED BY <1>2 DEF Submit, TypeOK

(* A used submission is a full row. *)
LEMMA UsedRow ==
  ASSUME TypeOK, NEW s \in Submissions, subs[s].status # "UNUSED"
  PROVE  subs[s] \in Submission
  BY DEF TypeOK, Unused

(* confirmResult keeps the state well typed. *)
LEMMA ConfirmType ==
  ASSUME TypeOK, NEW s \in Submissions, Confirm(s)
  PROVE  TypeOK'
<1> DEFINE f == subs[s].match
           score == subs[s].score
<1>1. subs[s] \in Submission
  BY UsedRow DEF Confirm
<1>2. f \in Fixtures
  BY <1>1 DEF Submission
<1>3. subs' \in [Submissions -> Submission \cup {Unused}]
  <2>1. [subs[s] EXCEPT !.status = "CONFIRMED"] \in Submission
    BY <1>1 DEF Submission
  <2> QED BY <2>1 DEF Confirm, TypeOK
<1>4. confirmed' \in [Fixtures -> Submissions \cup {NoSubmission}]
  BY <1>2 DEF Confirm, TypeOK
<1>5. status' \in [Fixtures -> Statuses]
  BY <1>2 DEF Confirm, TypeOK, Statuses
<1>6. tables' \in Table
  BY <1>3, <1>4, RebuiltType DEF Confirm
<1>7. slot' \in [Fixtures -> [Sides -> Entries \cup {NoEntry}]]
  BY <1>2, SentType, MovedType DEF Confirm
<1>8. applied' \subseteq Submissions /\ tournament' \in {"REGISTRATION_CLOSED", "ACTIVE", "COMPLETED"}
  BY DEF Confirm, TypeOK
<1> QED BY <1>3, <1>4, <1>5, <1>6, <1>7, <1>8 DEF Confirm, TypeOK, Table

(* rejectResult keeps the state well typed. *)
LEMMA RejectType ==
  ASSUME TypeOK, NEW s \in Submissions, Reject(s)
  PROVE  TypeOK'
<1>1. subs[s] \in Submission
  BY UsedRow DEF Reject, Rejectable
<1>2. [subs[s] EXCEPT !.status = "REJECTED"] \in Submission
  BY <1>1 DEF Submission
<1> QED BY <1>2 DEF Reject, TypeOK

(* correctResult keeps the state well typed. *)
LEMMA CorrectType ==
  ASSUME TypeOK, NEW f \in Fixtures, NEW s \in Submissions, NEW score \in Scores,
         Correct(f, s, score), subs[confirmed[f]].status # "UNUSED"
  PROVE  TypeOK'
<1> DEFINE old == confirmed[f]
           new == [match |-> f, score |-> score, status |-> "CONFIRMED"]
<1>1. old \in Submissions
  BY DEF Correct, TypeOK
<1>2. [subs[old] EXCEPT !.status = "REJECTED"] \in Submission
  BY <1>1, UsedRow DEF Submission
<1>3. new \in Submission
  BY DEF TypeOK, Submission
<1>4. subs' \in [Submissions -> Submission \cup {Unused}]
  BY <1>2, <1>3 DEF Correct, TypeOK
<1>5. confirmed' \in [Fixtures -> Submissions \cup {NoSubmission}]
  BY DEF Correct, TypeOK
<1>6. status' \in [Fixtures -> Statuses]
  BY DEF Correct, TypeOK, Statuses
<1>7. tables' \in Table
  BY <1>4, <1>5, RebuiltType DEF Correct
<1>8. slot' \in [Fixtures -> [Sides -> Entries \cup {NoEntry}]]
  <2>1. slot' \in {slot, Moved(f, SentBy(f, score))}
    BY DEF Correct
  <2>2. slot \in [Fixtures -> [Sides -> Entries \cup {NoEntry}]]
    BY DEF TypeOK
  <2> QED BY <2>1, <2>2, SentType, MovedType
<1>9. applied' \subseteq Submissions /\ reversed' \subseteq Submissions
  BY <1>1 DEF Correct, TypeOK, WithReverse
<1>10. /\ tournament' \in {"REGISTRATION_CLOSED", "ACTIVE", "COMPLETED"}
       /\ champion' \in Entries \cup {NoEntry}
  BY DEF Correct, Reopened, TypeOK
<1> QED BY <1>4, <1>5, <1>6, <1>7, <1>8, <1>9, <1>10 DEF Correct, TypeOK, Table

(* reverseResult keeps the state well typed. *)
LEMMA ReverseType ==
  ASSUME TypeOK, NEW f \in Fixtures, Reverse(f), subs[confirmed[f]].status # "UNUSED"
  PROVE  TypeOK'
<1> DEFINE old == confirmed[f]
<1>1. old \in Submissions
  BY DEF Reverse, TypeOK
<1>2. [subs[old] EXCEPT !.status = "REJECTED"] \in Submission
  BY <1>1, UsedRow DEF Submission
<1>3. subs' \in [Submissions -> Submission \cup {Unused}]
  BY <1>2 DEF Reverse, TypeOK
<1>4. confirmed' \in [Fixtures -> Submissions \cup {NoSubmission}]
  BY DEF Reverse, TypeOK
<1>5. status' \in [Fixtures -> Statuses]
  BY DEF Reverse, Restored, TypeOK, Statuses
<1>6. tables' \in Table
  BY <1>3, <1>4, RebuiltType DEF Reverse
<1>7. slot' \in [Fixtures -> [Sides -> Entries \cup {NoEntry}]]
  <2>1. slot' \in {slot, Moved(f, SentNobody)}
    BY DEF Reverse
  <2>2. SentNobody \in [Outcomes -> Entries \cup {NoEntry}]
    BY DEF SentNobody
  <2>3. slot \in [Fixtures -> [Sides -> Entries \cup {NoEntry}]]
    BY DEF TypeOK
  <2> QED BY <2>1, <2>2, <2>3, MovedType
<1>8. reversed' \subseteq Submissions
  BY <1>1 DEF Reverse, TypeOK, WithReverse
<1>9. /\ tournament' \in {"REGISTRATION_CLOSED", "ACTIVE", "COMPLETED"}
      /\ champion' \in Entries \cup {NoEntry}
  BY DEF Reverse, Reopened, TypeOK
<1> QED BY <1>3, <1>4, <1>5, <1>6, <1>7, <1>8, <1>9 DEF Reverse, TypeOK, Table

(* Schedule, postpone and cancel keep the state well typed. *)
LEMMA RequestType ==
  ASSUME TypeOK,
         \/ \E op \in Operations, f \in Fixtures : CheckRequest(op, f)
         \/ \E q \in requests : WriteRequest(q)
  PROVE  TypeOK'
<1>1. CASE \E op \in Operations, f \in Fixtures : CheckRequest(op, f)
  BY <1>1 DEF CheckRequest, TypeOK, Requests
<1>2. ASSUME NEW q \in requests, WriteRequest(q) PROVE TypeOK'
  <2>1. q.op \in Operations /\ q.fixture \in Fixtures
    BY DEF TypeOK, Requests
  <2>2. StatusAfter(q.op) \in Statuses
    BY <2>1 DEF StatusAfter, Operations, Statuses
  <2>3. status' \in [Fixtures -> Statuses]
    BY <1>2, <2>1, <2>2 DEF WriteRequest, TypeOK
  <2>4. scheduled' \in [Fixtures -> BOOLEAN]
    BY <1>2, <2>1 DEF WriteRequest, TypeOK
  <2> QED BY <1>2, <2>3, <2>4 DEF WriteRequest, TypeOK
<1> QED BY <1>1, <1>2

(* Completion keeps the state well typed: the champion is an entry. *)
LEMMA CompletionType ==
  ASSUME TypeOK, SubmissionIntegrity, CheckCompletion \/ CompleteTournament \/ AbandonCompletion
  PROVE  TypeOK'
<1>1. CASE CheckCompletion
  BY <1>1 DEF CheckCompletion, TypeOK
<1>2. CASE CompleteTournament
  <2>1. Placed \subseteq Entries \cup {NoEntry}
    <3>1. ASSUME NEW f \in Fixtures PROVE Winner(slot[f], subs[confirmed[f]].score) \in Entries \cup {NoEntry}
      BY DEF Winner, TypeOK, Sides
    <3>2. Ranked(tables.standings) \subseteq Entries \cup {NoEntry}
      BY DEF Ranked, Participants, TypeOK, CountedResult
    <3>3. Leaders(tables.standings) \subseteq Ranked(tables.standings)
      BY DEF Leaders
    <3> QED BY <3>1, <3>2, <3>3 DEF Placed, Finals
  <2> QED BY <1>2, <2>1 DEF CompleteTournament, TypeOK
<1>3. CASE AbandonCompletion
  BY <1>3 DEF AbandonCompletion, TypeOK
<1> QED BY <1>1, <1>2, <1>3

-----------------------------------------------------------------------------
(* The submission and ledger invariants hold each other up: a pointer that *)
(* is replaced leads to a confirmed row of its own match, so no other      *)
(* match loses its result, and a submission enters the ledger only once it *)
(* is decided, so a new result never finds its own events there.           *)
LedgerDecided == applied \subseteq Rows("CONFIRMED") \cup Rows("REJECTED")

RecordInv == TypeOK /\ SubmissionIntegrity /\ LedgerBalanced /\ LedgerDecided

(* Fixture operations and completion leave results, rows and ledger alone. *)
LEMMA ResultsUntouched ==
  ASSUME RecordInv, UNCHANGED << confirmed, subs, applied, reversed >>
  PROVE  (SubmissionIntegrity /\ LedgerBalanced /\ LedgerDecided)'
  BY DEF RecordInv, SubmissionIntegrity, LedgerBalanced, LedgerDecided, Confirmed, Rows

(* submitResult keeps pointers, submissions and ledger in agreement. *)
LEMMA SubmitRecords ==
  ASSUME RecordInv, NEW f \in Fixtures, NEW s \in Submissions, NEW score \in Scores,
         Submit(f, s, score)
  PROVE  (SubmissionIntegrity /\ LedgerBalanced /\ LedgerDecided)'
<1> DEFINE new == [match |-> f, score |-> score, status |-> "PENDING_VERIFICATION"]
<1>1. /\ subs[s].status = "UNUSED"
      /\ subs' = [subs EXCEPT ![s] = new]
      /\ UNCHANGED << confirmed, applied, reversed >>
      /\ f \notin Confirmed
      /\ f \notin Pending
  BY DEF Submit, OpenForResult, Unused, Confirmed
<1>2. subs'[s] = new /\ \A t \in Submissions \ {s} : subs'[t] = subs[t]
  BY <1>1 DEF RecordInv, TypeOK
<1>3. /\ Confirmed' = Confirmed
      /\ Rows("CONFIRMED")' = Rows("CONFIRMED")
      /\ Rows("REJECTED")' = Rows("REJECTED")
      /\ Rows("PENDING_VERIFICATION")' = Rows("PENDING_VERIFICATION") \cup {s}
  BY <1>1, <1>2 DEF Confirmed, Rows
<1>4. \A g \in Confirmed : confirmed[g] # s
  BY <1>1 DEF RecordInv, SubmissionIntegrity
<1>5. \A t \in Rows("PENDING_VERIFICATION") : subs[t].match # f /\ t # s
  BY <1>1 DEF Pending, Rows
<1>6. SubmissionIntegrity'
  <2>1. (\A g \in Confirmed : subs[confirmed[g]].status = "CONFIRMED" /\ subs[confirmed[g]].match = g)'
    BY <1>1, <1>2, <1>3, <1>4 DEF RecordInv, SubmissionIntegrity, TypeOK, Confirmed
  <2>2. (\A t \in Rows("CONFIRMED") : confirmed[subs[t].match] = t)'
    BY <1>1, <1>2, <1>3 DEF RecordInv, SubmissionIntegrity, Rows
  <2>3. (\A t \in Rows("PENDING_VERIFICATION") : subs[t].match \notin Confirmed)'
    BY <1>1, <1>2, <1>3, <1>5 DEF RecordInv, SubmissionIntegrity, Rows
  <2>4. (\A t, u \in Rows("PENDING_VERIFICATION") : subs[t].match = subs[u].match => t = u)'
    BY <1>1, <1>2, <1>3, <1>5 DEF RecordInv, SubmissionIntegrity, Rows
  <2> QED BY <2>1, <2>2, <2>3, <2>4 DEF SubmissionIntegrity
<1>7. (LedgerBalanced /\ LedgerDecided)'
  BY <1>1, <1>3 DEF RecordInv, LedgerBalanced, LedgerDecided
<1> QED BY <1>6, <1>7

(* confirmResult keeps pointers, submissions and ledger in agreement. *)
LEMMA ConfirmRecords ==
  ASSUME RecordInv, NEW s \in Submissions, Confirm(s)
  PROVE  (SubmissionIntegrity /\ LedgerBalanced /\ LedgerDecided)'
<1> DEFINE f == subs[s].match
<1>1. /\ subs[s].status = "PENDING_VERIFICATION"
      /\ subs[s] \in Submission
      /\ f \in Fixtures
      /\ f \notin Confirmed
  BY UsedRow DEF Confirm, RecordInv, Submission, Confirmed
<1>2. /\ subs' = [subs EXCEPT ![s].status = "CONFIRMED"]
      /\ confirmed' = [confirmed EXCEPT ![f] = s]
      /\ applied' = applied \cup {s}
      /\ reversed' = reversed
  BY DEF Confirm
<1>3. /\ subs'[s].status = "CONFIRMED" /\ subs'[s].match = f
      /\ \A t \in Submissions \ {s} : subs'[t] = subs[t]
  BY <1>1, <1>2 DEF RecordInv, TypeOK, Submission
<1>4. /\ confirmed'[f] = s
      /\ \A g \in Fixtures \ {f} : confirmed'[g] = confirmed[g]
  BY <1>1, <1>2 DEF RecordInv, TypeOK
<1>5. Confirmed' = Confirmed \cup {f}
  BY <1>1, <1>4, ConstantsAssumption DEF Confirmed
<1>6. /\ Rows("CONFIRMED")' = Rows("CONFIRMED") \cup {s}
      /\ Rows("REJECTED")' = Rows("REJECTED")
      /\ Rows("PENDING_VERIFICATION")' = Rows("PENDING_VERIFICATION") \ {s}
  BY <1>1, <1>3 DEF Rows
<1>7. \A g \in Confirmed : g # f /\ confirmed[g] # s /\ confirmed[g] \in Submissions
  BY <1>1 DEF RecordInv, SubmissionIntegrity, Confirmed, TypeOK
<1>8. SubmissionIntegrity'
  <2>1. (\A g \in Confirmed : subs[confirmed[g]].status = "CONFIRMED" /\ subs[confirmed[g]].match = g)'
    BY <1>3, <1>4, <1>5, <1>7 DEF RecordInv, SubmissionIntegrity, Confirmed
  <2>2. (\A t \in Rows("CONFIRMED") : confirmed[subs[t].match] = t)'
    <3> SUFFICES ASSUME NEW t \in Rows("CONFIRMED"), t # s
                 PROVE  confirmed'[subs'[t].match] = t
      BY <1>3, <1>4, <1>6
    <3>1. subs'[t] = subs[t] /\ subs[t] \in Submission
      BY <1>3, UsedRow DEF Rows, RecordInv
    <3>2. confirmed[subs[t].match] = t /\ subs[t].match \in Fixtures
      BY <3>1 DEF RecordInv, SubmissionIntegrity, Submission
    <3>3. subs[t].match # f
      BY <1>1, <3>2, ConstantsAssumption DEF Confirmed, Rows
    <3> QED BY <1>4, <3>1, <3>2, <3>3
  <2>3. (\A t \in Rows("PENDING_VERIFICATION") : subs[t].match \notin Confirmed)'
    BY <1>1, <1>3, <1>5, <1>6 DEF RecordInv, SubmissionIntegrity, Rows
  <2>4. (\A t, u \in Rows("PENDING_VERIFICATION") : subs[t].match = subs[u].match => t = u)'
    BY <1>3, <1>6 DEF RecordInv, SubmissionIntegrity, Rows
  <2> QED BY <2>1, <2>2, <2>3, <2>4 DEF SubmissionIntegrity
<1>9. s \notin applied /\ s \notin reversed
  BY <1>1 DEF RecordInv, LedgerDecided, LedgerBalanced, Rows
<1>10. {confirmed[g] : g \in Confirmed}' = {confirmed[g] : g \in Confirmed} \cup {s}
  BY <1>4, <1>5, <1>7 DEF Confirmed
<1>11. (LedgerBalanced /\ LedgerDecided)'
  BY <1>2, <1>6, <1>9, <1>10 DEF RecordInv, LedgerBalanced, LedgerDecided
<1> QED BY <1>8, <1>11

(* rejectResult keeps pointers, submissions and ledger in agreement. *)
LEMMA RejectRecords ==
  ASSUME RecordInv, NEW s \in Submissions, Reject(s)
  PROVE  (SubmissionIntegrity /\ LedgerBalanced /\ LedgerDecided)'
<1>1. /\ subs[s].status = "PENDING_VERIFICATION"
      /\ subs[s] \in Submission
      /\ subs' = [subs EXCEPT ![s].status = "REJECTED"]
      /\ UNCHANGED << confirmed, applied, reversed >>
  BY UsedRow DEF Reject, Rejectable, RecordInv
<1>2. /\ subs'[s].status = "REJECTED"
      /\ \A t \in Submissions \ {s} : subs'[t] = subs[t]
  BY <1>1 DEF RecordInv, TypeOK, Submission
<1>3. /\ Confirmed' = Confirmed
      /\ Rows("CONFIRMED")' = Rows("CONFIRMED")
      /\ Rows("REJECTED")' = Rows("REJECTED") \cup {s}
      /\ Rows("PENDING_VERIFICATION")' = Rows("PENDING_VERIFICATION") \ {s}
  BY <1>1, <1>2 DEF Confirmed, Rows
<1>4. \A g \in Confirmed : confirmed[g] # s /\ confirmed[g] \in Submissions
  BY <1>1 DEF RecordInv, SubmissionIntegrity, Confirmed, TypeOK
<1>5. SubmissionIntegrity'
  BY <1>1, <1>2, <1>3, <1>4 DEF RecordInv, SubmissionIntegrity, Rows
<1>6. (LedgerBalanced /\ LedgerDecided)'
  BY <1>1, <1>3 DEF RecordInv, LedgerBalanced, LedgerDecided
<1> QED BY <1>5, <1>6

(* correctResult keeps pointers, submissions and ledger in agreement. *)
LEMMA CorrectRecords ==
  ASSUME RecordInv, NEW f \in Fixtures, NEW s \in Submissions, NEW score \in Scores,
         Correct(f, s, score)
  PROVE  (SubmissionIntegrity /\ LedgerBalanced /\ LedgerDecided)'
<1> DEFINE old == confirmed[f]
           new == [match |-> f, score |-> score, status |-> "CONFIRMED"]
<1>1. /\ f \in Confirmed
      /\ old \in Submissions
      /\ subs[old].status = "CONFIRMED" /\ subs[old].match = f
      /\ subs[old] \in Submission
      /\ subs[s].status = "UNUSED"
      /\ s # old
  BY UsedRow DEF Correct, RecordInv, SubmissionIntegrity, Confirmed, TypeOK, Unused
<1>2. /\ subs' = [subs EXCEPT ![old].status = "REJECTED", ![s] = new]
      /\ confirmed' = [confirmed EXCEPT ![f] = s]
      /\ applied' = applied \cup {s}
      /\ reversed' = reversed \cup {old}
  BY DEF Correct, WithReverse
<1>3. /\ subs'[s] = new
      /\ subs'[old].status = "REJECTED"
      /\ \A t \in Submissions \ {s, old} : subs'[t] = subs[t]
  BY <1>1, <1>2 DEF RecordInv, TypeOK, Submission
<1>4. /\ confirmed'[f] = s
      /\ \A g \in Fixtures \ {f} : confirmed'[g] = confirmed[g]
  BY <1>2 DEF RecordInv, TypeOK
<1>5. Confirmed' = Confirmed
  BY <1>1, <1>4, ConstantsAssumption DEF Confirmed
<1>6. /\ Rows("CONFIRMED")' = (Rows("CONFIRMED") \ {old}) \cup {s}
      /\ Rows("REJECTED")' = Rows("REJECTED") \cup {old}
      /\ Rows("PENDING_VERIFICATION")' = Rows("PENDING_VERIFICATION")
  BY <1>1, <1>3 DEF Rows
<1>7. \A g \in Confirmed \ {f} : /\ confirmed[g] \in Submissions
                                /\ confirmed[g] # s /\ confirmed[g] # old
  BY <1>1 DEF RecordInv, SubmissionIntegrity, Confirmed, TypeOK
<1>8. SubmissionIntegrity'
  <2>1. (\A g \in Confirmed : subs[confirmed[g]].status = "CONFIRMED" /\ subs[confirmed[g]].match = g)'
    BY <1>3, <1>4, <1>5, <1>7 DEF RecordInv, SubmissionIntegrity, Confirmed
  <2>2. (\A t \in Rows("CONFIRMED") : confirmed[subs[t].match] = t)'
    <3> SUFFICES ASSUME NEW t \in Rows("CONFIRMED"), t # old, t # s
                 PROVE  confirmed'[subs'[t].match] = t
      BY <1>3, <1>4, <1>6
    <3>1. subs'[t] = subs[t] /\ subs[t] \in Submission
      BY <1>3, UsedRow DEF Rows, RecordInv
    <3>2. confirmed[subs[t].match] = t /\ subs[t].match \in Fixtures
      BY <3>1 DEF RecordInv, SubmissionIntegrity, Submission
    <3> QED BY <1>4, <3>1, <3>2
  <2>3. (\A t \in Rows("PENDING_VERIFICATION") : subs[t].match \notin Confirmed)'
    BY <1>1, <1>3, <1>5, <1>6 DEF RecordInv, SubmissionIntegrity, Rows
  <2>4. (\A t, u \in Rows("PENDING_VERIFICATION") : subs[t].match = subs[u].match => t = u)'
    BY <1>1, <1>3, <1>6 DEF RecordInv, SubmissionIntegrity, Rows
  <2> QED BY <2>1, <2>2, <2>3, <2>4 DEF SubmissionIntegrity
<1>9. s \notin applied /\ s \notin reversed
  BY <1>1 DEF RecordInv, LedgerDecided, LedgerBalanced, Rows
<1>10. old \in applied /\ old \notin reversed
  BY <1>1 DEF RecordInv, LedgerBalanced
<1>11. {confirmed[g] : g \in Confirmed}' = ({confirmed[g] : g \in Confirmed} \ {old}) \cup {s}
  BY <1>1, <1>4, <1>5, <1>7 DEF Confirmed
<1>12. (LedgerBalanced /\ LedgerDecided)'
  BY <1>2, <1>6, <1>9, <1>10, <1>11 DEF RecordInv, LedgerBalanced, LedgerDecided
<1> QED BY <1>8, <1>12

(* reverseResult keeps pointers, submissions and ledger in agreement. *)
LEMMA ReverseRecords ==
  ASSUME RecordInv, NEW f \in Fixtures, Reverse(f)
  PROVE  (SubmissionIntegrity /\ LedgerBalanced /\ LedgerDecided)'
<1> DEFINE old == confirmed[f]
<1>1. /\ f \in Confirmed
      /\ old \in Submissions
      /\ subs[old].status = "CONFIRMED" /\ subs[old].match = f
      /\ subs[old] \in Submission
  BY UsedRow DEF Reverse, RecordInv, SubmissionIntegrity, Confirmed, TypeOK
<1>2. /\ subs' = [subs EXCEPT ![old].status = "REJECTED"]
      /\ confirmed' = [confirmed EXCEPT ![f] = NoSubmission]
      /\ applied' = applied
      /\ reversed' = reversed \cup {old}
  BY DEF Reverse, WithReverse
<1>3. /\ subs'[old].status = "REJECTED"
      /\ \A t \in Submissions \ {old} : subs'[t] = subs[t]
  BY <1>1, <1>2 DEF RecordInv, TypeOK, Submission
<1>4. /\ confirmed'[f] = NoSubmission
      /\ \A g \in Fixtures \ {f} : confirmed'[g] = confirmed[g]
  BY <1>2 DEF RecordInv, TypeOK
<1>5. Confirmed' = Confirmed \ {f}
  BY <1>4 DEF Confirmed
<1>6. /\ Rows("CONFIRMED")' = Rows("CONFIRMED") \ {old}
      /\ Rows("REJECTED")' = Rows("REJECTED") \cup {old}
      /\ Rows("PENDING_VERIFICATION")' = Rows("PENDING_VERIFICATION")
  BY <1>1, <1>3 DEF Rows
<1>7. \A g \in Confirmed \ {f} : confirmed[g] \in Submissions /\ confirmed[g] # old
  BY <1>1 DEF RecordInv, SubmissionIntegrity, Confirmed, TypeOK
<1>8. SubmissionIntegrity'
  <2>1. (\A g \in Confirmed : subs[confirmed[g]].status = "CONFIRMED" /\ subs[confirmed[g]].match = g)'
    BY <1>3, <1>4, <1>5, <1>7 DEF RecordInv, SubmissionIntegrity, Confirmed
  <2>2. (\A t \in Rows("CONFIRMED") : confirmed[subs[t].match] = t)'
    <3> SUFFICES ASSUME NEW t \in Rows("CONFIRMED"), t # old
                 PROVE  confirmed'[subs'[t].match] = t
      BY <1>6
    <3>1. subs'[t] = subs[t] /\ subs[t] \in Submission
      BY <1>3, UsedRow DEF Rows, RecordInv
    <3>2. confirmed[subs[t].match] = t /\ subs[t].match \in Fixtures
      BY <3>1 DEF RecordInv, SubmissionIntegrity, Submission
    <3> QED BY <1>4, <3>1, <3>2
  <2>3. (\A t \in Rows("PENDING_VERIFICATION") : subs[t].match \notin Confirmed)'
    BY <1>1, <1>3, <1>5, <1>6 DEF RecordInv, SubmissionIntegrity, Rows
  <2>4. (\A t, u \in Rows("PENDING_VERIFICATION") : subs[t].match = subs[u].match => t = u)'
    BY <1>1, <1>3, <1>6 DEF RecordInv, SubmissionIntegrity, Rows
  <2> QED BY <2>1, <2>2, <2>3, <2>4 DEF SubmissionIntegrity
<1>9. old \in applied /\ old \notin reversed
  BY <1>1 DEF RecordInv, LedgerBalanced
<1>10. {confirmed[g] : g \in Confirmed}' = {confirmed[g] : g \in Confirmed} \ {old}
  BY <1>1, <1>4, <1>5, <1>7 DEF Confirmed
<1>11. (LedgerBalanced /\ LedgerDecided)'
  BY <1>2, <1>6, <1>9, <1>10 DEF RecordInv, LedgerBalanced, LedgerDecided
<1> QED BY <1>8, <1>11

(* The strengthened invariant holds in a new competition. *)
LEMMA RecordInvInit == Init => RecordInv
<1> SUFFICES ASSUME Init PROVE RecordInv
  OBVIOUS
<1>1. Confirmed = {}
  BY DEF Init, Confirmed
<1>2. \A x \in {"CONFIRMED", "REJECTED", "PENDING_VERIFICATION"} : Rows(x) = {}
  BY DEF Init, Rows, Unused
<1> QED BY <1>1, <1>2, InitType DEF Init, RecordInv, SubmissionIntegrity, LedgerBalanced, LedgerDecided

(* Every step preserves the strengthened invariant. *)
LEMMA RecordInvNext == RecordInv /\ [Next]_vars => RecordInv'
<1> SUFFICES ASSUME RecordInv, [Next]_vars PROVE RecordInv'
  OBVIOUS
<1> USE DEF RecordInv
<1>1. ASSUME NEW f \in Fixtures, NEW s \in Submissions, NEW score \in Scores, Submit(f, s, score)
      PROVE  RecordInv'
  BY <1>1, SubmitType, SubmitRecords
<1>2. ASSUME NEW s \in Submissions, Confirm(s) PROVE RecordInv'
  BY <1>2, ConfirmType, ConfirmRecords
<1>3. ASSUME NEW s \in Submissions, Reject(s) PROVE RecordInv'
  BY <1>3, RejectType, RejectRecords
<1>4. ASSUME NEW f \in Fixtures, NEW s \in Submissions, NEW score \in Scores, Correct(f, s, score)
      PROVE  RecordInv'
  <2>1. subs[confirmed[f]].status # "UNUSED"
    BY <1>4 DEF Correct, SubmissionIntegrity, Confirmed
  <2> QED BY <1>4, <2>1, CorrectType, CorrectRecords
<1>5. ASSUME NEW f \in Fixtures, Reverse(f) PROVE RecordInv'
  <2>1. subs[confirmed[f]].status # "UNUSED"
    BY <1>5 DEF Reverse, SubmissionIntegrity, Confirmed
  <2> QED BY <1>5, <2>1, ReverseType, ReverseRecords
<1>6. ASSUME \/ \E op \in Operations, f \in Fixtures : CheckRequest(op, f)
             \/ \E q \in requests : WriteRequest(q)
      PROVE  RecordInv'
  <2>1. UNCHANGED << confirmed, subs, applied, reversed >>
    BY <1>6 DEF CheckRequest, WriteRequest
  <2> QED BY <1>6, <2>1, RequestType, ResultsUntouched
<1>7. ASSUME CheckCompletion \/ CompleteTournament \/ AbandonCompletion PROVE RecordInv'
  <2>1. UNCHANGED << confirmed, subs, applied, reversed >>
    BY <1>7 DEF CheckCompletion, CompleteTournament, AbandonCompletion
  <2> QED BY <1>7, <2>1, CompletionType, ResultsUntouched
<1>8. CASE UNCHANGED vars
  <2>1. TypeOK'
    BY <1>8 DEF vars, TypeOK
  <2> QED BY <1>8, <2>1, ResultsUntouched DEF vars
<1> QED BY <1>1, <1>2, <1>3, <1>4, <1>5, <1>6, <1>7, <1>8 DEF Next

(* The strengthened invariant holds in every reachable state. *)
THEOREM RecordInvariant == Spec => []RecordInv
<1>1. Init => RecordInv
  BY RecordInvInit
<1>2. RecordInv /\ [Next]_vars => RecordInv'
  BY RecordInvNext
<1> QED BY <1>1, <1>2, PTL DEF Spec

(* The state is always well typed, for any competition. *)
THEOREM TypeCorrect == Spec => []TypeOK
BY RecordInvariant, PTL DEF RecordInv

(* Submissions and result pointers always agree: no interleaving of        *)
(* submissions, verdicts, corrections and reversals confirms two results   *)
(* of a match or leaves a pointer to a result that is not confirmed.       *)
THEOREM SubmissionsAgree == Spec => []SubmissionIntegrity
BY RecordInvariant, PTL DEF RecordInv

(* The APPLY and REVERSE events always add up to the confirmed results. *)
THEOREM LedgerAddsUp == Spec => []LedgerBalanced
BY RecordInvariant, PTL DEF RecordInv

(* A decided submission keeps its content; at most it becomes rejected. *)
LEMMA DecidedStays ==
  ASSUME RecordInv, [Next]_vars, NEW t \in Rows("REJECTED") \cup Rows("CONFIRMED")
  PROVE  subs'[t] \in {subs[t], [subs[t] EXCEPT !.status = "REJECTED"]}
<1> USE DEF RecordInv
<1>1. t \in Submissions /\ subs[t].status \in {"REJECTED", "CONFIRMED"}
  BY DEF Rows
<1>2. ASSUME NEW f \in Fixtures, NEW s \in Submissions, NEW score \in Scores, Submit(f, s, score)
      PROVE  subs'[t] = subs[t]
  BY <1>1, <1>2 DEF Submit, TypeOK, Unused
<1>3. ASSUME NEW s \in Submissions, Confirm(s) \/ Reject(s) PROVE subs'[t] = subs[t]
  BY <1>1, <1>3 DEF Confirm, Reject, Rejectable, TypeOK
<1>4. ASSUME NEW f \in Fixtures, NEW s \in Submissions, NEW score \in Scores, Correct(f, s, score)
      PROVE  subs'[t] \in {subs[t], [subs[t] EXCEPT !.status = "REJECTED"]}
  <2>1. t # s
    BY <1>1, <1>4 DEF Correct, Unused
  <2> QED BY <1>1, <1>4, <2>1 DEF Correct, TypeOK
<1>5. ASSUME NEW f \in Fixtures, Reverse(f)
      PROVE  subs'[t] \in {subs[t], [subs[t] EXCEPT !.status = "REJECTED"]}
  BY <1>1, <1>5 DEF Reverse, TypeOK
<1>6. ASSUME UNCHANGED subs PROVE subs'[t] = subs[t]
  BY <1>6
<1> QED
  BY <1>2, <1>3, <1>4, <1>5, <1>6
  DEF Next, CheckRequest, WriteRequest, CheckCompletion, CompleteTournament, AbandonCompletion, vars

(* A verdict is final, whoever acts next: a decided score never changes, a *)
(* rejection is never undone and a match never points at a rejected row.   *)
THEOREM VerdictsStay == Spec => VerdictsFinal
<1>1. ASSUME RecordInv, [Next]_vars,
             NEW t \in Rows("REJECTED") \cup Rows("CONFIRMED")
      PROVE  /\ subs'[t] \in {subs[t], [subs[t] EXCEPT !.status = "REJECTED"]}
             /\ subs'[t].status = "REJECTED" => confirmed'[subs[t].match] # t
  <2>1. t \in Submissions /\ subs[t] \in Submission
    BY <1>1, UsedRow DEF Rows, RecordInv
  <2>2. subs'[t] \in {subs[t], [subs[t] EXCEPT !.status = "REJECTED"]}
    BY <1>1, DecidedStays
  <2>3. subs[t].match \in Fixtures
    BY <2>1 DEF Submission
  <2>4. SubmissionIntegrity'
    BY <1>1, RecordInvNext DEF RecordInv
  <2>5. subs'[t].status = "REJECTED" => confirmed'[subs[t].match] # t
    BY <2>1, <2>3, <2>4, ConstantsAssumption DEF SubmissionIntegrity, Confirmed
  <2> QED BY <2>2, <2>5
<1>2. RecordInv /\ [Next]_vars =>
        [\A s \in Rows("REJECTED") \cup Rows("CONFIRMED") :
           /\ subs'[s] \in {subs[s], [subs[s] EXCEPT !.status = "REJECTED"]}
           /\ subs'[s].status = "REJECTED" => confirmed'[subs[s].match] # s]_vars
  BY <1>1
<1> QED BY <1>2, RecordInvariant, PTL DEF Spec, VerdictsFinal

-----------------------------------------------------------------------------
(* The bracket always follows the recorded results.  The invariant carries *)
(* itself once the records are sound: a fixture that receives a result had *)
(* sent nobody on, so no fixture it leads to can have both participants,   *)
(* let alone a result; and a result whose winner changes or goes away is   *)
(* refused when a fixture it leads to has one.                             *)
BracketInv == RecordInv /\ BracketFollowsResults

LeadsTo(f, g) == \E o \in Outcomes : Progression[f][o] # NoTarget /\ Progression[f][o][1] = g

(* A slot is a target, and no two outcomes lead to the same one. *)
LEMMA TargetsDistinct ==
  ASSUME NEW t \in Fixtures, NEW side \in Sides
  PROVE  /\ <<t, side>> # NoTarget
         /\ \A f, g \in Fixtures, o, p \in Outcomes :
              Progression[f][o] = <<t, side>> /\ Progression[g][p] = <<t, side>> => g = f /\ p = o
<1>1. <<t, side>> # NoTarget
  BY ConstantsAssumption DEF Targets
<1>2. ASSUME NEW f \in Fixtures, NEW g \in Fixtures, NEW o \in Outcomes, NEW p \in Outcomes,
             Progression[f][o] = <<t, side>>, Progression[g][p] = <<t, side>>
      PROVE  g = f /\ p = o
  <2>1. Progression[f][o] # NoTarget /\ Progression[g][p] = Progression[f][o]
    BY <1>1, <1>2
  <2> QED BY <2>1, ProgressionAssumption
<1> QED BY <1>1, <1>2

(* Moving entries on from f leaves a slot alone that f does not lead to. *)
LEMMA MovedNotHere ==
  ASSUME NEW f \in Fixtures, NEW sent, NEW g \in Fixtures, NEW side \in Sides,
         \A o \in Outcomes : Progression[f][o] # <<g, side>>
  PROVE  Moved(f, sent)[g][side] = slot[g][side]
  BY DEF Moved

(* Moving entries on from f fills the slots f leads to and no others. *)
LEMMA MovedSlots ==
  ASSUME TypeOK, NEW f \in Fixtures, NEW sent
  PROVE  /\ \A o \in Outcomes : Progression[f][o] # NoTarget =>
              Moved(f, sent)[Progression[f][o][1]][Progression[f][o][2]] = sent[o]
         /\ \A g \in Fixtures : ~LeadsTo(f, g) => Moved(f, sent)[g] = slot[g]
<1>1. ASSUME NEW o \in Outcomes, Progression[f][o] # NoTarget
      PROVE  Moved(f, sent)[Progression[f][o][1]][Progression[f][o][2]] = sent[o]
  <2>1. Progression[f][o] \in Targets
    BY <1>1, ProgressionAssumption
  <2>2. PICK g \in Fixtures, side \in Sides : Progression[f][o] = <<g, side>>
    BY <2>1 DEF Targets
  <2>3. \A p \in Outcomes : Progression[f][p] = <<g, side>> => p = o
    BY <2>2, TargetsDistinct
  <2>4. (CHOOSE p \in Outcomes : Progression[f][p] = <<g, side>>) = o
    BY <2>2, <2>3
  <2>5. Moved(f, sent)[g][side] = sent[o]
    BY <2>2, <2>4 DEF Moved
  <2> QED BY <2>2, <2>5
<1>2. ASSUME NEW g \in Fixtures, ~LeadsTo(f, g) PROVE Moved(f, sent)[g] = slot[g]
  <2>1. ASSUME NEW o \in Outcomes, NEW side \in Sides, Progression[f][o] = <<g, side>> PROVE FALSE
    <3>1. Progression[f][o] # NoTarget /\ Progression[f][o][1] = g
      BY <2>1, TargetsDistinct
    <3> QED BY <1>2, <3>1 DEF LeadsTo
  <2>2. \A side \in Sides : Moved(f, sent)[g][side] = slot[g][side]
    BY <2>1, MovedNotHere
  <2>3. slot[g] \in [Sides -> Entries \cup {NoEntry}]
    BY DEF TypeOK
  <2>4. Moved(f, sent)[g] = [side \in Sides |-> Moved(f, sent)[g][side]]
    BY DEF Moved
  <2> QED BY <2>2, <2>3, <2>4
<1> QED BY <1>1, <1>2

(* No fixture leads to itself. *)
LEMMA OwnSlotsStay ==
  ASSUME TypeOK, NEW f \in Fixtures, NEW sent
  PROVE  Moved(f, sent)[f] = slot[f]
<1>1. ~LeadsTo(f, f)
  BY ProgressionAssumption DEF LeadsTo
<1> QED BY <1>1, MovedSlots

(* A fixture without a result has sent nobody on: the fixtures it leads to *)
(* wait for it.                                                            *)
LEMMA UnfedHasNoResult ==
  ASSUME BracketInv, NEW f \in Fixtures, f \notin Confirmed, NEW g \in Fixtures, LeadsTo(f, g)
  PROVE  g \notin Confirmed
<1>1. PICK o \in Outcomes : Progression[f][o] # NoTarget /\ Progression[f][o][1] = g
  BY DEF LeadsTo
<1>2. Progression[f][o][2] \in Sides
  BY <1>1, ProgressionAssumption DEF Targets
<1>3. slot[g][Progression[f][o][2]] = NoEntry
  BY <1>1 DEF BracketInv, BracketFollowsResults
<1> QED BY <1>2, <1>3 DEF BracketInv, BracketFollowsResults, Ready

(* What the three steps that move entries have in common. *)
LEMMA MovingKeepsBracket ==
  ASSUME BracketInv, NEW f \in Fixtures, NEW sent,
         slot' = Moved(f, sent),
         \A g \in Fixtures : LeadsTo(f, g) => g \notin Confirmed,
         \A g \in Fixtures \ {f} : confirmed'[g] = confirmed[g],
         \A g \in Confirmed \ {f} : subs'[confirmed[g]].score = subs[confirmed[g]].score,
         confirmed'[f] # NoSubmission =>
           Ready(f) /\ (Knockout(f) => ~IsDraw(subs'[confirmed'[f]].score)),
         \A o \in Outcomes :
           sent[o] = IF confirmed'[f] # NoSubmission
                     THEN Result(slot[f], subs'[confirmed'[f]].score, o) ELSE NoEntry
  PROVE  /\ BracketFollowsResults'
         /\ \A g \in Confirmed : slot'[g] = slot[g]
<1> USE DEF BracketInv, RecordInv
<1>1. \A g \in Confirmed \cup {f} : slot'[g] = slot[g]
  <2>1. slot'[f] = slot[f]
    BY OwnSlotsStay
  <2>2. \A g \in Confirmed : slot'[g] = slot[g]
    BY MovedSlots DEF Confirmed
  <2> QED BY <2>1, <2>2
<1>2. ASSUME NEW g \in Fixtures, confirmed'[g] # NoSubmission
      PROVE  Ready(g)' /\ (Knockout(g) => ~IsDraw(subs'[confirmed'[g]].score))
  <2>1. CASE g = f
    BY <1>1, <1>2, <2>1 DEF Ready
  <2>2. CASE g # f
    <3>1. g \in Confirmed
      BY <1>2, <2>2 DEF Confirmed
    <3>2. slot'[g] = slot[g] /\ subs'[confirmed'[g]].score = subs[confirmed[g]].score
      BY <1>1, <2>2, <3>1
    <3> QED BY <3>1, <3>2 DEF BracketFollowsResults, Ready
  <2> QED BY <2>1, <2>2
<1>3. ASSUME NEW g \in Fixtures, NEW o \in Outcomes, Progression[g][o] # NoTarget
      PROVE  slot'[Progression[g][o][1]][Progression[g][o][2]] =
               IF confirmed'[g] # NoSubmission
               THEN Result(slot'[g], subs'[confirmed'[g]].score, o) ELSE NoEntry
  <2>1. CASE g = f
    BY <1>1, <1>3, <2>1, MovedSlots
  <2>2. CASE g # f
    <3>1. PICK t \in Fixtures, side \in Sides : Progression[g][o] = <<t, side>>
      BY <1>3, ProgressionAssumption DEF Targets
    <3>2. \A p \in Outcomes : Progression[f][p] # <<t, side>>
      BY <2>2, <3>1, TargetsDistinct
    <3>3. slot'[t][side] = slot[t][side]
      BY <3>2, MovedNotHere
    <3>4. slot[t][side] = IF g \in Confirmed THEN Result(slot[g], subs[confirmed[g]].score, o) ELSE NoEntry
      <4>1. slot[Progression[g][o][1]][Progression[g][o][2]] =
              IF g \in Confirmed THEN Result(slot[g], subs[confirmed[g]].score, o) ELSE NoEntry
        BY <1>3 DEF BracketFollowsResults
      <4> QED BY <3>1, <4>1
    <3>5. confirmed'[g] = confirmed[g]
      BY <2>2
    <3>6. CASE g \in Confirmed
      <4>1. slot'[g] = slot[g] /\ subs'[confirmed'[g]].score = subs[confirmed[g]].score
        BY <1>1, <2>2, <3>5, <3>6
      <4> QED BY <3>1, <3>3, <3>4, <3>5, <3>6, <4>1 DEF Confirmed
    <3>7. CASE g \notin Confirmed
      BY <3>1, <3>3, <3>4, <3>5, <3>7 DEF Confirmed
    <3> QED BY <3>6, <3>7
  <2> QED BY <2>1, <2>2
<1>4. BracketFollowsResults'
  BY <1>2, <1>3 DEF BracketFollowsResults, Confirmed, Knockout
<1> QED BY <1>1, <1>4

-----------------------------------------------------------------------------
(* In a new competition every slot that a fixture feeds is empty. *)
LEMMA BracketInit == Init => BracketFollowsResults
<1> SUFFICES ASSUME Init PROVE BracketFollowsResults
  OBVIOUS
<1>1. Confirmed = {}
  BY DEF Init, Confirmed
<1>2. ASSUME NEW f \in Fixtures, NEW o \in Outcomes, Progression[f][o] # NoTarget
      PROVE  slot[Progression[f][o][1]][Progression[f][o][2]] = NoEntry
  <2>1. PICK g \in Fixtures, side \in Sides : Progression[f][o] = <<g, side>>
    BY <1>2, ProgressionAssumption DEF Targets
  <2>2. PlannedEntry(g, side) = NoEntry
    <3>1. PlannedEntry(Progression[f][o][1], Progression[f][o][2]) = NoEntry
      BY <1>2, ProgressionAssumption
    <3> QED BY <2>1, <3>1
  <2>3. slot[g][side] = NoEntry
    BY <2>2 DEF Init
  <2> QED BY <2>1, <2>3
<1> QED BY <1>1, <1>2 DEF BracketFollowsResults

(* What the three steps do to the results and the slots, in short. *)
LEMMA ConfirmEffect ==
  ASSUME RecordInv, NEW s \in Submissions, Confirm(s)
  PROVE  LET f == subs[s].match IN
         /\ f \in Fixtures
         /\ f \notin Confirmed
         /\ subs[s].score \in Scores
         /\ Ready(f) /\ (Knockout(f) => ~IsDraw(subs[s].score))
         /\ confirmed'[f] = s /\ s # NoSubmission
         /\ \A g \in Fixtures \ {f} : confirmed'[g] = confirmed[g]
         /\ \A g \in Confirmed : subs'[confirmed[g]].score = subs[confirmed[g]].score
         /\ subs'[s].score = subs[s].score
         /\ slot' = Moved(f, SentBy(f, subs[s].score))
<1> DEFINE f == subs[s].match
<1> USE DEF RecordInv
<1>1. subs[s] \in Submission /\ f \in Fixtures /\ f \notin Confirmed
  BY UsedRow DEF Confirm, Submission, Confirmed
<1>2. /\ confirmed'[f] = s
      /\ \A g \in Fixtures \ {f} : confirmed'[g] = confirmed[g]
  BY <1>1 DEF Confirm, TypeOK
<1>3. \A t \in Submissions : subs'[t].score = subs[t].score
  BY <1>1 DEF Confirm, TypeOK, Submission
<1>4. \A g \in Confirmed : confirmed[g] \in Submissions
  BY DEF Confirmed, TypeOK
<1>5. Ready(f) /\ (Knockout(f) => ~IsDraw(subs[s].score))
  BY DEF Confirm, Recordable
<1>6. slot' = Moved(f, SentBy(f, subs[s].score))
  BY DEF Confirm
<1>7. s # NoSubmission /\ subs[s].score \in Scores
  BY <1>1, ConstantsAssumption DEF Submission
<1> QED BY <1>1, <1>2, <1>3, <1>4, <1>5, <1>6, <1>7

(* A correction changes the result of its fixture, and of no other. *)
LEMMA CorrectEffect ==
  ASSUME RecordInv, NEW f \in Fixtures, NEW s \in Submissions, NEW score \in Scores,
         Correct(f, s, score)
  PROVE  /\ f \in Confirmed
         /\ Ready(f) /\ (Knockout(f) => ~IsDraw(score))
         /\ confirmed'[f] = s /\ s # NoSubmission
         /\ \A g \in Fixtures \ {f} : confirmed'[g] = confirmed[g]
         /\ \A g \in Confirmed \ {f} : subs'[confirmed[g]].score = subs[confirmed[g]].score
         /\ subs'[s].score = score
<1> DEFINE old == confirmed[f]
<1> USE DEF RecordInv
<1>1. /\ f \in Confirmed
      /\ old \in Submissions
      /\ subs[old].match = f
      /\ subs[old] \in Submission
      /\ subs[s].status = "UNUSED"
      /\ s # old
      /\ s # NoSubmission
  BY UsedRow, ConstantsAssumption DEF Correct, SubmissionIntegrity, Confirmed, TypeOK, Unused
<1>2. /\ confirmed'[f] = s
      /\ \A g \in Fixtures \ {f} : confirmed'[g] = confirmed[g]
  BY DEF Correct, TypeOK
<1>3. \A g \in Confirmed \ {f} : confirmed[g] \in Submissions /\ confirmed[g] # s /\ confirmed[g] # old
  BY <1>1 DEF SubmissionIntegrity, Confirmed, TypeOK
<1>4. /\ subs'[s].score = score
      /\ \A g \in Confirmed \ {f} : subs'[confirmed[g]].score = subs[confirmed[g]].score
  BY <1>1, <1>3 DEF Correct, TypeOK
<1>5. Ready(f) /\ (Knockout(f) => ~IsDraw(score))
  BY DEF Correct, Recordable
<1> QED BY <1>1, <1>2, <1>4, <1>5

(* A reversal takes away the result of its fixture, and of no other. *)
LEMMA ReverseEffect ==
  ASSUME RecordInv, NEW f \in Fixtures, Reverse(f)
  PROVE  /\ f \in Confirmed
         /\ Ready(f)
         /\ confirmed'[f] = NoSubmission
         /\ \A g \in Fixtures \ {f} : confirmed'[g] = confirmed[g]
         /\ \A g \in Confirmed : subs'[confirmed[g]].score = subs[confirmed[g]].score
<1> USE DEF RecordInv
<1>1. /\ f \in Confirmed
      /\ confirmed[f] \in Submissions
      /\ subs[confirmed[f]] \in Submission
      /\ Ready(f)
  BY UsedRow DEF Reverse, SubmissionIntegrity, Confirmed, TypeOK
<1>2. /\ confirmed'[f] = NoSubmission
      /\ \A g \in Fixtures \ {f} : confirmed'[g] = confirmed[g]
  BY DEF Reverse, TypeOK
<1>3. \A t \in Submissions : subs'[t].score = subs[t].score
  BY <1>1 DEF Reverse, TypeOK, Submission
<1>4. \A g \in Confirmed : confirmed[g] \in Submissions
  BY DEF Confirmed, TypeOK
<1> QED BY <1>1, <1>2, <1>3, <1>4

(* A confirmation moves entries into fixtures without a result only. *)
LEMMA ConfirmBracket ==
  ASSUME BracketInv, NEW s \in Submissions, Confirm(s)
  PROVE  BracketFollowsResults' /\ \A g \in Confirmed : slot'[g] = slot[g]
<1> DEFINE f == subs[s].match
           score == subs[s].score
<1>1. \A g \in Fixtures : LeadsTo(f, g) => g \notin Confirmed
  BY ConfirmEffect, UnfedHasNoResult DEF BracketInv
<1>2. \A o \in Outcomes : SentBy(f, score)[o] = Result(slot[f], score, o)
  BY DEF SentBy
<1> QED BY <1>1, <1>2, ConfirmEffect, MovingKeepsBracket DEF BracketInv

(* When no entries move, the results may only change where the winner stays. *)
LEMMA StandingStillKeepsBracket ==
  ASSUME BracketInv, slot' = slot,
         \A g \in Fixtures : confirmed'[g] # NoSubmission <=> g \in Confirmed,
         \A g \in Confirmed :
           /\ Knockout(g) => ~IsDraw(subs'[confirmed'[g]].score)
           /\ \A o \in Outcomes : Progression[g][o] # NoTarget =>
                Result(slot[g], subs'[confirmed'[g]].score, o) = Result(slot[g], subs[confirmed[g]].score, o)
  PROVE  BracketFollowsResults'
<1>1. ASSUME NEW g \in Fixtures, confirmed'[g] # NoSubmission
      PROVE  Ready(g)' /\ (Knockout(g) => ~IsDraw(subs'[confirmed'[g]].score))
  BY <1>1 DEF BracketInv, BracketFollowsResults, Ready
<1>2. ASSUME NEW g \in Fixtures, NEW o \in Outcomes, Progression[g][o] # NoTarget
      PROVE  slot'[Progression[g][o][1]][Progression[g][o][2]] =
               IF confirmed'[g] # NoSubmission
               THEN Result(slot'[g], subs'[confirmed'[g]].score, o) ELSE NoEntry
  BY <1>2 DEF BracketInv, BracketFollowsResults
<1> QED BY <1>1, <1>2 DEF BracketFollowsResults, Confirmed, Knockout

(* A correction moves entries only where no result was built on them. *)
LEMMA CorrectBracket ==
  ASSUME BracketInv, NEW f \in Fixtures, NEW s \in Submissions, NEW score \in Scores,
         Correct(f, s, score)
  PROVE  BracketFollowsResults' /\ \A g \in Confirmed : slot'[g] = slot[g]
<1> DEFINE old == confirmed[f]
           redirects == Knockout(f) /\ Winner(slot[f], score) # Winner(slot[f], subs[old].score)
<1> USE DEF BracketInv
<1>1. /\ f \in Confirmed
      /\ confirmed'[f] = s /\ s # NoSubmission
  BY CorrectEffect
<1>2. \A g \in Fixtures \ {f} : confirmed'[g] = confirmed[g]
  BY CorrectEffect
<1>3. /\ subs'[s].score = score
      /\ \A g \in Confirmed \ {f} : subs'[confirmed[g]].score = subs[confirmed[g]].score
  BY CorrectEffect
<1>4. Ready(f) /\ (Knockout(f) => ~IsDraw(score))
  BY CorrectEffect
<1>5. CASE redirects
  <2>1. slot' = Moved(f, SentBy(f, score)) /\ DownstreamUnlocked(f)
    BY <1>5 DEF Correct, CanRedirect
  <2>2. \A g \in Fixtures : LeadsTo(f, g) => g \notin Confirmed
    BY <2>1 DEF LeadsTo, DownstreamUnlocked, Confirmed
  <2>3. \A o \in Outcomes : SentBy(f, score)[o] = Result(slot[f], score, o)
    BY DEF SentBy
  <2> QED BY <1>1, <1>2, <1>3, <1>4, <2>1, <2>2, <2>3, MovingKeepsBracket
<1>6. CASE ~redirects
  <2>1. slot' = slot
    BY <1>6 DEF Correct
  <2>2. \A g \in Fixtures : confirmed'[g] # NoSubmission <=> g \in Confirmed
    BY <1>1, <1>2 DEF Confirmed
  <2>3. ASSUME NEW o \in Outcomes, Progression[f][o] # NoTarget
        PROVE  Result(slot[f], score, o) = Result(slot[f], subs[old].score, o)
    <3>1. Knockout(f)
      BY <2>3, ProgressionAssumption
    <3> QED BY <1>6, <3>1 DEF Result
  <2>4. ASSUME NEW g \in Confirmed
        PROVE  /\ Knockout(g) => ~IsDraw(subs'[confirmed'[g]].score)
               /\ \A o \in Outcomes : Progression[g][o] # NoTarget =>
                    Result(slot[g], subs'[confirmed'[g]].score, o) = Result(slot[g], subs[confirmed[g]].score, o)
    <3>1. CASE g = f
      BY <1>1, <1>3, <1>4, <2>3, <3>1
    <3>2. CASE g # f
      <4>1. subs'[confirmed'[g]].score = subs[confirmed[g]].score
        BY <1>2, <1>3, <3>2 DEF Confirmed
      <4> QED BY <4>1 DEF BracketFollowsResults
    <3> QED BY <3>1, <3>2
  <2> QED BY <2>1, <2>2, <2>4, StandingStillKeepsBracket
<1> QED BY <1>5, <1>6

(* A reversal empties only slots of fixtures without a result. *)
LEMMA ReverseBracket ==
  ASSUME BracketInv, NEW f \in Fixtures, Reverse(f)
  PROVE  /\ BracketFollowsResults'
         /\ \A g \in Confirmed : slot'[g] = slot[g]
<1> DEFINE old == confirmed[f]
<1> USE DEF BracketInv
<1>1. f \in Confirmed /\ Ready(f)
  BY ReverseEffect
<1>2. /\ confirmed'[f] = NoSubmission
      /\ \A g \in Fixtures \ {f} : confirmed'[g] = confirmed[g]
  BY ReverseEffect
<1>3. \A g \in Confirmed : subs'[confirmed[g]].score = subs[confirmed[g]].score
  BY ReverseEffect
<1>4. Knockout(f) => Winner(slot[f], subs[old].score) # NoEntry
  BY <1>1 DEF BracketFollowsResults, Winner, Ready, Sides
<1>5. \A o \in Outcomes : SentNobody[o] = NoEntry
  BY DEF SentNobody
<1>6. CASE Knockout(f)
  <2>1. slot' = Moved(f, SentNobody) /\ DownstreamUnlocked(f)
    BY <1>4, <1>6 DEF Reverse, CanRedirect
  <2>2. \A g \in Fixtures : LeadsTo(f, g) => g \notin Confirmed
    BY <2>1 DEF LeadsTo, DownstreamUnlocked, Confirmed
  <2> QED BY <1>1, <1>2, <1>3, <1>5, <2>1, <2>2, MovingKeepsBracket
<1>7. CASE ~Knockout(f)
  <2>1. slot' = slot
    BY <1>7 DEF Reverse
  <2>2. \A o \in Outcomes : Progression[f][o] = NoTarget
    BY <1>7, ProgressionAssumption
  <2>3. \A g \in Fixtures : ~LeadsTo(f, g)
    BY <2>2 DEF LeadsTo
  <2>4. slot' = Moved(f, SentNobody)
    <3>1. \A g \in Fixtures : Moved(f, SentNobody)[g] = slot[g]
      BY <2>3, MovedSlots DEF RecordInv
    <3>2. slot = [g \in Fixtures |-> slot[g]]
      BY DEF TypeOK, RecordInv
    <3>3. Moved(f, SentNobody) = [g \in Fixtures |-> Moved(f, SentNobody)[g]]
      BY DEF Moved
    <3> QED BY <2>1, <3>1, <3>2, <3>3
  <2> QED BY <1>1, <1>2, <1>3, <1>5, <2>3, <2>4, MovingKeepsBracket
<1> QED BY <1>6, <1>7

(* The steps that leave results and slots alone. *)
LEMMA BracketUntouched ==
  ASSUME BracketInv, UNCHANGED << slot, confirmed >>,
         \A g \in Confirmed : subs'[confirmed[g]] = subs[confirmed[g]]
  PROVE  BracketFollowsResults' /\ \A g \in Confirmed : slot'[g] = slot[g]
  BY DEF BracketInv, BracketFollowsResults, Confirmed, Ready, Knockout

(* Every step preserves the bracket and the pairs of recorded results. *)
LEMMA BracketNext ==
  ASSUME BracketInv, [Next]_vars
  PROVE  /\ BracketFollowsResults'
         /\ \A f \in Confirmed : confirmed'[f] # NoSubmission => slot'[f] = slot[f]
<1> DEFINE Goal == BracketFollowsResults' /\ \A f \in Confirmed : slot'[f] = slot[f]
<1> USE DEF BracketInv
<1>1. ASSUME NEW f \in Fixtures, NEW s \in Submissions, NEW score \in Scores, Submit(f, s, score)
      PROVE  Goal
  <2>1. \A g \in Confirmed : confirmed[g] # s
    BY <1>1 DEF RecordInv, SubmissionIntegrity, Submit, Unused
  <2>2. \A t \in Submissions \ {s} : subs'[t] = subs[t]
    BY <1>1 DEF Submit, RecordInv, TypeOK
  <2> QED BY <1>1, <2>1, <2>2, BracketUntouched DEF Submit, Confirmed, RecordInv, TypeOK
<1>2. ASSUME NEW s \in Submissions, Confirm(s) PROVE Goal
  BY <1>2, ConfirmBracket
<1>3. ASSUME NEW s \in Submissions, Reject(s) PROVE Goal
  <2>1. \A g \in Confirmed : confirmed[g] # s
    BY <1>3 DEF RecordInv, SubmissionIntegrity, Reject, Rejectable
  <2>2. \A t \in Submissions \ {s} : subs'[t] = subs[t]
    BY <1>3 DEF Reject, RecordInv, TypeOK
  <2> QED BY <1>3, <2>1, <2>2, BracketUntouched DEF Reject, Confirmed, RecordInv, TypeOK
<1>4. ASSUME NEW f \in Fixtures, NEW s \in Submissions, NEW score \in Scores, Correct(f, s, score)
      PROVE  Goal
  BY <1>4, CorrectBracket
<1>5. ASSUME NEW f \in Fixtures, Reverse(f) PROVE Goal
  BY <1>5, ReverseBracket
<1>6. ASSUME UNCHANGED << slot, confirmed, subs >> PROVE Goal
  BY <1>6, BracketUntouched
<1>7. Goal
  BY <1>1, <1>2, <1>3, <1>4, <1>5, <1>6
  DEF Next, CheckRequest, WriteRequest, CheckCompletion, CompleteTournament, AbandonCompletion, vars
<1> QED BY <1>7

(* The strengthened invariant holds in every reachable state. *)
THEOREM BracketInvariant == Spec => []BracketInv
<1>1. Init => BracketInv
  BY RecordInvInit, BracketInit DEF BracketInv
<1>2. BracketInv /\ [Next]_vars => BracketInv'
  BY RecordInvNext, BracketNext DEF BracketInv
<1> QED BY <1>1, <1>2, PTL DEF Spec

(* In every bracket, whatever is confirmed, corrected and reversed in      *)
(* whatever order, the next fixtures name exactly the winners and losers   *)
(* of the recorded results.                                                *)
THEOREM BracketIsSound == Spec => []BracketFollowsResults
BY BracketInvariant, PTL DEF BracketInv

(* No step changes who played a fixture while its result stands. *)
THEOREM RecordedPairsStay == Spec => RecordedPairFrozen
<1>1. BracketInv /\ [Next]_vars =>
        [\A f \in Confirmed : confirmed'[f] # NoSubmission => slot'[f] = slot[f]]_vars
  BY BracketNext
<1> QED BY <1>1, BracketInvariant, PTL DEF Spec, RecordedPairFrozen

-----------------------------------------------------------------------------
(* The slots nobody feeds, and the implementation of ResultRegister. *)
(* A slot no fixture leads to keeps the entry the generator put there. *)
PlannedSlotsKept ==
  \A f \in Fixtures, side \in Sides :
    (\A g \in Fixtures, o \in Outcomes : Progression[g][o] # <<f, side>>) =>
      slot[f][side] = PlannedEntry(f, side)

RefinementInv == BracketInv /\ PlannedSlotsKept

(* Entries change places only by moving on from one fixture. *)
LEMMA SlotsOnlyMove ==
  ASSUME RecordInv, [Next]_vars
  PROVE  slot' = slot \/ \E f \in Fixtures : \E sent : slot' = Moved(f, sent)
<1>1. ASSUME NEW s \in Submissions, Confirm(s)
      PROVE  \E f \in Fixtures : \E sent : slot' = Moved(f, sent)
  <2>1. subs[s].match \in Fixtures
    BY <1>1, UsedRow DEF Confirm, RecordInv, Submission
  <2>2. slot' = Moved(subs[s].match, SentBy(subs[s].match, subs[s].score))
    BY <1>1 DEF Confirm
  <2> QED BY <2>1, <2>2
<1>2. ASSUME NEW f \in Fixtures, NEW s \in Submissions, NEW score \in Scores, Correct(f, s, score)
      PROVE  slot' = slot \/ slot' = Moved(f, SentBy(f, score))
  BY <1>2 DEF Correct
<1>3. ASSUME NEW f \in Fixtures, Reverse(f)
      PROVE  slot' = slot \/ slot' = Moved(f, SentNobody)
  BY <1>3 DEF Reverse
<1>4. ASSUME \/ \E f \in Fixtures, s \in Submissions, score \in Scores : Submit(f, s, score)
             \/ \E s \in Submissions : Reject(s)
             \/ \E op \in Operations, f \in Fixtures : CheckRequest(op, f)
             \/ \E q \in requests : WriteRequest(q)
             \/ CheckCompletion \/ CompleteTournament \/ AbandonCompletion
             \/ UNCHANGED vars
      PROVE  slot' = slot
  BY <1>4 DEF Submit, Reject, CheckRequest, WriteRequest, CheckCompletion, CompleteTournament,
              AbandonCompletion, vars
<1> QED BY <1>1, <1>2, <1>3, <1>4 DEF Next

(* No step touches a slot that no fixture leads to. *)
LEMMA PlannedSlotsNext ==
  ASSUME RecordInv, PlannedSlotsKept, [Next]_vars
  PROVE  PlannedSlotsKept'
<1> SUFFICES ASSUME NEW f \in Fixtures, NEW side \in Sides,
                    \A g \in Fixtures, o \in Outcomes : Progression[g][o] # <<f, side>>
             PROVE  slot'[f][side] = PlannedEntry(f, side)
  BY DEF PlannedSlotsKept, PlannedEntry
<1>1. slot[f][side] = PlannedEntry(f, side)
  BY DEF PlannedSlotsKept
<1>2. ASSUME NEW g \in Fixtures, NEW sent, slot' = Moved(g, sent)
      PROVE  slot'[f][side] = slot[f][side]
  BY <1>2, MovedNotHere
<1> QED BY <1>1, <1>2, SlotsOnlyMove

(* What the mapping needs holds in every reachable state. *)
THEOREM RefinementInvariant == Spec => []RefinementInv
<1>1. Init => PlannedSlotsKept
  BY DEF Init, PlannedSlotsKept
<1>2. RecordInv /\ PlannedSlotsKept /\ [Next]_vars => PlannedSlotsKept'
  BY PlannedSlotsNext
<1> QED BY <1>1, <1>2, BracketInvariant, PTL DEF Spec, RefinementInv, BracketInv

-----------------------------------------------------------------------------
Row == [home : Entries \cup {NoEntry}, away : Entries \cup {NoEntry}, score : Scores]

RowOf(f) == [home |-> slot[f]["HOME"], away |-> slot[f]["AWAY"], score |-> subs[confirmed[f]].score]

(* The record of a fixture with a result is well formed. *)
LEMMA ConfirmedRow ==
  ASSUME RecordInv, NEW f \in Confirmed
  PROVE  /\ confirmed[f] \in Submissions
         /\ subs[confirmed[f]].score \in Scores
         /\ Recorded[f] = RowOf(f)
         /\ RowOf(f) \in Row
<1>1. confirmed[f] \in Submissions /\ subs[confirmed[f]] \in Submission
  BY UsedRow DEF RecordInv, SubmissionIntegrity, Confirmed, TypeOK
<1>2. slot[f]["HOME"] \in Entries \cup {NoEntry} /\ slot[f]["AWAY"] \in Entries \cup {NoEntry}
  BY DEF RecordInv, TypeOK, Confirmed, Sides
<1> QED BY <1>1, <1>2 DEF Submission, Recorded, RowOf, Row, Confirmed

(* A fixture has a record exactly when its match has a result. *)
LEMMA RecordedWhenConfirmed ==
  ASSUME RecordInv, NEW f \in Fixtures
  PROVE  Recorded[f] = NoResult <=> f \notin Confirmed
  BY ConfirmedRow, NoResultAssumption DEF Recorded, Row

(* A decided result sends on the same entries in both modules. *)
LEMMA SameEntrySent ==
  ASSUME NEW pair, NEW score \in Nat \X Nat, NEW o \in Outcomes, NEW x,
         pair["HOME"] # NoEntry, pair["AWAY"] # NoEntry, ~IsDraw(score),
         x.home = pair["HOME"], x.away = pair["AWAY"], x.score = score
  PROVE  Result(pair, score, o) = Register!EntrySent(x, o)
<1>1. score[1] \in Nat /\ score[2] \in Nat /\ score[1] # score[2]
  BY DEF IsDraw
<1>2. CASE o = "WINNER"
  BY <1>1, <1>2 DEF Result, Winner, IsDraw, Register!EntrySent, Register!HomeWins
<1>3. CASE o = "LOSER"
  BY <1>1, <1>3 DEF Result, Winner, IsDraw, Register!EntrySent, Register!HomeWins
<1> QED BY <1>2, <1>3 DEF Outcomes

(* The participants the register derives are the ones in the slots. *)
LEMMA ParticipantIsSlot ==
  ASSUME RefinementInv, NEW f \in Fixtures, NEW side \in Sides
  PROVE  Register!Participant(f, side) = slot[f][side]
<1> USE DEF RefinementInv, BracketInv
<1>1. CASE \A g \in Fixtures, o \in Outcomes : Progression[g][o] # <<f, side>>
  BY <1>1 DEF Register!Participant, Register!Outcomes, Outcomes, PlannedSlotsKept
<1>2. ASSUME NEW g \in Fixtures, NEW o \in Outcomes, Progression[g][o] = <<f, side>>
      PROVE  Register!Participant(f, side) = slot[f][side]
  <2> DEFINE feed == CHOOSE x \in Fixtures \X Register!Outcomes : Progression[x[1]][x[2]] = <<f, side>>
  <2>1. \A x \in Fixtures \X Outcomes : Progression[x[1]][x[2]] = <<f, side>> => x = <<g, o>>
    BY <1>2, TargetsDistinct
  <2>2. feed = <<g, o>>
    BY <1>2, <2>1 DEF Register!Outcomes, Outcomes
  <2>3. Register!Participant(f, side) =
          IF Recorded[g] = NoResult THEN NoEntry ELSE Register!EntrySent(Recorded[g], o)
    <3> HIDE DEF feed
    <3>1. \E h \in Fixtures, p \in Register!Outcomes : Progression[h][p] = <<f, side>>
      BY <1>2 DEF Register!Outcomes, Outcomes
    <3>2. Register!Participant(f, side) =
            IF Recorded[feed[1]] = NoResult THEN NoEntry
            ELSE Register!EntrySent(Recorded[feed[1]], feed[2])
      BY <3>1, Zenon DEF Register!Participant, feed
    <3>3. feed[1] = g /\ feed[2] = o
      BY <2>2
    <3> QED BY <3>2, <3>3
  <2>4. Progression[g][o] # NoTarget
    BY <1>2, TargetsDistinct
  <2>5. slot[f][side] = IF g \in Confirmed THEN Result(slot[g], subs[confirmed[g]].score, o) ELSE NoEntry
    <3>1. slot[Progression[g][o][1]][Progression[g][o][2]] =
            IF g \in Confirmed THEN Result(slot[g], subs[confirmed[g]].score, o) ELSE NoEntry
      BY <2>4 DEF BracketFollowsResults
    <3> QED BY <1>2, <3>1
  <2>6. CASE g \notin Confirmed
    BY <2>3, <2>5, <2>6, RecordedWhenConfirmed
  <2>7. CASE g \in Confirmed
    <3>1. Knockout(g)
      BY <2>4, ProgressionAssumption
    <3>2. Ready(g) /\ ~IsDraw(subs[confirmed[g]].score)
      BY <2>7, <3>1 DEF BracketFollowsResults
    <3>3. subs[confirmed[g]].score \in Nat \X Nat
      BY <2>7, ConfirmedRow, ConstantsAssumption
    <3>4. Result(slot[g], subs[confirmed[g]].score, o) = Register!EntrySent(RowOf(g), o)
      BY <3>2, <3>3, SameEntrySent DEF Ready, Sides, RowOf
    <3> QED BY <2>3, <2>5, <2>7, <3>4, ConfirmedRow, RecordedWhenConfirmed
  <2> QED BY <2>6, <2>7
<1> QED BY <1>1, <1>2

-----------------------------------------------------------------------------
(* A step on the result of f changes the record of f and no other. *)
LEMMA RecordedStep ==
  ASSUME RecordInv, NEW f \in Fixtures,
         slot'[f] = slot[f],
         \A g \in Confirmed : slot'[g] = slot[g],
         \A g \in Fixtures \ {f} : confirmed'[g] = confirmed[g],
         \A g \in Confirmed \ {f} : subs'[confirmed[g]].score = subs[confirmed[g]].score
  PROVE  Recorded' = [Recorded EXCEPT ![f] =
           IF confirmed'[f] = NoSubmission THEN NoResult
           ELSE [home |-> slot[f]["HOME"], away |-> slot[f]["AWAY"],
                 score |-> subs'[confirmed'[f]].score]]
<1>1. ASSUME NEW g \in Fixtures \ {f} PROVE Recorded'[g] = Recorded[g]
  <2>1. CASE g \in Confirmed
    BY <2>1 DEF Recorded, Confirmed
  <2>2. CASE g \notin Confirmed
    BY <2>2 DEF Recorded, Confirmed
  <2> QED BY <2>1, <2>2
<1>2. Recorded'[f] = IF confirmed'[f] = NoSubmission THEN NoResult
                     ELSE [home |-> slot[f]["HOME"], away |-> slot[f]["AWAY"],
                           score |-> subs'[confirmed'[f]].score]
  BY DEF Recorded, Confirmed
<1> QED BY <1>1, <1>2 DEF Recorded

(* A step that leaves results and their pairs alone changes no record. *)
LEMMA RecordedUntouched ==
  ASSUME RecordInv, UNCHANGED confirmed,
         \A g \in Confirmed : slot'[g] = slot[g] /\ subs'[confirmed[g]].score = subs[confirmed[g]].score
  PROVE  Recorded' = Recorded
<1>1. \A g \in Fixtures : Recorded'[g] = Recorded[g]
  BY DEF Recorded, Confirmed
<1> QED BY <1>1 DEF Recorded

(* The fixtures whose participants depend on f are the ones it leads to. *)
LEMMA UnusedMeansUnlocked ==
  ASSUME RecordInv, NEW f \in Fixtures, DownstreamUnlocked(f) \/ ~Knockout(f)
  PROVE  Register!Unused(f)
<1> SUFFICES ASSUME NEW o \in Outcomes, Progression[f][o] # NoTarget
             PROVE  Recorded[Progression[f][o][1]] = NoResult
  BY DEF Register!Unused, Register!Depends, Register!Outcomes, Outcomes
<1>1. Knockout(f)
  BY ProgressionAssumption
<1>2. Progression[f][o][1] \in Fixtures
  BY ProgressionAssumption DEF Targets
<1>3. Progression[f][o][1] \notin Confirmed
  BY <1>1 DEF DownstreamUnlocked, Confirmed
<1> QED BY <1>2, <1>3, RecordedWhenConfirmed

(* confirmResult records a result. *)
LEMMA ConfirmRefines ==
  ASSUME RefinementInv, NEW s \in Submissions, Confirm(s)
  PROVE  \E f \in Fixtures, score \in Scores : Register!Record(f, score)
<1> DEFINE f == subs[s].match
           score == subs[s].score
<1> USE DEF RefinementInv, BracketInv
<1>1. /\ f \in Fixtures /\ f \notin Confirmed /\ score \in Scores
      /\ Ready(f) /\ (Knockout(f) => ~IsDraw(score))
      /\ confirmed'[f] = s /\ s # NoSubmission
      /\ subs'[s].score = score
      /\ slot' = Moved(f, SentBy(f, score))
  BY ConfirmEffect
<1>2. Recorded[f] = NoResult
  BY <1>1, RecordedWhenConfirmed
<1>3. NoEntry \notin {Register!Participant(f, side) : side \in Register!Sides}
  BY <1>1, ParticipantIsSlot DEF Ready, Register!Sides, Sides
<1>4. Register!Decisive(f, score)
  BY <1>1 DEF Register!Decisive, IsDraw
<1>5. Recorded' = [Recorded EXCEPT ![f] =
                     [home |-> slot[f]["HOME"], away |-> slot[f]["AWAY"], score |-> score]]
  <2>1. slot'[f] = slot[f]
    BY <1>1, OwnSlotsStay DEF RecordInv
  <2>2. \A g \in Confirmed : slot'[g] = slot[g]
    BY ConfirmBracket
  <2>3. \A g \in Fixtures \ {f} : confirmed'[g] = confirmed[g]
    BY ConfirmEffect
  <2>4. \A g \in Confirmed : subs'[confirmed[g]].score = subs[confirmed[g]].score
    BY ConfirmEffect
  <2> HIDE DEF f, score
  <2> QED BY <1>1, <2>1, <2>2, <2>3, <2>4, RecordedStep
<1>6. Register!Meeting(f, score) =
        [home |-> slot[f]["HOME"], away |-> slot[f]["AWAY"], score |-> score]
  BY <1>1, ParticipantIsSlot DEF Register!Meeting, Sides
<1>7. Register!Record(f, score)
  BY <1>2, <1>3, <1>4, <1>5, <1>6 DEF Register!Record
<1> QED BY <1>1, <1>7

(* reverseResult withdraws a result. *)
LEMMA ReverseRefines ==
  ASSUME RefinementInv, NEW f \in Fixtures, Reverse(f)
  PROVE  Register!Withdraw(f)
<1> USE DEF RefinementInv, BracketInv
<1>1. f \in Confirmed /\ Ready(f) /\ confirmed'[f] = NoSubmission
  BY ReverseEffect
<1>2. Recorded[f] # NoResult
  BY <1>1, RecordedWhenConfirmed
<1>3. Register!Unused(f)
  <2>1. Knockout(f) => Winner(slot[f], subs[confirmed[f]].score) # NoEntry
    BY <1>1 DEF BracketFollowsResults, Winner, Ready, Sides
  <2>2. DownstreamUnlocked(f) \/ ~Knockout(f)
    BY <2>1 DEF Reverse, CanRedirect
  <2> QED BY <2>2, UnusedMeansUnlocked
<1>4. slot'[f] = slot[f]
  BY <1>1, ReverseBracket
<1>5. Recorded' = [Recorded EXCEPT ![f] = NoResult]
  <2>1. \A g \in Confirmed : slot'[g] = slot[g]
    BY ReverseBracket
  <2>2. \A g \in Fixtures \ {f} : confirmed'[g] = confirmed[g]
    BY ReverseEffect
  <2>3. \A g \in Confirmed : subs'[confirmed[g]].score = subs[confirmed[g]].score
    BY ReverseEffect
  <2> QED BY <1>1, <1>4, <2>1, <2>2, <2>3, RecordedStep
<1> QED BY <1>2, <1>3, <1>5 DEF Register!Withdraw

(* correctResult amends a result. *)
LEMMA CorrectRefines ==
  ASSUME RefinementInv, NEW f \in Fixtures, NEW s \in Submissions, NEW score \in Scores,
         Correct(f, s, score)
  PROVE  Register!Amend(f, score)
<1> DEFINE old == subs[confirmed[f]].score
           amended == [Recorded[f] EXCEPT !.score = score]
<1> USE DEF RefinementInv, BracketInv
<1>1. /\ f \in Confirmed /\ Ready(f)
      /\ Knockout(f) => ~IsDraw(score)
      /\ confirmed'[f] = s /\ s # NoSubmission
      /\ subs'[s].score = score
  BY CorrectEffect
<1>2. Recorded[f] # NoResult /\ Recorded[f] = RowOf(f)
  BY <1>1, RecordedWhenConfirmed, ConfirmedRow
<1>3. Register!Decisive(f, score)
  BY <1>1 DEF Register!Decisive, IsDraw
<1>4. amended = [home |-> slot[f]["HOME"], away |-> slot[f]["AWAY"], score |-> score]
  BY <1>2 DEF RowOf
<1>5. Register!Unused(f) \/ Register!EntrySent(amended, "WINNER") = Register!EntrySent(Recorded[f], "WINNER")
  <2>1. CASE ~Knockout(f)
    BY <2>1, UnusedMeansUnlocked
  <2>2. CASE Knockout(f) /\ Winner(slot[f], score) # Winner(slot[f], old)
    <3>1. DownstreamUnlocked(f)
      BY <2>2 DEF Correct, CanRedirect
    <3> QED BY <3>1, UnusedMeansUnlocked
  <2>3. CASE Knockout(f) /\ Winner(slot[f], score) = Winner(slot[f], old)
    <3>1. ~IsDraw(old) /\ ~IsDraw(score)
      BY <1>1, <2>3 DEF BracketFollowsResults
    <3>2. old \in Nat \X Nat /\ score \in Nat \X Nat
      BY <1>1, ConfirmedRow, ConstantsAssumption
    <3>3. slot[f]["HOME"] # NoEntry /\ slot[f]["AWAY"] # NoEntry
      BY <1>1 DEF Ready, Sides
    <3>4. "WINNER" \in Outcomes
      BY DEF Outcomes
    <3>5. Result(slot[f], score, "WINNER") = Register!EntrySent(amended, "WINNER")
      BY <1>4, <3>1, <3>2, <3>3, <3>4, SameEntrySent
    <3>6. Result(slot[f], old, "WINNER") = Register!EntrySent(Recorded[f], "WINNER")
      BY <1>2, <3>1, <3>2, <3>3, <3>4, SameEntrySent DEF RowOf
    <3>7. Result(slot[f], score, "WINNER") = Result(slot[f], old, "WINNER")
      BY <2>3 DEF Result
    <3> QED BY <3>5, <3>6, <3>7
  <2> QED BY <2>1, <2>2, <2>3
<1>6. slot'[f] = slot[f]
  BY <1>1, CorrectBracket
<1>7. Recorded' = [Recorded EXCEPT ![f] = amended]
  <2>1. \A g \in Confirmed : slot'[g] = slot[g]
    BY CorrectBracket
  <2>2. \A g \in Fixtures \ {f} : confirmed'[g] = confirmed[g]
    BY CorrectEffect
  <2>3. \A g \in Confirmed \ {f} : subs'[confirmed[g]].score = subs[confirmed[g]].score
    BY CorrectEffect
  <2> HIDE DEF amended
  <2> QED BY <1>1, <1>4, <1>6, <2>1, <2>2, <2>3, RecordedStep
<1> QED BY <1>2, <1>3, <1>5, <1>7 DEF Register!Amend

(* A new competition has an empty register. *)
LEMMA RegisterInit == Init => Register!Init
<1> SUFFICES ASSUME Init PROVE Register!Init
  OBVIOUS
<1>1. Confirmed = {}
  BY DEF Init, Confirmed
<1> QED BY <1>1 DEF Recorded, Register!Init

(* Every step is a step of the register or invisible to it. *)
LEMMA RegisterNext ==
  ASSUME RefinementInv, [Next]_vars
  PROVE  [Register!Next]_Recorded
<1> USE DEF RefinementInv, BracketInv
<1>1. ASSUME NEW f \in Fixtures, NEW s \in Submissions, NEW score \in Scores, Submit(f, s, score)
      PROVE  Recorded' = Recorded
  <2>1. \A g \in Confirmed : confirmed[g] # s
    BY <1>1 DEF RecordInv, SubmissionIntegrity, Submit, Unused
  <2>2. \A t \in Submissions \ {s} : subs'[t] = subs[t]
    BY <1>1 DEF Submit, RecordInv, TypeOK
  <2>3. \A g \in Confirmed : slot'[g] = slot[g] /\ subs'[confirmed[g]].score = subs[confirmed[g]].score
    BY <1>1, <2>1, <2>2, ConfirmedRow DEF Submit
  <2> QED BY <1>1, <2>3, RecordedUntouched DEF Submit
<1>2. ASSUME NEW s \in Submissions, Confirm(s) PROVE Register!Next
  BY <1>2, ConfirmRefines DEF Register!Next
<1>3. ASSUME NEW s \in Submissions, Reject(s) PROVE Recorded' = Recorded
  <2>1. \A g \in Confirmed : confirmed[g] # s
    BY <1>3 DEF RecordInv, SubmissionIntegrity, Reject, Rejectable
  <2>2. \A t \in Submissions \ {s} : subs'[t] = subs[t]
    BY <1>3 DEF Reject, RecordInv, TypeOK
  <2>3. \A g \in Confirmed : slot'[g] = slot[g] /\ subs'[confirmed[g]].score = subs[confirmed[g]].score
    BY <1>3, <2>1, <2>2, ConfirmedRow DEF Reject
  <2> QED BY <1>3, <2>3, RecordedUntouched DEF Reject
<1>4. ASSUME NEW f \in Fixtures, NEW s \in Submissions, NEW score \in Scores, Correct(f, s, score)
      PROVE  Register!Next
  BY <1>4, CorrectRefines DEF Register!Next
<1>5. ASSUME NEW f \in Fixtures, Reverse(f) PROVE Register!Next
  BY <1>5, ReverseRefines DEF Register!Next
<1>6. ASSUME UNCHANGED << slot, confirmed, subs >> PROVE Recorded' = Recorded
  BY <1>6, RecordedUntouched
<1> QED
  BY <1>1, <1>2, <1>3, <1>4, <1>5, <1>6
  DEF Next, CheckRequest, WriteRequest, CheckCompletion, CompleteTournament, AbandonCompletion, vars

(* The result services implement the register of results, for every        *)
(* bracket, format and number of people at work: what they do to the       *)
(* recorded results is to record, amend and withdraw them, never under     *)
(* another pair of entries and never under the feet of a later round.      *)
THEOREM Implementation == Spec => RefinesRegister
<1>1. Init => Register!Init
  BY RegisterInit
<1>2. RefinementInv /\ [Next]_vars => [Register!Next]_Recorded
  BY RegisterNext
<1> QED BY <1>1, <1>2, RefinementInvariant, PTL DEF Spec, RefinesRegister, Register!Spec

-----------------------------------------------------------------------------
(***************************************************************************)
(* The stored tables and the awards agree with the recorded results, for   *)
(* every plan as the generators make it.                                   *)
(*                                                                         *)
(* The tables are rebuilt from the rows a transaction sees, through the    *)
(* de-duplication and the stage filter.  Both keep every row when the      *)
(* pairs of the recorded fixtures tell them apart (Sound): for the stage   *)
(* the plan does, for the bracket the duplicate check of confirmResult.    *)
(* What a rebuild stores therefore stays true until the next one.          *)
(***************************************************************************)
(* A set of numbers has a least one. *)
LEMMA LeastExists ==
  ASSUME NEW T \in SUBSET Nat, T # {}
  PROVE  \E n \in T : \A m \in T : n <= m
<1> DEFINE R == {ss \in Nat \X Nat : ss[1] < ss[2]}
<1>1. IsWellFoundedOn(R, Nat)
  BY NatLessThanWellFounded DEF OpToRel
<1>2. PICK n \in T : \A m \in T : ~(<<m, n>> \in R)
  <2> HIDE DEF R
  <2> QED BY <1>1, WFMin
<1>3. \A m \in T : m \in Nat
  OBVIOUS
<1>4. ASSUME NEW m \in T PROVE n <= m
  <2>1. m \in Nat /\ n \in Nat /\ ~(m < n)
    BY <1>2, <1>3
  <2> QED BY <2>1
<1> QED BY <1>4

(* A finite set of numbers has a greatest one. *)
LEMMA MaxExists ==
  ASSUME NEW S \in SUBSET Nat, IsFiniteSet(S), S # {}
  PROVE  Max(S) \in S /\ \A n \in S : n <= Max(S)
<1> DEFINE Greater(n) == {m \in S : m > n}
           T == {Cardinality(Greater(n)) : n \in S}
<1>1. \A n \in S : IsFiniteSet(Greater(n)) /\ Cardinality(Greater(n)) \in Nat
  BY FS_Subset, FS_CardinalityType
<1>2. PICK n \in S : \A m \in S : Cardinality(Greater(n)) <= Cardinality(Greater(m))
  <2>1. T \in SUBSET Nat /\ T # {}
    BY <1>1
  <2>2. PICK x \in T : \A y \in T : x <= y
    BY <2>1, LeastExists
  <2> QED BY <2>2
<1>3. ASSUME NEW m \in S, m > n PROVE FALSE
  <2>1. \A k \in S : k > m => k > n
    <3>1. \A k \in S : k \in Nat
      OBVIOUS
    <3> QED BY <1>3, <3>1
  <2>2. m \in Greater(n) /\ m \notin Greater(m)
    BY <1>3
  <2>3. Greater(m) # Greater(n)
    BY <2>2
  <2>5. Greater(m) \subseteq Greater(n)
    BY <2>1
  <2> HIDE DEF Greater
  <2>4. Cardinality(Greater(m)) <= Cardinality(Greater(n)) /\ Cardinality(Greater(m)) # Cardinality(Greater(n))
    BY <1>1, <2>3, <2>5, FS_Subset
  <2> QED BY <1>1, <1>2, <2>4
<1>4. \A m \in S : n >= m
  BY <1>3
<1> QED BY <1>4 DEF Max

(* Rows of different meetings are all kept. *)
LEMMA NothingDropped ==
  ASSUME NEW fmt, NEW S,
         \A r, o \in S : PairKey(fmt, r) = PairKey(fmt, o) => r = o,
         \A r \in S : r.seq \in Nat
  PROVE  Deduplicated(fmt, S) = S
  BY DEF Deduplicated

(* What two rows of the same meeting share. *)
LEMMA SameKey ==
  ASSUME NEW fmt, NEW r, NEW o, Resolved(r), Resolved(o), PairKey(fmt, r) = PairKey(fmt, o)
  PROVE  IF fmt.competition = "CUSTOM_MANUAL" THEN r.seq = o.seq
         ELSE /\ r.phase = o.phase /\ r.group = o.group
              /\ IF HomeAway(fmt) THEN r.home = o.home /\ r.away = o.away
                 ELSE Participants(r) = Participants(o)
<1>1. CASE fmt.competition = "CUSTOM_MANUAL"
  BY <1>1 DEF PairKey
<1>2. CASE fmt.competition # "CUSTOM_MANUAL" /\ HomeAway(fmt)
  <2>1. <<r.phase, r.group, r.home, r.away>> = <<o.phase, o.group, o.home, o.away>>
    BY <1>2 DEF PairKey
  <2> QED BY <1>2, <2>1
<1>3. CASE fmt.competition # "CUSTOM_MANUAL" /\ ~HomeAway(fmt)
  <2>1. <<r.phase, r.group, Participants(r)>> = <<o.phase, o.group, Participants(o)>>
    BY <1>3 DEF PairKey
  <2> QED BY <1>3, <2>1
<1> QED BY <1>1, <1>2, <1>3

(* Rows that do not clash are all counted. *)
LEMMA NothingClashes ==
  ASSUME NEW fmt, NEW grp, NEW F \in SUBSET (Nat \ {0}), IsFiniteSet(F), NEW S,
         \A r \in S : r.seq \in F,
         \A r, o \in S : Eligible(fmt, grp, r) /\ Eligible(fmt, grp, o) /\ r.seq # o.seq
                           => ~StandingsClash(fmt, grp, r, o)
  PROVE  StandingsFixtures(fmt, grp, S) = {r \in S : Eligible(fmt, grp, r)}
<1> DEFINE M == Max({r.seq : r \in S} \cup {0})
           Step(g, n) == IF n = 0 THEN {}
                         ELSE g[n - 1] \cup
                              {r \in S : /\ r.seq = n
                                         /\ Eligible(fmt, grp, r)
                                         /\ \A k \in g[n - 1] : ~StandingsClash(fmt, grp, r, k)}
           kept == CHOOSE g : g = [n \in 0 .. M |-> Step(g, n)]
           all == [n \in 0 .. M |-> {r \in S : r.seq <= n /\ Eligible(fmt, grp, r)}]
<1>1. StandingsFixtures(fmt, grp, S) = {r \in S : r \in kept[r.seq]}
  BY DEF StandingsFixtures
<1>2. M \in Nat /\ \A r \in S : r.seq \in 1 .. M
  <2> DEFINE numbers == {r.seq : r \in S} \cup {0}
  <2>1. {r.seq : r \in S} \in SUBSET F
    OBVIOUS
  <2>2. IsFiniteSet({r.seq : r \in S})
    BY <2>1, FS_Subset
  <2>3. IsFiniteSet(numbers)
    BY <2>2, FS_AddElement
  <2>4. \A r \in S : r.seq \in Nat \ {0}
    <3>1. \A n \in F : n \in Nat \ {0}
      OBVIOUS
    <3> QED BY <3>1
  <2>8. numbers \in SUBSET Nat
    BY <2>4
  <2>9. 0 \in numbers /\ \A r \in S : r.seq \in numbers
    OBVIOUS
  <2>5. Max(numbers) \in numbers /\ \A n \in numbers : n <= Max(numbers)
    <3> HIDE DEF numbers
    <3> QED BY <2>3, <2>8, <2>9, MaxExists
  <2>6. M \in Nat
    <3> HIDE DEF numbers
    <3>1. Max(numbers) \in Nat
      BY <2>5, <2>8
    <3> QED BY <3>1 DEF numbers
  <2>7. \A r \in S : r.seq <= M
    BY <2>5, <2>9
  <2> HIDE DEF M
  <2>10. ASSUME NEW r \in S PROVE r.seq \in 1 .. M
    <3>1. r.seq \in Nat \ {0} /\ r.seq <= M
      BY <2>4, <2>7
    <3> QED BY <2>6, <3>1
  <2> QED BY <2>6, <2>10
<1> HIDE DEF M
<1>3. ASSUME NEW n \in 0 .. M PROVE all[n] = Step(all, n)
  <2>1. CASE n = 0
    BY <1>2, <2>1
  <2>2. CASE n # 0
    <3>1. n \in Nat \ {0} /\ n - 1 \in 0 .. M
      BY <1>2, <2>2
    <3>2. all[n - 1] = {r \in S : r.seq <= n - 1 /\ Eligible(fmt, grp, r)}
      BY <3>1
    <3>3. ASSUME NEW r \in S, r.seq = n, Eligible(fmt, grp, r), NEW k \in all[n - 1]
          PROVE  ~StandingsClash(fmt, grp, r, k)
      <4>1. k \in S /\ k.seq <= n - 1 /\ Eligible(fmt, grp, k)
        BY <3>2, <3>3
      <4>2. k.seq \in Nat
        BY <4>1
      <4>3. k.seq # r.seq
        BY <3>1, <3>3, <4>1, <4>2
      <4> QED BY <3>3, <4>1, <4>3
    <3>4. ASSUME NEW r \in S
          PROVE  r.seq <= n <=> r.seq <= n - 1 \/ r.seq = n
      <4>1. r.seq \in Nat
        OBVIOUS
      <4> QED BY <3>1, <4>1
    <3>5. Step(all, n) = all[n - 1] \cup {r \in S : r.seq = n /\ Eligible(fmt, grp, r)}
      <4> HIDE DEF all
      <4> QED BY <2>2, <3>3
    <3> QED BY <3>2, <3>4, <3>5
  <2> QED BY <2>1, <2>2
<1>4. all = [n \in 0 .. M |-> Step(all, n)]
  <2> HIDE DEF Step
  <2> QED BY <1>3
<1>5. kept = [n \in 0 .. M |-> Step(kept, n)]
  <2> HIDE DEF Step, all
  <2> QED BY <1>4
<1> HIDE DEF kept
<1>6. ASSUME NEW n \in 0 .. M, kept[n] # all[n] PROVE FALSE
  <2> DEFINE Bad == {m \in 0 .. M : kept[m] # all[m]}
  <2> HIDE DEF Step, all
  <2>1. Bad \in SUBSET Nat /\ Bad # {}
    BY <1>6
  <2>2. PICK m \in Bad : \A k \in Bad : m <= k
    <3> HIDE DEF Bad
    <3> QED BY <2>1, LeastExists
  <2>3. m \in 0 .. M
    BY <2>2
  <2>4. ASSUME m # 0 PROVE kept[m - 1] = all[m - 1]
    <3>1. m - 1 \in 0 .. M /\ ~(m <= m - 1)
      BY <1>2, <2>3, <2>4
    <3> QED BY <2>2, <3>1
  <2>5. Step(kept, m) = Step(all, m)
    BY <2>4 DEF Step
  <2>6. kept[m] = Step(kept, m) /\ all[m] = Step(all, m)
    BY <1>3, <1>5, <2>3
  <2> QED BY <2>2, <2>5, <2>6
<1>7. ASSUME NEW r \in S PROVE r \in kept[r.seq] <=> Eligible(fmt, grp, r)
  <2>1. r.seq \in 0 .. M /\ r.seq <= r.seq
    BY <1>2
  <2>2. kept[r.seq] = all[r.seq]
    BY <2>1, <1>6
  <2>3. all[r.seq] = {o \in S : o.seq <= r.seq /\ Eligible(fmt, grp, o)}
    BY <2>1
  <2> QED BY <2>1, <2>2, <2>3
<1> QED BY <1>1, <1>7

-----------------------------------------------------------------------------
(* The row of f between given pairs; FixtureRow(f) is RowIn(slot, f). *)
RowIn(pairs, f) ==
  [seq |-> f, phase |-> Plan[f].phase, group |-> Plan[f].group, matchday |-> Plan[f].matchday,
   round |-> Plan[f].round, home |-> pairs[f]["HOME"], away |-> pairs[f]["AWAY"]]

RowsIn(pairs, C) == {RowIn(pairs, f) : f \in C}

(* The fixtures the standings count. *)
CountedStage == IF Format.format = "KNOCKOUT" THEN {} ELSE Stage

(* The pairs tell the fixtures of C apart. *)
Sound(pairs, C) ==
  /\ \A f \in C : pairs[f]["HOME"] # NoEntry /\ pairs[f]["AWAY"] # NoEntry
  /\ \A f \in C : ~Knockout(f) => pairs[f]["HOME"] = Plan[f].home /\ pairs[f]["AWAY"] = Plan[f].away
  /\ \A f, g \in C : f # g /\ Knockout(f) /\ Knockout(g) =>
       PairKey(Format, RowIn(pairs, f)) # PairKey(Format, RowIn(pairs, g))

(* A row of the stage has the days and legs the plan says. *)
LEMMA StageRow ==
  ASSUME ProperStage, NEW pairs, NEW f \in Stage,
         pairs[f]["HOME"] = Plan[f].home, pairs[f]["AWAY"] = Plan[f].away
  PROVE  LET r == RowIn(pairs, f) IN
         /\ r.seq = f /\ r.phase = Plan[f].phase /\ r.group = Plan[f].group
         /\ r.home = Plan[f].home /\ r.away = Plan[f].away
         /\ Participants(r) = Participants(Plan[f])
         /\ Resolved(r)
         /\ MatchdayOf(r) = PlannedDay(f)
         /\ \A day : LegOf(Format, EntryGroup, r, day) = LegOf(Format, EntryGroup, Plan[f], day)
<1> DEFINE r == RowIn(pairs, f)
<1>1. /\ r.seq = f /\ r.phase = Plan[f].phase /\ r.group = Plan[f].group
      /\ r.home = Plan[f].home /\ r.away = Plan[f].away
      /\ r.matchday = Plan[f].matchday /\ r.round = Plan[f].round
  BY DEF RowIn
<1> HIDE DEF r
<1>2. Participants(r) = Participants(Plan[f])
  BY <1>1 DEF Participants
<1>3. Resolved(r)
  BY <1>2 DEF ProperStage, StageInScope, Resolved
<1>4. MatchdayOf(r) = PlannedDay(f)
  BY <1>1 DEF MatchdayOf, PlannedDay
<1>5. \A day : LegOf(Format, EntryGroup, r, day) = LegOf(Format, EntryGroup, Plan[f], day)
  BY <1>1 DEF LegOf
<1> QED BY <1>1, <1>2, <1>3, <1>4, <1>5 DEF r

(* No two sound rows are the same meeting. *)
LEMMA RowsDiffer ==
  ASSUME ProperStage, NEW pairs, NEW C \in SUBSET Fixtures, Sound(pairs, C),
         NEW f \in C, NEW g \in C, f # g
  PROVE  PairKey(Format, RowIn(pairs, f)) # PairKey(Format, RowIn(pairs, g))
<1> DEFINE r == RowIn(pairs, f)
           o == RowIn(pairs, g)
<1>1. /\ r.seq = f /\ r.phase = Plan[f].phase /\ r.group = Plan[f].group
      /\ o.seq = g /\ o.phase = Plan[g].phase /\ o.group = Plan[g].group
      /\ Resolved(r) /\ Resolved(o)
  BY DEF RowIn, Sound, Resolved, Participants
<1>2. CASE Format.competition = "CUSTOM_MANUAL"
  <2> HIDE DEF r, o
  <2>1. PairKey(Format, r) # PairKey(Format, o)
    BY <1>1, <1>2, SameKey
  <2> QED BY <2>1 DEF r, o
<1>3. CASE Format.competition # "CUSTOM_MANUAL" /\ Plan[f].phase # Plan[g].phase
  <2> HIDE DEF r, o
  <2>1. PairKey(Format, r) # PairKey(Format, o)
    BY <1>1, <1>3, SameKey
  <2> QED BY <2>1 DEF r, o
<1>4. CASE Knockout(f) /\ Knockout(g)
  BY <1>4 DEF Sound
<1>5. CASE Format.competition # "CUSTOM_MANUAL" /\ f \in Stage /\ g \in Stage
  <2>1. /\ r.home = Plan[f].home /\ Participants(r) = Participants(Plan[f])
        /\ o.home = Plan[g].home /\ Participants(o) = Participants(Plan[g])
    BY <1>5, StageRow DEF Sound, Stage
  <2>2. r.home = o.home /\ r.away = o.away => Participants(r) = Participants(o)
    BY DEF Participants
  <2>3. Plan[f].group = Plan[g].group /\ Participants(Plan[f]) = Participants(Plan[g]) =>
          HomeAway(Format) /\ Plan[f].home # Plan[g].home
    BY <1>5 DEF ProperStage, StageApart
  <2> HIDE DEF r, o
  <2>4. PairKey(Format, r) # PairKey(Format, o)
    BY <1>1, <1>5, <2>1, <2>2, <2>3, SameKey
  <2> QED BY <2>4 DEF r, o
<1>6. Knockout(f) /\ g \in Stage => Plan[f].phase # Plan[g].phase
  BY DEF Knockout, Stage, IsKnockoutFixture
<1>7. Knockout(g) /\ f \in Stage => Plan[f].phase # Plan[g].phase
  BY DEF Knockout, Stage, IsKnockoutFixture
<1> QED BY <1>2, <1>3, <1>4, <1>5, <1>6, <1>7 DEF Stage

(* Sound rows are eligible for the standings when they are of the stage. *)
LEMMA StageEligible ==
  ASSUME ProperStage, NEW pairs, NEW C \in SUBSET Fixtures, Sound(pairs, C), NEW f \in C
  PROVE  Eligible(Format, EntryGroup, RowIn(pairs, f)) <=> f \in CountedStage
<1> DEFINE r == RowIn(pairs, f)
<1>1. CASE f \in Stage
  <2>1. /\ r.phase = Plan[f].phase /\ r.group = Plan[f].group
        /\ r.home = Plan[f].home /\ r.away = Plan[f].away
        /\ Participants(r) = Participants(Plan[f])
        /\ Resolved(r)
    BY <1>1, StageRow DEF Sound, Stage
  <2>2. r.phase # "PLAYOFF" /\ r.home # r.away
    BY <1>1, <2>1 DEF ProperStage, StageInScope, Stage, Knockout, IsKnockoutFixture
  <2>3. ASSUME Format.groups
        PROVE  r.group # NoGroup /\ \A e \in Participants(r) : e \in DOMAIN EntryGroup /\ EntryGroup[e] = r.group
    <3>1. \A e \in Participants(Plan[f]) : e \in Entries
      BY <1>1, PlanAssumption DEF ProperStage, StageInScope, Stage, Participants, Resolved
    <3> QED BY <1>1, <2>1, <2>3, <3>1 DEF ProperStage, StageInScope, Entries
  <2> HIDE DEF r
  <2>4. Eligible(Format, EntryGroup, r) <=> Format.format # "KNOCKOUT"
    BY <2>1, <2>2, <2>3 DEF Eligible
  <2> QED BY <1>1, <2>4 DEF CountedStage, r
<1>2. CASE f \notin Stage
  <2>1. r.phase = "PLAYOFF"
    BY <1>2 DEF RowIn, Stage, Knockout, IsKnockoutFixture
  <2> HIDE DEF r
  <2>2. ~Eligible(Format, EntryGroup, r)
    BY <2>1 DEF Eligible
  <2> QED BY <1>2, <2>2 DEF CountedStage, r
<1> QED BY <1>1, <1>2

(* Sound stage rows never clash. *)
LEMMA StageNeverClashes ==
  ASSUME ProperStage, NEW pairs, NEW C \in SUBSET Fixtures, Sound(pairs, C),
         NEW f \in C \cap Stage, NEW g \in C \cap Stage, f # g
  PROVE  ~StandingsClash(Format, EntryGroup, RowIn(pairs, f), RowIn(pairs, g))
<1> DEFINE r == RowIn(pairs, f)
           o == RowIn(pairs, g)
<1> SUFFICES ASSUME Format.competition # "CUSTOM_MANUAL", Format.groups => r.group = o.group
             PROVE  /\ ~(/\ MatchdayOf(r) # 0 /\ MatchdayOf(r) = MatchdayOf(o)
                         /\ Participants(r) \cap Participants(o) # {})
                    /\ ~SameLeg(Format, EntryGroup, r, o)
  <2> HIDE DEF r, o
  <2> QED BY DEF StandingsClash, r, o
<1>1. /\ r.group = Plan[f].group /\ r.home = Plan[f].home
      /\ Participants(r) = Participants(Plan[f]) /\ MatchdayOf(r) = PlannedDay(f)
      /\ LegOf(Format, EntryGroup, r, MatchdayOf(r)) = PlannedLeg(f)
  BY StageRow DEF Sound, Stage, PlannedLeg
<1>2. /\ o.group = Plan[g].group /\ o.home = Plan[g].home
      /\ Participants(o) = Participants(Plan[g]) /\ MatchdayOf(o) = PlannedDay(g)
      /\ LegOf(Format, EntryGroup, o, MatchdayOf(o)) = PlannedLeg(g)
  BY StageRow DEF Sound, Stage, PlannedLeg
<1>3. Plan[f].group = Plan[g].group
  BY <1>1, <1>2 DEF ProperStage, StageInScope
<1>4. StageApart(f, g)
  BY <1>3 DEF ProperStage
<1> HIDE DEF r, o
<1> QED BY <1>1, <1>2, <1>4 DEF StageApart, SameLeg

(* A rebuild from sound rows drops none of them. *)
LEMMA AllRowsCount ==
  ASSUME ProperStage, NEW pairs, NEW C \in SUBSET Fixtures, Sound(pairs, C)
  PROVE  /\ Deduplicated(Format, RowsIn(pairs, C)) = RowsIn(pairs, C)
         /\ StandingsFixtures(Format, EntryGroup, RowsIn(pairs, C)) = RowsIn(pairs, C \cap CountedStage)
<1> DEFINE S == RowsIn(pairs, C)
<1>1. \A f \in C : RowIn(pairs, f).seq = f
  BY DEF RowIn
<1>2. \A r, o \in S : PairKey(Format, r) = PairKey(Format, o) => r = o
  BY RowsDiffer DEF RowsIn
<1>3. \A r \in S : r.seq \in Fixtures
  BY <1>1 DEF RowsIn
<1>4. Deduplicated(Format, S) = S
  <2>1. \A r \in S : r.seq \in Nat
    BY <1>3, FixturesAssumption
  <2> HIDE DEF S
  <2> QED BY <1>2, <2>1, NothingDropped
<1>5. ASSUME NEW r \in S, NEW o \in S, Eligible(Format, EntryGroup, r), Eligible(Format, EntryGroup, o),
             r.seq # o.seq
      PROVE  ~StandingsClash(Format, EntryGroup, r, o)
  <2>1. PICK f \in C : r = RowIn(pairs, f)
    BY DEF RowsIn
  <2>2. PICK g \in C : o = RowIn(pairs, g)
    BY DEF RowsIn
  <2>3. f \in Stage /\ g \in Stage /\ f # g
    BY <1>1, <1>5, <2>1, <2>2, StageEligible DEF CountedStage
  <2> QED BY <2>1, <2>2, <2>3, StageNeverClashes
<1>6. StandingsFixtures(Format, EntryGroup, S) = {r \in S : Eligible(Format, EntryGroup, r)}
  <2>1. Fixtures \in SUBSET (Nat \ {0}) /\ IsFiniteSet(Fixtures)
    BY FixturesAssumption
  <2> HIDE DEF S
  <2> QED BY <1>3, <1>5, <2>1, NothingClashes
<1>7. {r \in S : Eligible(Format, EntryGroup, r)} = RowsIn(pairs, C \cap CountedStage)
  BY StageEligible DEF RowsIn
<1> QED BY <1>4, <1>6, <1>7

-----------------------------------------------------------------------------
(* No two fixtures of a single-elimination bracket are between the same    *)
(* two entries.                                                            *)
Bracket == Fixtures \ Stage

In(e, f) == \E side \in Sides : slot[f][side] = e

Won(e, f) == f \in Confirmed /\ Winner(slot[f], subs[confirmed[f]].score) = e

PlannedAt(e, f) == \E side \in Sides : PlannedEntry(f, side) = e

FedBy(h, f) == Progression[h]["WINNER"] # NoTarget /\ Progression[h]["WINNER"][1] = f

(* An entry is in a slot because it was planned there or won the fixture   *)
(* that leads there.                                                       *)
LEMMA WhyInSlot ==
  ASSUME SingleElimination, RefinementInv, NEW f \in Bracket, NEW side \in Sides,
         slot[f][side] # NoEntry
  PROVE  \/ PlannedEntry(f, side) = slot[f][side]
         \/ \E h \in Bracket : /\ h < f /\ FedBy(h, f) /\ Progression[h]["WINNER"] = <<f, side>>
                              /\ Won(slot[f][side], h) /\ In(slot[f][side], h)
<1> USE DEF RefinementInv, BracketInv, Bracket
<1>1. CASE \A h \in Fixtures, o \in Outcomes : Progression[h][o] # <<f, side>>
  BY <1>1 DEF PlannedSlotsKept
<1>2. ASSUME NEW h \in Fixtures, NEW o \in Outcomes, Progression[h][o] = <<f, side>>
      PROVE  /\ h \in Bracket /\ h < f /\ FedBy(h, f) /\ Progression[h]["WINNER"] = <<f, side>>
             /\ Won(slot[f][side], h) /\ In(slot[f][side], h)
  <2>1. Progression[h][o] # NoTarget
    BY <1>2, TargetsDistinct
  <2>2. h \in Bracket
    BY <2>1, ProgressionAssumption DEF Stage
  <2>3. o = "WINNER"
    BY <2>1, <2>2 DEF SingleElimination, Outcomes
  <2>4. h < f /\ FedBy(h, f)
    <3>1. Progression[h]["WINNER"] # NoTarget /\ Progression[h]["WINNER"][1] = f
      BY <1>2, <2>1, <2>3
    <3>2. f > h
      BY <2>2, <3>1 DEF SingleElimination
    <3>3. f \in Nat /\ h \in Nat
      BY FixturesAssumption
    <3> QED BY <3>1, <3>2, <3>3 DEF FedBy
  <2>5. slot[f][side] = IF h \in Confirmed THEN Result(slot[h], subs[confirmed[h]].score, o) ELSE NoEntry
    <3>1. slot[Progression[h][o][1]][Progression[h][o][2]] =
            IF h \in Confirmed THEN Result(slot[h], subs[confirmed[h]].score, o) ELSE NoEntry
      BY <2>1 DEF BracketFollowsResults
    <3> QED BY <1>2, <3>1
  <2>6. Won(slot[f][side], h)
    BY <2>3, <2>5 DEF Won, Result
  <2>7. In(slot[f][side], h)
    BY <2>6 DEF Won, Winner, In, Sides
  <2> QED BY <1>2, <2>2, <2>3, <2>4, <2>6, <2>7
<1> QED BY <1>1, <1>2

(* An entry is nowhere before the fixture it entered in. *)
LEMMA EntersFirst ==
  ASSUME SingleElimination, RefinementInv, NEW e, e # NoEntry,
         NEW g \in Bracket, PlannedAt(e, g), NEW f \in Bracket, f # g, In(e, f)
  PROVE  g < f
<1> DEFINE Bad == {x \in Bracket : x # g /\ In(e, x) /\ ~(g < x)}
<1> SUFFICES ASSUME f \in Bad PROVE FALSE
  OBVIOUS
<1>1. Bad \in SUBSET Nat /\ Bad # {} /\ g \in Nat /\ Bracket \subseteq Nat
  BY FixturesAssumption DEF Bracket
<1>2. PICK x \in Bad : \A y \in Bad : x <= y
  <2> HIDE DEF Bad
  <2> QED BY <1>1, LeastExists
<1>3. PICK side \in Sides : slot[x][side] = e
  BY <1>2 DEF In
<1>4. PlannedEntry(x, side) # e
  BY <1>2 DEF SingleElimination, PlannedAt, Bracket
<1>5. PICK h \in Bracket : h < x /\ In(e, h)
  BY <1>2, <1>3, <1>4, WhyInSlot
<1>6. h \in Nat /\ x \in Nat
  BY <1>1, <1>2
<1> QED BY <1>1, <1>2, <1>5, <1>6

(* Of two fixtures it is in, an entry won the earlier one, and that one    *)
(* led no further than the other.                                          *)
LEMMA WinsItsWay ==
  ASSUME SingleElimination, RefinementInv, NEW e, e # NoEntry,
         NEW g \in Bracket, NEW f \in Bracket, g < f, In(e, f), In(e, g)
  PROVE  Won(e, g) /\ Progression[g]["WINNER"] # NoTarget /\ Progression[g]["WINNER"][1] <= f
<1> DEFINE OnTheWay(y, x) == Won(e, y) /\ Progression[y]["WINNER"] # NoTarget /\ Progression[y]["WINNER"][1] <= x
           Bad == {x \in Bracket : \E y \in Bracket : y < x /\ In(e, x) /\ In(e, y) /\ ~OnTheWay(y, x)}
<1> SUFFICES ASSUME f \in Bad PROVE FALSE
  OBVIOUS
<1>1. Bad \in SUBSET Nat /\ Bad # {} /\ Bracket \subseteq Nat
  BY FixturesAssumption DEF Bracket
<1>2. PICK x \in Bad : \A z \in Bad : x <= z
  <2> HIDE DEF Bad
  <2> QED BY <1>1, LeastExists
<1>3. PICK y \in Bracket : y < x /\ In(e, x) /\ In(e, y) /\ ~OnTheWay(y, x)
  BY <1>2
<1>4. x \in Bracket /\ x \in Nat /\ y \in Nat
  BY <1>1, <1>2
<1>5. PICK side \in Sides : slot[x][side] = e
  BY <1>3 DEF In
<1>6. ~PlannedAt(e, x)
  BY <1>3, <1>4, EntersFirst
<1>7. PICK h \in Bracket : h < x /\ FedBy(h, x) /\ Won(e, h) /\ In(e, h)
  BY <1>4, <1>5, <1>6, WhyInSlot DEF PlannedAt
<1>8. h \in Nat
  BY <1>1
<1>9. Progression[h]["WINNER"] # NoTarget /\ Progression[h]["WINNER"][1] = x
  BY <1>7 DEF FedBy
<1>10. ASSUME NEW z \in Bracket, z < x, NEW w \in Bracket, w < z, In(e, z), In(e, w)
       PROVE  OnTheWay(w, z)
  <2>1. z \in Nat /\ ~(x <= z)
    BY <1>1, <1>4, <1>10
  <2>2. z \notin Bad
    BY <1>2, <2>1
  <2> QED BY <1>10, <2>2
<1>11. CASE y = h
  BY <1>3, <1>4, <1>7, <1>9, <1>11
<1>12. CASE y < h
  <2>1. OnTheWay(y, h)
    BY <1>3, <1>7, <1>10, <1>12
  <2>2. Progression[y]["WINNER"][1] \in Nat
    <3>1. Progression[y]["WINNER"] \in Targets
      BY <2>1, ProgressionAssumption DEF Bracket, Outcomes
    <3> QED BY <3>1, FixturesAssumption DEF Targets
  <2> QED BY <1>3, <1>4, <1>7, <1>8, <2>1, <2>2
<1>13. CASE h < y
  <2>1. OnTheWay(h, y)
    BY <1>3, <1>7, <1>10, <1>13
  <2> QED BY <1>3, <1>4, <1>9, <2>1
<1> QED BY <1>4, <1>8, <1>11, <1>12, <1>13

(* Nobody meets itself in the bracket. *)
LEMMA BracketPairDiffers ==
  ASSUME SingleElimination, RefinementInv, NEW f \in Bracket, Ready(f)
  PROVE  slot[f]["HOME"] # slot[f]["AWAY"]
<1> SUFFICES ASSUME slot[f]["HOME"] = slot[f]["AWAY"] PROVE FALSE
  OBVIOUS
<1> DEFINE e == slot[f]["HOME"]
<1>1. e # NoEntry /\ slot[f]["AWAY"] = e /\ "HOME" \in Sides /\ "AWAY" \in Sides
  BY DEF Ready, Sides
<1>2. f \in Nat /\ Bracket \subseteq Nat
  BY FixturesAssumption DEF Bracket
<1>3. ~PlannedAt(e, f)
  <2>1. ASSUME PlannedAt(e, f), NEW h \in Bracket, h < f, In(e, h) PROVE FALSE
    BY <1>1, <1>2, <2>1, EntersFirst
  <2>2. ASSUME PlannedAt(e, f) PROVE FALSE
    <3>1. PlannedEntry(f, "HOME") = e /\ PlannedEntry(f, "AWAY") = e
      BY <1>1, <2>1, <2>2, WhyInSlot
    <3> QED BY <1>1, <3>1 DEF SingleElimination, Bracket
  <2> QED BY <2>2
<1>4. PICK h \in Bracket : /\ h < f /\ FedBy(h, f) /\ Progression[h]["WINNER"] = <<f, "HOME">>
                           /\ Won(e, h) /\ In(e, h)
  BY <1>1, <1>3, WhyInSlot DEF PlannedAt
<1>5. PICK k \in Bracket : /\ k < f /\ FedBy(k, f) /\ Progression[k]["WINNER"] = <<f, "AWAY">>
                           /\ Won(e, k) /\ In(e, k)
  BY <1>1, <1>3, WhyInSlot DEF PlannedAt
<1>6. h # k
  BY <1>4, <1>5
<1>7. h \in Nat /\ k \in Nat
  BY <1>2
<1>8. CASE h < k
  BY <1>1, <1>2, <1>4, <1>5, <1>7, <1>8, WinsItsWay
<1>9. CASE k < h
  BY <1>1, <1>2, <1>4, <1>5, <1>7, <1>9, WinsItsWay
<1> QED BY <1>6, <1>7, <1>8, <1>9

LEMMA NoRematch ==
  ASSUME SingleElimination, RefinementInv, NEW f \in Bracket, NEW g \in Bracket, f # g,
         Ready(f), Ready(g)
  PROVE  {slot[f]["HOME"], slot[f]["AWAY"]} # {slot[g]["HOME"], slot[g]["AWAY"]}
<1>1. ASSUME NEW x \in Bracket, NEW y \in Bracket, x < y, Ready(x), Ready(y),
             {slot[x]["HOME"], slot[x]["AWAY"]} = {slot[y]["HOME"], slot[y]["AWAY"]}
      PROVE  FALSE
  <2>1. slot[y]["HOME"] # NoEntry /\ slot[y]["AWAY"] # NoEntry
    BY <1>1 DEF Ready, Sides
  <2>2. In(slot[y]["HOME"], y) /\ In(slot[y]["AWAY"], y)
    BY DEF In, Sides
  <2>3. In(slot[y]["HOME"], x) /\ In(slot[y]["AWAY"], x)
    BY <1>1 DEF In, Sides
  <2>4. Won(slot[y]["HOME"], x) /\ Won(slot[y]["AWAY"], x)
    BY <1>1, <2>1, <2>2, <2>3, WinsItsWay
  <2>5. slot[y]["HOME"] # slot[y]["AWAY"]
    BY <1>1, BracketPairDiffers
  <2> QED BY <2>4, <2>5 DEF Won
<1>2. f \in Nat /\ g \in Nat
  BY FixturesAssumption DEF Bracket
<1>3. f < g \/ g < f
  BY <1>2
<1> QED BY <1>1, <1>3

-----------------------------------------------------------------------------
ProperPlan == ProperStage /\ BracketTold

CountedRow(f) ==
  [match |-> f, home |-> slot[f]["HOME"], away |-> slot[f]["AWAY"], score |-> subs[confirmed[f]].score]

(* The tables hold rows of recorded results only, and those of every       *)
(* fixture that shows as completed.                                        *)
TablesMatch ==
  /\ tables.players \subseteq {CountedRow(f) : f \in Confirmed}
  /\ tables.standings \subseteq {CountedRow(f) : f \in Confirmed \cap CountedStage}
  /\ \A f \in Confirmed : status[f] = "COMPLETED" =>
       /\ CountedRow(f) \in tables.players
       /\ f \in CountedStage => CountedRow(f) \in tables.standings

TablesInv ==
  /\ ProperPlan
  /\ RefinementInv
  /\ Sound(slot, Confirmed)
  /\ TablesMatch

(* A stage fixture keeps the entries the plan gave it. *)
LEMMA StageKeepsEntries ==
  ASSUME ProperStage, PlannedSlotsKept, NEW f \in Stage
  PROVE  slot[f]["HOME"] = Plan[f].home /\ slot[f]["AWAY"] = Plan[f].away
<1>1. ASSUME NEW side \in Sides PROVE slot[f][side] = PlannedEntry(f, side)
  <2>1. PlannedEntry(f, side) # NoEntry
    BY DEF PlannedEntry, ProperStage, StageInScope, Resolved, Participants
  <2>2. ASSUME NEW g \in Fixtures, NEW o \in Outcomes, Progression[g][o] = <<f, side>> PROVE FALSE
    <3>1. Progression[g][o] # NoTarget
      BY <2>2, TargetsDistinct DEF Stage
    <3>2. PlannedEntry(Progression[g][o][1], Progression[g][o][2]) = NoEntry
      BY <3>1, ProgressionAssumption
    <3> QED BY <2>1, <2>2, <3>2
  <2> QED BY <2>2 DEF PlannedSlotsKept, Stage
<1>2. slot[f]["HOME"] = PlannedEntry(f, "HOME") /\ slot[f]["AWAY"] = PlannedEntry(f, "AWAY")
  BY <1>1 DEF Sides
<1> QED BY <1>2 DEF PlannedEntry

(* Fewer fixtures, and other pairs elsewhere, stay sound. *)
LEMMA SoundPart ==
  ASSUME NEW pairs, NEW others, NEW C, Sound(pairs, C), NEW D \in SUBSET C,
         \A f \in D : others[f] = pairs[f]
  PROVE  Sound(others, D)
<1>1. \A f \in D : RowIn(others, f) = RowIn(pairs, f)
  BY DEF RowIn
<1> QED BY <1>1 DEF Sound

(* The duplicate check lets no bracket fixture in that repeats a recorded  *)
(* pair, in a competition of one leg; in one of two legs no pair repeats.  *)
LEMMA NewPairIsSound ==
  ASSUME ProperPlan, RefinementInv, Sound(slot, Confirmed),
         NEW f \in Fixtures, f \notin Confirmed, Ready(f), ~Conflicts(f, Confirmed)
  PROVE  Sound(slot, Confirmed \cup {f})
<1>1. slot[f]["HOME"] # NoEntry /\ slot[f]["AWAY"] # NoEntry
  BY DEF Ready, Sides
<1>2. ~Knockout(f) => slot[f]["HOME"] = Plan[f].home /\ slot[f]["AWAY"] = Plan[f].away
  BY StageKeepsEntries DEF ProperPlan, Stage, RefinementInv
<1>3. ASSUME NEW g \in Confirmed, Knockout(f), Knockout(g)
      PROVE  PairKey(Format, RowIn(slot, f)) # PairKey(Format, RowIn(slot, g))
  <2> DEFINE r == RowIn(slot, f)
             o == RowIn(slot, g)
  <2>1. r = FixtureRow(f) /\ o = FixtureRow(g)
    BY DEF RowIn, FixtureRow
  <2>2. r.seq = f /\ o.seq = g /\ Resolved(r) /\ Resolved(o)
    BY <1>1 DEF RowIn, Sound, Resolved, Participants
  <2>3. f # g
    OBVIOUS
  <2>4. ~PairConflict(Format, EntryGroup, r, o)
    BY <2>1 DEF Conflicts
  <2>5. ASSUME Format.competition # "CUSTOM_MANUAL", HomeAway(Format)
        PROVE  ~(r.home = o.home /\ r.away = o.away)
    <3>1. Ready(g)
      BY DEF RefinementInv, BracketInv, BracketFollowsResults
    <3>2. f \in Bracket /\ g \in Bracket
      BY <1>3 DEF Bracket, Stage, Confirmed
    <3>3. {slot[f]["HOME"], slot[f]["AWAY"]} # {slot[g]["HOME"], slot[g]["AWAY"]}
      BY <2>3, <2>5, <3>1, <3>2, NoRematch DEF ProperPlan, BracketTold
    <3> QED BY <3>3 DEF RowIn
  <2> HIDE DEF r, o
  <2>6. ASSUME PairKey(Format, r) = PairKey(Format, o), ~HomeAway(Format),
               Format.competition # "CUSTOM_MANUAL"
        PROVE  FALSE
    <3>1. r.group = o.group /\ Participants(r) = Participants(o)
      BY <2>2, <2>6, SameKey
    <3>2. SameMeeting(Format, EntryGroup, r, o)
      <4>1. LegOf(Format, EntryGroup, r, MatchdayOf(r)) = 0
        BY <2>6 DEF LegOf
      <4> QED BY <2>6, <3>1, <4>1 DEF SameMeeting
    <3> QED BY <2>2, <2>3, <2>4, <2>6, <3>1, <3>2 DEF PairConflict
  <2>7. PairKey(Format, r) # PairKey(Format, o)
    BY <2>2, <2>3, <2>5, <2>6, SameKey
  <2> QED BY <2>7 DEF r, o
<1> QED BY <1>1, <1>2, <1>3 DEF Sound

(* What a rebuild stores, when the rows it reads are sound. *)
LEMMA RebuiltFromSound ==
  ASSUME ProperStage, NEW st, NEW cf, NEW sb,
         NEW C, C = {f \in Fixtures : st[f] = "COMPLETED" /\ cf[f] # NoSubmission},
         \A f \in C : sb[cf[f]].status = "CONFIRMED",
         Sound(slot, C)
  PROVE  LET Row_(f) == [match |-> f, home |-> slot[f]["HOME"], away |-> slot[f]["AWAY"],
                         score |-> sb[cf[f]].score]
         IN  /\ ResultsOf(Canonical(st, cf, sb), cf, sb) = {Row_(f) : f \in C}
             /\ ResultsOf(StandingsFixtures(Format, EntryGroup, Canonical(st, cf, sb)), cf, sb) =
                  {Row_(f) : f \in C \cap CountedStage}
<1> DEFINE Row_(f) == [match |-> f, home |-> slot[f]["HOME"], away |-> slot[f]["AWAY"],
                       score |-> sb[cf[f]].score]
<1>1. Canonical(st, cf, sb) = Deduplicated(Format, RowsIn(slot, C))
  <2>1. {f \in Fixtures : st[f] = "COMPLETED" /\ cf[f] # NoSubmission /\ sb[cf[f]].status = "CONFIRMED"} = C
    OBVIOUS
  <2>2. \A f : FixtureRow(f) = RowIn(slot, f)
    BY DEF FixtureRow, RowIn
  <2> QED BY <2>1, <2>2 DEF Canonical, RowsIn
<1>2. /\ Canonical(st, cf, sb) = RowsIn(slot, C)
      /\ StandingsFixtures(Format, EntryGroup, Canonical(st, cf, sb)) = RowsIn(slot, C \cap CountedStage)
  <2>1. C \in SUBSET Fixtures
    OBVIOUS
  <2> QED BY <1>1, <2>1, AllRowsCount
<1>3. ASSUME NEW D PROVE ResultsOf(RowsIn(slot, D), cf, sb) = {Row_(f) : f \in D}
  <2> DEFINE Of(r) == [match |-> r.seq, home |-> r.home, away |-> r.away, score |-> sb[cf[r.seq]].score]
  <2>1. \A f : Of(RowIn(slot, f)) = Row_(f)
    BY DEF RowIn
  <2>2. ResultsOf(RowsIn(slot, D), cf, sb) = {Of(r) : r \in RowsIn(slot, D)}
    BY DEF ResultsOf
  <2> HIDE DEF Of, Row_
  <2> QED BY <2>1, <2>2 DEF RowsIn
<1> HIDE DEF Row_
<1>4. /\ ResultsOf(Canonical(st, cf, sb), cf, sb) = {Row_(f) : f \in C}
      /\ ResultsOf(StandingsFixtures(Format, EntryGroup, Canonical(st, cf, sb)), cf, sb) =
           {Row_(f) : f \in C \cap CountedStage}
  BY <1>2, <1>3
<1> QED BY <1>4 DEF Row_

(* So a step that rebuilds the tables makes them match.  The rows it reads *)
(* name the participants as they were before it moved the bracket, and no  *)
(* fixture with a result is moved.                                         *)
LEMMA RebuildingMatches ==
  ASSUME ProperStage, SubmissionIntegrity', Sound(slot, Confirmed'),
         \A f \in Confirmed' : slot'[f] = slot[f],
         tables' = Rebuilt(status', confirmed', subs')
  PROVE  TablesMatch'
<1> DEFINE C == {f \in Fixtures : status'[f] = "COMPLETED" /\ confirmed'[f] # NoSubmission}
           Row_(f) == [match |-> f, home |-> slot[f]["HOME"], away |-> slot[f]["AWAY"],
                       score |-> subs'[confirmed'[f]].score]
<1>1. C \subseteq Confirmed' /\ \A f \in Confirmed' : f \in C <=> status'[f] = "COMPLETED"
  BY DEF Confirmed
<1>2. \A f \in C : subs'[confirmed'[f]].status = "CONFIRMED"
  BY <1>1 DEF SubmissionIntegrity
<1>3. Sound(slot, C)
  BY <1>1, SoundPart
<1>4. /\ tables'.players = {Row_(f) : f \in C}
      /\ tables'.standings = {Row_(f) : f \in C \cap CountedStage}
  <2> HIDE DEF C
  <2>1. C = {f \in Fixtures : status'[f] = "COMPLETED" /\ confirmed'[f] # NoSubmission}
    BY DEF C
  <2>2. /\ ResultsOf(Canonical(status', confirmed', subs'), confirmed', subs') = {Row_(f) : f \in C}
        /\ ResultsOf(StandingsFixtures(Format, EntryGroup, Canonical(status', confirmed', subs')), confirmed', subs') =
             {Row_(f) : f \in C \cap CountedStage}
    BY <1>2, <1>3, <2>1, RebuiltFromSound
  <2> HIDE DEF Row_
  <2> QED BY <2>2 DEF Rebuilt
<1>5. \A f \in Confirmed' : CountedRow(f)' = Row_(f)
  BY DEF CountedRow
<1>6. /\ tables'.players \subseteq {CountedRow(f)' : f \in Confirmed'}
      /\ tables'.standings \subseteq {CountedRow(f)' : f \in Confirmed' \cap CountedStage}
      /\ \A f \in Confirmed' : status'[f] = "COMPLETED" =>
           /\ CountedRow(f)' \in tables'.players
           /\ f \in CountedStage => CountedRow(f)' \in tables'.standings
  <2> HIDE DEF C, Row_
  <2> QED BY <1>1, <1>4, <1>5
<1> QED BY <1>6 DEF TablesMatch, CountedStage, Stage, Knockout

(* The steps that change no result and complete no fixture. *)
LEMMA TablesUntouched ==
  ASSUME TablesMatch, Sound(slot, Confirmed),
         UNCHANGED << slot, confirmed, tables >>,
         \A f \in Confirmed : subs'[confirmed[f]] = subs[confirmed[f]],
         \A f \in Fixtures : status'[f] = "COMPLETED" => status[f] = "COMPLETED"
  PROVE  TablesMatch' /\ Sound(slot', Confirmed')
<1>1. Confirmed' = Confirmed
  BY DEF Confirmed
<1>2. \A f \in Confirmed : CountedRow(f)' = CountedRow(f)
  BY DEF CountedRow
<1>3. CountedStage' = CountedStage
  BY DEF CountedStage, Stage, Knockout
<1>4. Confirmed \subseteq Fixtures
  BY DEF Confirmed
<1>5. TablesMatch'
  <2> HIDE DEF CountedRow, Confirmed, CountedStage
  <2>1. tables'.players \subseteq {CountedRow(f)' : f \in Confirmed}
    BY <1>2 DEF TablesMatch
  <2>2. tables'.standings \subseteq {CountedRow(f)' : f \in Confirmed \cap CountedStage}
    BY <1>2 DEF TablesMatch
  <2>3. \A f \in Confirmed : status'[f] = "COMPLETED" =>
          /\ CountedRow(f)' \in tables'.players
          /\ f \in CountedStage => CountedRow(f)' \in tables'.standings
    BY <1>2, <1>4 DEF TablesMatch
  <2> QED BY <1>1, <1>3, <2>1, <2>2, <2>3 DEF TablesMatch
<1> QED BY <1>1, <1>5

(* A confirmation makes the tables match with the new result. *)
LEMMA ConfirmTables ==
  ASSUME TablesInv, RefinementInv', NEW s \in Submissions, Confirm(s)
  PROVE  TablesMatch' /\ Sound(slot', Confirmed')
<1> DEFINE f == subs[s].match
<1> USE DEF TablesInv, RefinementInv, BracketInv
<1>1. /\ f \in Fixtures /\ f \notin Confirmed /\ Ready(f)
      /\ confirmed'[f] = s /\ s # NoSubmission
      /\ \A g \in Fixtures \ {f} : confirmed'[g] = confirmed[g]
      /\ slot' = Moved(f, SentBy(f, subs[s].score))
  BY ConfirmEffect
<1>2. Confirmed' = Confirmed \cup {f}
  BY <1>1 DEF Confirmed
<1>3. Sound(slot, Confirmed')
  BY <1>1, <1>2, NewPairIsSound DEF Confirm
<1>4. \A g \in Confirmed' : slot'[g] = slot[g]
  BY <1>1, <1>2, ConfirmBracket, OwnSlotsStay DEF RecordInv
<1>5. TablesMatch'
  BY <1>3, <1>4, RebuildingMatches DEF RecordInv, Confirm, ProperPlan
<1>6. Sound(slot', Confirmed')
  BY <1>3, <1>4, SoundPart
<1> QED BY <1>5, <1>6

(* A correction makes them match with the corrected result. *)
LEMMA CorrectTables ==
  ASSUME TablesInv, RefinementInv', NEW f \in Fixtures, NEW s \in Submissions, NEW score \in Scores,
         Correct(f, s, score)
  PROVE  TablesMatch' /\ Sound(slot', Confirmed') /\ Confirmed' = Confirmed
<1> USE DEF TablesInv, RefinementInv, BracketInv
<1>1. /\ f \in Confirmed
      /\ confirmed'[f] = s /\ s # NoSubmission
      /\ \A g \in Fixtures \ {f} : confirmed'[g] = confirmed[g]
  BY CorrectEffect
<1>2. Confirmed' = Confirmed
  BY <1>1 DEF Confirmed
<1>3. \A g \in Confirmed' : slot'[g] = slot[g]
  BY <1>2, CorrectBracket
<1>4. TablesMatch'
  BY <1>2, <1>3, RebuildingMatches DEF RecordInv, Correct, ProperPlan
<1>5. Sound(slot', Confirmed')
  BY <1>2, <1>3, SoundPart
<1> QED BY <1>2, <1>4, <1>5

(* A reversal makes them match without the reversed result. *)
LEMMA ReverseTables ==
  ASSUME TablesInv, RefinementInv', NEW f \in Fixtures, Reverse(f)
  PROVE  TablesMatch' /\ Sound(slot', Confirmed')
<1> USE DEF TablesInv, RefinementInv, BracketInv
<1>1. /\ f \in Confirmed
      /\ confirmed'[f] = NoSubmission
      /\ \A g \in Fixtures \ {f} : confirmed'[g] = confirmed[g]
  BY ReverseEffect
<1>2. Confirmed' \subseteq Confirmed
  BY <1>1 DEF Confirmed
<1>3. \A g \in Confirmed' : slot'[g] = slot[g]
  BY <1>2, ReverseBracket
<1>4. Sound(slot, Confirmed')
  BY <1>2, SoundPart
<1>5. TablesMatch'
  BY <1>3, <1>4, RebuildingMatches DEF RecordInv, Reverse, ProperPlan
<1>6. Sound(slot', Confirmed')
  BY <1>3, <1>4, SoundPart
<1> QED BY <1>5, <1>6

(* Every step keeps the tables in agreement with the results. *)
LEMMA TablesNext ==
  ASSUME TablesInv, RefinementInv', [Next]_vars
  PROVE  TablesInv'
<1> DEFINE Goal == TablesMatch' /\ Sound(slot', Confirmed')
<1> USE DEF TablesInv, RefinementInv, BracketInv
<1>1. ASSUME NEW f \in Fixtures, NEW s \in Submissions, NEW score \in Scores, Submit(f, s, score)
      PROVE  Goal
  <2>1. \A g \in Confirmed : confirmed[g] # s
    BY <1>1 DEF RecordInv, SubmissionIntegrity, Submit, Unused
  <2>2. \A g \in Confirmed : subs'[confirmed[g]] = subs[confirmed[g]]
    BY <1>1, <2>1 DEF Submit, Confirmed, RecordInv, TypeOK
  <2> QED BY <1>1, <2>2, TablesUntouched DEF Submit
<1>2. ASSUME NEW s \in Submissions, Confirm(s) PROVE Goal
  BY <1>2, ConfirmTables
<1>3. ASSUME NEW s \in Submissions, Reject(s) PROVE Goal
  <2>1. \A g \in Confirmed : confirmed[g] # s
    BY <1>3 DEF RecordInv, SubmissionIntegrity, Reject, Rejectable
  <2>2. \A g \in Confirmed : subs'[confirmed[g]] = subs[confirmed[g]]
    BY <1>3, <2>1 DEF Reject, Confirmed, RecordInv, TypeOK
  <2> QED BY <1>3, <2>2, TablesUntouched DEF Reject
<1>4. ASSUME NEW f \in Fixtures, NEW s \in Submissions, NEW score \in Scores, Correct(f, s, score)
      PROVE  Goal
  BY <1>4, CorrectTables
<1>5. ASSUME NEW f \in Fixtures, Reverse(f) PROVE Goal
  BY <1>5, ReverseTables
<1>6. ASSUME NEW q \in requests, WriteRequest(q) PROVE Goal
  <2>1. q.op \in Operations /\ q.fixture \in Fixtures
    BY DEF RecordInv, TypeOK, Requests
  <2>2. StatusAfter(q.op) # "COMPLETED"
    BY <2>1 DEF Operations, StatusAfter
  <2>3. \A f \in Fixtures : status'[f] = "COMPLETED" => status[f] = "COMPLETED"
    BY <1>6, <2>2 DEF WriteRequest, RecordInv, TypeOK
  <2> QED BY <1>6, <2>3, TablesUntouched DEF WriteRequest
<1>7. ASSUME UNCHANGED << slot, status, confirmed, subs, tables >> PROVE Goal
  BY <1>7, TablesUntouched
<1>8. Goal
  BY <1>1, <1>2, <1>3, <1>4, <1>5, <1>6, <1>7
  DEF Next, CheckRequest, CheckCompletion, CompleteTournament, AbandonCompletion, vars
<1>9. ProperPlan'
  BY DEF ProperPlan, ProperStage, BracketTold, SingleElimination, StageInScope, StageApart, Stage, Knockout,
         PlannedDay, PlannedLeg, PlannedEntry
<1> QED BY <1>8, <1>9

(* The tables of a new competition are empty, and so are its results. *)
LEMMA TablesInit ==
  ASSUME ProperPlan, Init
  PROVE  TablesMatch /\ Sound(slot, Confirmed)
<1>1. Confirmed = {}
  BY DEF Init, Confirmed
<1>2. tables.players = {} /\ tables.standings = {}
  BY DEF Init
<1> QED BY <1>1, <1>2 DEF TablesMatch, Sound

THEOREM TablesInvariant == ProperPlan /\ Spec => []TablesInv
<1>1. ProperPlan /\ Init /\ RefinementInv => TablesInv
  BY TablesInit DEF TablesInv
<1>2. TablesInv /\ RefinementInv' /\ [Next]_vars => TablesInv'
  BY TablesNext
<1> QED BY <1>1, <1>2, RefinementInvariant, PTL DEF Spec

(* What the services would count now is the recorded results. *)
LEMMA RecomputedResults ==
  ASSUME TablesInv
  PROVE  /\ Recomputed.players = {CountedRow(f) : f \in Confirmed}
         /\ Recomputed.standings = {CountedRow(f) : f \in Confirmed \cap CountedStage}
<1> DEFINE st == [f \in Fixtures |-> "COMPLETED"]
<1>1. Confirmed = {f \in Fixtures : st[f] = "COMPLETED" /\ confirmed[f] # NoSubmission}
  BY DEF Confirmed
<1>2. \A f \in Confirmed : subs[confirmed[f]].status = "CONFIRMED"
  BY DEF TablesInv, RefinementInv, BracketInv, RecordInv, SubmissionIntegrity
<1> HIDE DEF st
<1>3. /\ ResultsOf(Canonical(st, confirmed, subs), confirmed, subs) = {CountedRow(f) : f \in Confirmed}
      /\ ResultsOf(StandingsFixtures(Format, EntryGroup, Canonical(st, confirmed, subs)), confirmed, subs) =
           {CountedRow(f) : f \in Confirmed \cap CountedStage}
  <2>1. ProperStage /\ Sound(slot, Confirmed)
    BY DEF TablesInv, ProperPlan
  <2> QED BY <1>1, <1>2, <2>1, RebuiltFromSound DEF CountedRow
<1> QED BY <1>3 DEF Recomputed, st

(* In every tournament with a proper plan, whatever late schedule,         *)
(* postpone and cancel writes hide and reveal, no stored table row counts  *)
(* a result that was withdrawn, replaced or played by others.              *)
THEOREM NoPhantoms == ProperPlan /\ Spec => []NoPhantomResult
<1>1. TablesInv => NoPhantomResult
  <2> SUFFICES ASSUME TablesInv PROVE NoPhantomResult
    OBVIOUS
  <2>1. /\ tables.players \subseteq {CountedRow(f) : f \in Confirmed}
        /\ tables.standings \subseteq {CountedRow(f) : f \in Confirmed \cap CountedStage}
    BY DEF TablesInv, TablesMatch
  <2> QED BY <2>1, RecomputedResults DEF NoPhantomResult
<1> QED BY <1>1, TablesInvariant, PTL

(* In every tournament with a proper plan neither the de-duplication nor   *)
(* the stage filter drops a result the duplicate check let through.        *)
THEOREM AllResultsCount == ProperPlan /\ Spec => []EveryResultCounts
<1>1. TablesInv => EveryResultCounts
  <2> SUFFICES ASSUME TablesInv, \A f \in Confirmed : status[f] = "COMPLETED"
               PROVE  /\ {x.match : x \in tables.players} = Confirmed
                      /\ {x.match : x \in tables.standings} =
                           {f \in Confirmed : ~Knockout(f) /\ Format.format # "KNOCKOUT"}
    BY DEF EveryResultCounts
  <2>1. \A f : CountedRow(f).match = f
    BY DEF CountedRow
  <2>2. tables.players = {CountedRow(f) : f \in Confirmed}
    BY DEF TablesInv, TablesMatch
  <2>3. tables.standings = {CountedRow(f) : f \in Confirmed \cap CountedStage}
    BY DEF TablesInv, TablesMatch
  <2>4. Confirmed \cap CountedStage = {f \in Confirmed : ~Knockout(f) /\ Format.format # "KNOCKOUT"}
    BY DEF CountedStage, Stage, Confirmed
  <2> HIDE DEF CountedRow, Confirmed
  <2>5. {x.match : x \in tables.players} = Confirmed
    BY <2>1, <2>2
  <2>6. {x.match : x \in tables.standings} = Confirmed \cap CountedStage
    BY <2>1, <2>3
  <2> QED BY <2>4, <2>5, <2>6
<1> QED BY <1>1, TablesInvariant, PTL

-----------------------------------------------------------------------------
(* The duplicate check refuses only what repeats a recorded meeting. *)

(* A bracket fixture has no matchday, so only the pair could be refused. *)
LEMMA BracketConflict ==
  ASSUME SingleElimination, RefinementInv, NEW f \in Bracket, NEW g \in Bracket, Ready(f), Ready(g)
  PROVE  ~PairConflict(Format, EntryGroup, FixtureRow(f), FixtureRow(g))
<1> DEFINE r == FixtureRow(f)
           o == FixtureRow(g)
<1>1. /\ r.seq = f /\ o.seq = g /\ o.matchday = 0
      /\ Participants(r) = {slot[f]["HOME"], slot[f]["AWAY"]}
      /\ Participants(o) = {slot[g]["HOME"], slot[g]["AWAY"]}
      /\ Participants(r) = {r.home, r.away} /\ Participants(o) = {o.home, o.away}
  BY DEF FixtureRow, Participants, SingleElimination, Bracket
<1>2. f # g => Participants(r) # Participants(o)
  BY <1>1, NoRematch
<1> HIDE DEF r, o
<1>3. ~SameDay(r, o)
  BY <1>1 DEF SameDay
<1>4. f # g => ~SameMeeting(Format, EntryGroup, r, o)
  <2>1. 0 \notin 1 .. 2 * RoundsPerLeg(ScopeSize(EntryGroup, r.group))
    OBVIOUS
  <2> QED BY <1>1, <1>2, <2>1 DEF SameMeeting
<1>5. ~PairConflict(Format, EntryGroup, r, o)
  BY <1>1, <1>3, <1>4 DEF PairConflict
<1> QED BY <1>5 DEF r, o

(* Two stage fixtures are not the same meeting, whatever was recorded. *)
LEMMA StageConflict ==
  ASSUME ProperStage, PlannedSlotsKept, NEW f \in Stage, NEW g \in Stage
  PROVE  ~PairConflict(Format, EntryGroup, FixtureRow(f), FixtureRow(g))
<1> DEFINE r == FixtureRow(f)
           o == FixtureRow(g)
<1>1. r = RowIn(slot, f) /\ o = RowIn(slot, g) /\ o.matchday = Plan[g].matchday
  BY DEF FixtureRow, RowIn
<1>2. /\ r.seq = f /\ r.group = Plan[f].group /\ r.home = Plan[f].home
      /\ Participants(r) = Participants(Plan[f]) /\ MatchdayOf(r) = PlannedDay(f)
      /\ \A day : LegOf(Format, EntryGroup, r, day) = LegOf(Format, EntryGroup, Plan[f], day)
  BY <1>1, StageRow, StageKeepsEntries
<1>3. /\ o.seq = g /\ o.group = Plan[g].group /\ o.home = Plan[g].home
      /\ Participants(o) = Participants(Plan[g])
  BY <1>1, StageRow, StageKeepsEntries
<1>4. o.matchday # 0 => PlannedDay(g) = o.matchday
  BY <1>1 DEF PlannedDay, MatchdayOf
<1> HIDE DEF r, o
<1> SUFFICES ASSUME f # g, r.group = o.group, Format.competition # "CUSTOM_MANUAL"
             PROVE  ~SameDay(r, o) /\ ~SameMeeting(Format, EntryGroup, r, o)
  BY <1>2, <1>3 DEF PairConflict, r, o
<1>5. StageApart(f, g)
  BY <1>2, <1>3 DEF ProperStage
<1>6. ~SameDay(r, o)
  BY <1>2, <1>3, <1>4, <1>5 DEF SameDay, StageApart
<1>7. ~SameMeeting(Format, EntryGroup, r, o)
  <2> DEFINE leg == LegOf(Format, EntryGroup, r, MatchdayOf(r))
  <2>1. leg = PlannedLeg(f)
    BY <1>2 DEF PlannedLeg
  <2>2. CASE leg # 0
    <3>1. ASSUME Participants(r) = Participants(o),
                 o.matchday \in 1 .. 2 * RoundsPerLeg(ScopeSize(EntryGroup, r.group)),
                 LegOf(Format, EntryGroup, r, o.matchday) = leg
          PROVE  FALSE
      <4>1. PlannedDay(g) = o.matchday
        BY <1>4, <3>1
      <4>2. LegOf(Format, EntryGroup, Plan[f], o.matchday) = LegOf(Format, EntryGroup, Plan[g], o.matchday)
        BY <1>2, <1>3 DEF LegOf
      <4>3. PlannedLeg(g) = leg
        BY <1>2, <3>1, <4>1, <4>2 DEF PlannedLeg
      <4> QED BY <1>2, <1>3, <1>5, <2>1, <2>2, <3>1, <4>3 DEF StageApart
    <3> QED BY <2>2, <3>1 DEF SameMeeting
  <2>3. CASE leg = 0
    <3>1. r.home = o.home => ~(Participants(r) = Participants(o))
      BY <1>2, <1>3, <1>5 DEF StageApart
    <3>2. ~HomeAway(Format) => ~(Participants(r) = Participants(o))
      BY <1>2, <1>3, <1>5 DEF StageApart
    <3>3. r.home = o.home /\ r.away = o.away => Participants(r) = Participants(o)
      BY DEF Participants
    <3> QED BY <2>3, <3>1, <3>2, <3>3 DEF SameMeeting
  <2> QED BY <2>2, <2>3
<1> QED BY <1>6, <1>7

(* In a round robin, a single-elimination bracket, or groups followed by   *)
(* one, no order of results locks a fixture out.  (A second chance does:   *)
(* its final may repeat a recorded pair.)                                  *)
THEOREM FixturesStayRecordable ==
  ProperStage /\ SingleElimination /\ StageApartFromBracket /\ Spec => []EveryFixtureRecordable
<1>1. ASSUME ProperStage, SingleElimination, StageApartFromBracket, RefinementInv
      PROVE  EveryFixtureRecordable
  <2> SUFFICES ASSUME NEW f \in Fixtures, Ready(f), NEW g \in Confirmed
               PROVE  ~PairConflict(Format, EntryGroup, FixtureRow(f), FixtureRow(g))
    BY DEF EveryFixtureRecordable, Conflicts
  <2>1. g \in Fixtures /\ Ready(g)
    BY <1>1 DEF Confirmed, RefinementInv, BracketInv, BracketFollowsResults
  <2>2. CASE f \in Stage /\ g \in Stage
    BY <1>1, <2>2, StageConflict DEF RefinementInv
  <2>3. CASE f \in Bracket /\ g \in Bracket
    BY <1>1, <2>1, <2>3, BracketConflict
  <2>4. CASE ~(f \in Stage <=> g \in Stage)
    <3>1. Format.groups
      BY <1>1, <2>1, <2>4 DEF StageApartFromBracket, Stage
    <3>2. Plan[f].group # Plan[g].group
      BY <1>1, <2>1, <2>4, <3>1 DEF ProperStage, StageInScope, SingleElimination
    <3>3. FixtureRow(f).group = Plan[f].group /\ FixtureRow(g).group = Plan[g].group
      BY DEF FixtureRow
    <3> QED BY <3>2, <3>3 DEF PairConflict
  <2> QED BY <2>1, <2>2, <2>3, <2>4 DEF Bracket
<1> DEFINE Proper == ProperStage /\ SingleElimination /\ StageApartFromBracket
<1>2. Proper => Proper'
  BY DEF ProperStage, SingleElimination, StageApartFromBracket, StageInScope, StageApart, Stage, Knockout,
         PlannedDay, PlannedLeg, PlannedEntry
<1> HIDE DEF Proper
<1>3. Proper /\ RefinementInv => EveryFixtureRecordable
  BY <1>1 DEF Proper
<1>4. Proper /\ [Next]_vars => Proper'
  BY <1>2
<1>5. Proper /\ Spec => []EveryFixtureRecordable
  BY <1>3, <1>4, RefinementInvariant, PTL DEF Spec
<1> QED BY <1>5 DEF Proper

-----------------------------------------------------------------------------
(* The champion of the results as they are now. *)
Decided == {Winner(slot[f], subs[confirmed[f]].score) : f \in Finals \cap Confirmed}

StageResults == {CountedRow(f) : f \in Confirmed \cap CountedStage}

(* A champion by table rests on the whole stage: once it has a result      *)
(* everywhere, only a correction or a reversal changes it.                 *)
ChampionInv ==
  /\ TablesInv
  /\ DecidesChampion
  /\ tournament # "COMPLETED" => champion = NoEntry
  /\ tournament = "COMPLETED" =>
       IF DecidedByFinal THEN champion \in Decided
       ELSE Stage \subseteq Confirmed /\ champion \in Leaders(StageResults)

(* A completion without a final finds every stage fixture with its result: *)
(* the rows it counts are as many as the meetings.                         *)
LEMMA StageComplete ==
  ASSUME TablesInv, DecidesChampion, ~DecidedByFinal, RoundRobinComplete
  PROVE  \A f \in Stage : IsCanonical(f)
<1> DEFINE K == {f \in Fixtures : IsCanonical(f)}
           D == K \cap Stage
<1>1. CASE Format.competition = "UCL_CUP"
  BY <1>1 DEF RoundRobinComplete, DecidedByFinal, DecidesChampion, Stage
<1>2. CASE Format.competition # "UCL_CUP"
  <2>1. Format.format # "KNOCKOUT" /\ Format.competition # "CUSTOM_MANUAL"
        /\ Cardinality(Stage) = ExpectedMeetings
    BY <1>2 DEF DecidesChampion, DecidedByFinal
  <2>2. {FixtureRow(f) : f \in K} = RowsIn(slot, K)
    BY DEF RowsIn, RowIn, FixtureRow
  <2>3. Cardinality(StandingsFixtures(Format, EntryGroup, {FixtureRow(f) : f \in K})) = Cardinality(Stage)
    BY <1>2, <2>1 DEF RoundRobinComplete
  <2>4. K \in SUBSET Confirmed /\ K \in SUBSET Fixtures
    BY DEF IsCanonical
  <2>5. Sound(slot, K) /\ ProperStage
    BY <2>4, SoundPart DEF TablesInv, ProperPlan
  <2> HIDE DEF K
  <2>6. StandingsFixtures(Format, EntryGroup, RowsIn(slot, K)) = RowsIn(slot, D)
    BY <2>1, <2>4, <2>5, AllRowsCount DEF CountedStage
  <2>7. IsFiniteSet(Stage) /\ D \in SUBSET Stage
    BY FixturesAssumption, FS_Subset DEF Stage
  <2>8. IsFiniteSet(D) /\ Cardinality(D) <= Cardinality(Stage)
    BY <2>7, FS_Subset
  <2>9. Cardinality(RowsIn(slot, D)) <= Cardinality(D)
    <3> DEFINE row == [f \in D |-> RowIn(slot, f)]
    <3>1. row \in Surjection(D, RowsIn(slot, D))
      BY DEF Surjection, RowsIn
    <3> HIDE DEF row
    <3> QED BY <2>8, <3>1, FS_Surjection
  <2>10. Cardinality(Stage) = Cardinality(D)
    <3>1. Cardinality(RowsIn(slot, D)) = Cardinality(Stage)
      BY <2>2, <2>3, <2>6
    <3>2. Cardinality(Stage) \in Nat /\ Cardinality(D) \in Nat
      BY <2>7, <2>8, FS_CardinalityType
    <3> QED BY <2>8, <2>9, <3>1, <3>2
  <2>11. D = Stage
    BY <2>7, <2>10, FS_Subset
  <2> QED BY <2>11 DEF K
<1> QED BY <1>1, <1>2

(* A completion names the champion of the results as they are. *)
LEMMA CompletionNames ==
  ASSUME ChampionInv, CompleteTournament
  PROVE  IF DecidedByFinal THEN champion' \in Decided
         ELSE Stage \subseteq Confirmed /\ champion' \in Leaders(StageResults)
<1>1. champion' \in Placed
  BY DEF CompleteTournament
<1>2. CASE DecidedByFinal
  BY <1>1, <1>2 DEF Placed, Decided, IsCanonical
<1>3. CASE ~DecidedByFinal
  <2>1. \A f \in Stage : status[f] = "COMPLETED" /\ f \in Confirmed
    BY <1>3, StageComplete DEF ChampionInv, CompleteTournament, IsCanonical
  <2>2. CountedStage = Stage
    BY <1>3 DEF DecidedByFinal, CountedStage
  <2>3. tables.standings = StageResults
    BY <2>1, <2>2 DEF ChampionInv, TablesInv, TablesMatch, StageResults
  <2>4. champion' \in Leaders(tables.standings)
    BY <1>1, <1>3 DEF Placed
  <2> QED BY <1>3, <2>1, <2>3, <2>4
<1> QED BY <1>2, <1>3

(* A step that takes no result away and changes none keeps the champion. *)
LEMMA ChampionKept ==
  ASSUME ChampionInv, tournament = "COMPLETED", UNCHANGED champion,
         Confirmed \subseteq Confirmed',
         \A f \in Confirmed : /\ slot'[f] = slot[f]
                             /\ subs'[confirmed'[f]].score = subs[confirmed[f]].score
  PROVE  IF DecidedByFinal THEN champion' \in Decided'
         ELSE Stage \subseteq Confirmed' /\ champion' \in Leaders(StageResults)'
<1>1. CASE DecidedByFinal
  <2>1. PICK f \in Finals \cap Confirmed : champion = Winner(slot[f], subs[confirmed[f]].score)
    BY <1>1 DEF ChampionInv, Decided
  <2>2. Finals' = Finals
    BY DEF Finals
  <2>3. champion' = Winner(slot'[f], subs'[confirmed'[f]].score)
    BY <2>1
  <2> HIDE DEF Confirmed
  <2> QED BY <1>1, <2>1, <2>2, <2>3 DEF Decided
<1>2. CASE ~DecidedByFinal
  <2>1. Stage \subseteq Confirmed /\ champion \in Leaders(StageResults)
    BY <1>2 DEF ChampionInv
  <2>2. CountedStage \subseteq Stage /\ CountedStage' = CountedStage
    BY DEF CountedStage, Stage, Knockout
  <2>3. Confirmed' \cap CountedStage = Confirmed \cap CountedStage
    BY <2>1, <2>2
  <2>4. \A f \in Confirmed : CountedRow(f)' = CountedRow(f)
    BY DEF CountedRow
  <2>5. StageResults' = StageResults
    <3> HIDE DEF CountedRow, Confirmed
    <3> QED BY <2>2, <2>3, <2>4 DEF StageResults
  <2>6. Leaders(StageResults)' = Leaders(StageResults)
    BY <2>5
  <2> QED BY <1>2, <2>1, <2>6
<1> QED BY <1>1, <1>2

(* Completing names the champion, a confirmation keeps it, a correction or *)
(* a reversal takes the title back.                                        *)
LEMMA ChampionNext ==
  ASSUME ChampionInv, TablesInv', [Next]_vars
  PROVE  ChampionInv'
<1> DEFINE Named == IF DecidedByFinal THEN champion' \in Decided'
                    ELSE Stage \subseteq Confirmed' /\ champion' \in Leaders(StageResults)'
           Goal == /\ tournament' # "COMPLETED" => champion' = NoEntry
                   /\ tournament' = "COMPLETED" => Named
<1> USE DEF ChampionInv, TablesInv, RefinementInv, BracketInv
<1>1. ASSUME UNCHANGED << tournament, champion >>,
             Confirmed \subseteq Confirmed',
             \A f \in Confirmed : /\ slot'[f] = slot[f]
                                 /\ subs'[confirmed'[f]].score = subs[confirmed[f]].score
      PROVE  Goal
  <2> HIDE DEF Named
  <2>1. tournament = "COMPLETED" => Named
    BY <1>1, ChampionKept DEF Named
  <2> QED BY <1>1, <2>1
<1>2. ASSUME NEW s \in Submissions, Confirm(s) PROVE Goal
  <2> HIDE DEF Named
  <2>1. /\ \A g \in Fixtures \ {subs[s].match} : confirmed'[g] = confirmed[g]
        /\ \A g \in Confirmed : subs'[confirmed[g]].score = subs[confirmed[g]].score
        /\ subs[s].match \notin Confirmed
    BY <1>2, ConfirmEffect
  <2>2. \A g \in Confirmed : confirmed'[g] = confirmed[g] /\ slot'[g] = slot[g]
    BY <1>2, <2>1, ConfirmBracket DEF Confirmed
  <2>3. Confirmed \subseteq Confirmed'
    BY <2>2 DEF Confirmed
  <2>4. champion' = champion /\ (tournament' = "COMPLETED" <=> tournament = "COMPLETED")
    BY <1>2 DEF Confirm
  <2>5. tournament = "COMPLETED" => Named
    BY <2>1, <2>2, <2>3, <2>4, ChampionKept DEF Named
  <2> QED BY <2>4, <2>5
<1>3. ASSUME \/ \E f \in Fixtures, s \in Submissions, score \in Scores : Correct(f, s, score)
             \/ \E f \in Fixtures : Reverse(f)
      PROVE  Goal
  <2> HIDE DEF Named
  <2> QED BY <1>3 DEF Correct, Reverse, Reopened
<1>4. ASSUME CompleteTournament PROVE Goal
  <2>1. IF DecidedByFinal THEN champion' \in Decided
        ELSE Stage \subseteq Confirmed /\ champion' \in Leaders(StageResults)
    BY <1>4, CompletionNames
  <2>2. UNCHANGED << slot, confirmed, subs >> /\ tournament' = "COMPLETED"
    BY <1>4 DEF CompleteTournament
  <2>3. Confirmed' = Confirmed
    BY <2>2 DEF Confirmed
  <2>4. Decided' = Decided
    BY <2>2, <2>3 DEF Decided, Finals
  <2>5. StageResults' = StageResults
    BY <2>2, <2>3 DEF StageResults, CountedRow, CountedStage, Stage, Knockout
  <2>6. Leaders(StageResults)' = Leaders(StageResults)
    BY <2>5
  <2> QED BY <2>1, <2>2, <2>3, <2>4, <2>6
<1>5. ASSUME NEW f \in Fixtures, NEW s \in Submissions, NEW score \in Scores, Submit(f, s, score)
      PROVE  Goal
  <2>1. \A g \in Confirmed : confirmed[g] # s
    BY <1>5 DEF RecordInv, SubmissionIntegrity, Submit, Unused
  <2>2. \A g \in Confirmed : subs'[confirmed[g]] = subs[confirmed[g]]
    BY <1>5, <2>1 DEF Submit, Confirmed, RecordInv, TypeOK
  <2> HIDE DEF Goal
  <2> QED BY <1>1, <1>5, <2>2 DEF Submit, Confirmed
<1>6. ASSUME NEW s \in Submissions, Reject(s) PROVE Goal
  <2>1. \A g \in Confirmed : confirmed[g] # s
    BY <1>6 DEF RecordInv, SubmissionIntegrity, Reject, Rejectable
  <2>2. \A g \in Confirmed : subs'[confirmed[g]] = subs[confirmed[g]]
    BY <1>6, <2>1 DEF Reject, Confirmed, RecordInv, TypeOK
  <2> HIDE DEF Goal
  <2> QED BY <1>1, <1>6, <2>2 DEF Reject, Confirmed
<1>7. ASSUME UNCHANGED << slot, confirmed, subs, tournament, champion >> PROVE Goal
  <2> HIDE DEF Goal
  <2> QED BY <1>1, <1>7 DEF Confirmed
<1>8. Goal
  <2> HIDE DEF Goal
  <2> QED BY <1>2, <1>3, <1>4, <1>5, <1>6, <1>7
  DEF Next, CheckRequest, WriteRequest, CheckCompletion, AbandonCompletion, vars
<1>9. DecidesChampion'
  OBVIOUS
<1>10. (DecidedByFinal' <=> DecidedByFinal) /\ Stage' = Stage
  BY DEF DecidedByFinal, Stage, Knockout
<1> HIDE DEF TablesInv
<1> QED BY <1>8, <1>9, <1>10

(* In every tournament with a proper plan whose completion waits for what  *)
(* decides it, the awards of a completed tournament name the champion of   *)
(* the results as they are, and there are none otherwise.                  *)
THEOREM ChampionStaysCurrent == ProperPlan /\ DecidesChampion /\ Spec => []ChampionIsCurrent
<1>1. TablesInv /\ DecidesChampion /\ Init => ChampionInv
  BY DEF ChampionInv, Init
<1>2. ChampionInv /\ TablesInv' /\ [Next]_vars => ChampionInv'
  BY ChampionNext
<1>3. ChampionInv => ChampionIsCurrent
  <2> SUFFICES ASSUME ChampionInv PROVE ChampionIsCurrent
    OBVIOUS
  <2>1. Recomputed.standings = StageResults
    BY RecomputedResults DEF ChampionInv, StageResults
  <2> QED BY <2>1 DEF ChampionInv, ChampionIsCurrent, Decided
<1> QED BY <1>1, <1>2, <1>3, TablesInvariant, PTL DEF Spec
=============================================================================
