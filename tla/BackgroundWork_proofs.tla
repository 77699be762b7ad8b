------------------------ MODULE BackgroundWork_proofs ------------------------
(***************************************************************************)
(* The two queues that are worked on in the background.  The OCR pipeline, *)
(* for any number of screenshots and faults: rows, jobs and files agree.   *)
(* The delivery of notifications, for any number of processes, phones,     *)
(* sessions and faults: a phone is sent a notification once per lease,     *)
(* under one registration if its eventAt stays, and at most one late.      *)
(***************************************************************************)
EXTENDS OcrPipeline, PushDelivery, SequenceTheorems, FiniteSetTheorems, TLAPS

-----------------------------------------------------------------------------
(* A handler that has not written its row has none, and no job before it   *)
(* asked for one.                                                          *)
UploadOrder ==
  \A e \in Extractions :
    /\ upload[e] \in {"NEW", "WRITTEN"} => row[e] = "NONE"
    /\ upload[e] \in {"NEW", "WRITTEN", "CREATED"} => job[e].state = "NONE"

(* A job that may still be delivered has an attempt left. *)
OpenJobs ==
  \A e \in Extractions : job[e].state \in {"NONE", "WAITING", "ACTIVE"} =>
    job[e].attempts < Attempts /\ job[e].stalls <= MaxStalledCount

(* The worker knows whether its attempt is the last one, works on a job    *)
(* the queue is not done with unless it was redelivered too often, and has *)
(* settled the row when it has a result to report or the last failure.     *)
RunKnows ==
  \A e \in Extractions : run.job = e =>
    /\ run.step # "IDLE"
    /\ run.final = (job[e].attempts + 1 >= Attempts)
    /\ job[e].state \in {"WAITING", "ACTIVE"} \/ job[e].stalls > MaxStalledCount
    /\ run.step = "RETURNED" \/ (run.step = "THROWN" /\ run.final) => row[e] \in Settled

(* What the cleanup found has a row, and what it is removing has no file.  *)
SweepKnows ==
  \A e \in Extractions :
    /\ e \in sweep.todo \/ sweep.removing = e => row[e] # "NONE"
    /\ sweep.removing = e => ~image[e]

OcrInv ==
  /\ OcrTypeOK
  /\ UploadOrder /\ OpenJobs /\ RunKnows /\ SweepKnows
  /\ FailureIsFinal /\ EndedJobIsSettled /\ EvidenceRowKept /\ DeletedLeavesNoFile

(* Initially nothing is uploaded, queued or running. *)
LEMMA OcrInitially == OcrInit => OcrInv
BY ExtractionsAssumption, MaxOcrFaultsAssumption
   DEF OcrInit, OcrInv, OcrTypeOK, UploadOrder, OpenJobs, RunKnows, SweepKnows, FailureIsFinal,
       EndedJobIsSettled, EvidenceRowKept, DeletedLeavesNoFile, IdleRun, NoSweep, Attempts,
       MaxStalledCount, Settled, Uploading

(* Every step keeps the invariant. *)
LEMMA OcrStep == OcrInv /\ [OcrNext]_ocrVars => OcrInv'
<1> SUFFICES ASSUME OcrInv, [OcrNext]_ocrVars PROVE OcrInv'
  OBVIOUS
<1> USE ExtractionsAssumption, MaxOcrFaultsAssumption
    DEF OcrInv, OcrTypeOK, UploadOrder, OpenJobs, RunKnows, SweepKnows, FailureIsFinal,
        EndedJobIsSettled, EvidenceRowKept, DeletedLeavesNoFile, Attempts, MaxStalledCount,
        Settled, Uploading
<1>1. ASSUME NEW e \in Extractions, WriteImage(e) PROVE OcrInv'
  BY <1>1 DEF WriteImage
<1>2. ASSUME NEW e \in Extractions, CreateRow(e) PROVE OcrInv'
  BY <1>2 DEF CreateRow
<1>3. ASSUME NEW e \in Extractions, Enqueue(e) PROVE OcrInv'
  BY <1>3 DEF Enqueue
<1>4. ASSUME NEW e \in Extractions, EnqueueFails(e) PROVE OcrInv'
  <2>1. CASE job' = job
    BY <1>4, <2>1 DEF EnqueueFails
  <2>2. CASE job' = [job EXCEPT ![e].state = "WAITING"]
    BY <1>4, <2>2 DEF EnqueueFails
  <2>3. QED
    BY <1>4, <2>1, <2>2 DEF EnqueueFails
<1>5. ASSUME NEW e \in Extractions, MarkFailed(e) PROVE OcrInv'
  BY <1>5 DEF MarkFailed, Updated
<1>6. ASSUME NEW e \in Extractions, Take(e) PROVE OcrInv'
  BY <1>6 DEF Take, IsFinal, IdleRun
<1>7. ASSUME NEW e \in Extractions, Begin(e) PROVE OcrInv'
  BY <1>7 DEF Begin, Updated, Advance
<1>8. ASSUME NEW e \in Extractions, Extract(e) PROVE OcrInv'
  BY <1>8 DEF Extract, Advance
<1>9. ASSUME NEW e \in Extractions, Store(e) PROVE OcrInv'
  BY <1>9 DEF Store, Updated, Advance
<1>10. ASSUME NEW e \in Extractions, Recover(e) PROVE OcrInv'
  BY <1>10 DEF Recover, Updated, Advance, RecoveredAs
<1>11. ASSUME NEW e \in Extractions, FinishJob(e) PROVE OcrInv'
  <2>1. CASE job[e].state # "ACTIVE"
    BY <1>11, <2>1 DEF FinishJob, IdleRun
  <2>2. CASE job[e].state = "ACTIVE" /\ run.step = "RETURNED"
    BY <1>11, <2>2 DEF FinishJob, IdleRun
  <2>3. CASE job[e].state = "ACTIVE" /\ run.step = "THROWN"
    <3>1. job' = [job EXCEPT ![e] = AfterThrow(job[e])]
      BY <1>11, <2>3 DEF FinishJob
    <3>2. run.job = e /\ run' = IdleRun /\ UNCHANGED << upload, row, image, stale, sweep, submission, ocrFaults >>
      BY <1>11 DEF FinishJob
    <3>3. CASE run.final
      <4>1. job[e].attempts = 1
        <5>1. job[e].attempts + 1 >= 2
          BY <3>2, <3>3, Zenon
        <5>2. job[e].attempts < 2 /\ job[e].attempts \in Nat
          BY <2>3
        <5>3. QED
          BY <5>1, <5>2
      <4>2. job' = [job EXCEPT ![e] = [state |-> "FAILED", attempts |-> 2,
                                       stalls |-> job[e].stalls]]
        BY <3>1, <4>1 DEF AfterThrow
      <4>3. OcrTypeOK'
        BY <3>2, <4>2 DEF IdleRun
      <4>4. (UploadOrder /\ OpenJobs)'
        BY <2>3, <3>2, <4>2
      <4>5. (RunKnows /\ SweepKnows)'
        BY <3>2 DEF IdleRun
      <4>6. (FailureIsFinal /\ EndedJobIsSettled /\ EvidenceRowKept /\ DeletedLeavesNoFile)'
        <5>1. row[e] \in Settled
          BY <2>3, <3>2, <3>3, Zenon
        <5>2. QED
          BY <2>3, <3>2, <4>1, <4>2, <5>1 DEF IdleRun
      <4>7. QED
        BY <4>3, <4>4, <4>5, <4>6
    <3>4. CASE ~run.final
      <4>1. job[e].attempts + 1 < 2
        <5>1. ~(job[e].attempts + 1 >= 2)
          BY <3>2, <3>4, Zenon
        <5>2. job[e].attempts \in Nat
          OBVIOUS
        <5>3. QED
          BY <5>1, <5>2
      <4>2. job' = [job EXCEPT ![e] = [state |-> "WAITING", attempts |-> job[e].attempts + 1,
                                       stalls |-> job[e].stalls]]
        BY <3>1, <4>1 DEF AfterThrow
      <4>3. OcrTypeOK'
        BY <3>2, <4>1, <4>2 DEF IdleRun
      <4>4. (UploadOrder /\ OpenJobs)'
        BY <2>3, <3>2, <4>1, <4>2
      <4>5. (RunKnows /\ SweepKnows)'
        BY <3>2 DEF IdleRun
      <4>6. (FailureIsFinal /\ EndedJobIsSettled /\ EvidenceRowKept /\ DeletedLeavesNoFile)'
        BY <2>3, <3>2, <4>1, <4>2 DEF IdleRun
      <4>7. QED
        BY <4>3, <4>4, <4>5, <4>6
    <3>5. QED
      BY <3>3, <3>4
  <2>4. QED
    BY <1>11, <2>1, <2>2, <2>3 DEF FinishJob
<1>12. ASSUME NEW e \in Extractions, Redeliver(e) PROVE OcrInv'
  BY <1>12 DEF Redeliver, Stalled
<1>13. ASSUME NEW e \in Extractions, LoseLock(e) PROVE OcrInv'
  BY <1>13 DEF LoseLock, Stalled
<1>14. ASSUME NEW e \in Extractions, Age(e) PROVE OcrInv'
  BY <1>14 DEF Age
<1>15. ASSUME NEW e \in Extractions, Unlink(e) PROVE OcrInv'
  BY <1>15 DEF Unlink
<1>16. ASSUME NEW e \in Extractions, DeleteRow(e) PROVE OcrInv'
  BY <1>16 DEF DeleteRow, Deletable
<1>17. ASSUME NEW e \in Extractions, UnlinkFails(e) PROVE OcrInv'
  BY <1>17 DEF UnlinkFails, Skipped
<1>18. ASSUME NEW e \in Extractions, Submit(e) PROVE OcrInv'
  BY <1>18 DEF Submit
<1>19. ASSUME NEW e \in Extractions, NEW verdict \in {"CONFIRMED", "REJECTED"}, Decide(e, verdict)
      PROVE OcrInv'
  BY <1>19 DEF Decide
<1>20. CASE FindExpired
  BY <1>20 DEF FindExpired, Expired, NoSweep
<1>21. CASE OcrCrash
  BY <1>21 DEF OcrCrash, IdleRun, NoSweep
<1>22. CASE UNCHANGED ocrVars
  BY <1>22 DEF ocrVars
<1> HIDE DEF OcrInv
<1>23. ASSUME NEW e \in Extractions, Working(e) PROVE OcrInv'
  BY <1>7, <1>8, <1>9, <1>10, <1>11, <1>23 DEF Working
<1>24. ASSUME NEW e \in Extractions, Sweeping(e) PROVE OcrInv'
  BY <1>15, <1>16, <1>24 DEF Sweeping
<1>25. CASE OcrNext
  BY <1>1, <1>2, <1>3, <1>4, <1>5, <1>6, <1>12, <1>13, <1>14, <1>17, <1>18, <1>19, <1>20, <1>21, <1>23, <1>24, <1>25 DEF OcrNext
<1> QED BY <1>22, <1>25

(* The invariant holds in every reachable state. *)
THEOREM OcrInvariant == OcrSpec => []OcrInv
<1>1. OcrInit => OcrInv
  BY OcrInitially
<1>2. OcrInv /\ [OcrNext]_ocrVars => OcrInv'
  BY OcrStep
<1>3. QED
  BY <1>1, <1>2, PTL DEF OcrSpec

(* Every variable keeps its type. *)
THEOREM OcrTypes == OcrSpec => []OcrTypeOK
<1>1. OcrInv => OcrTypeOK
  BY DEF OcrInv
<1>2. QED
  BY <1>1, OcrInvariant, PTL

(* A screenshot is shown as failed only after its last attempt, or when it *)
(* never entered the queue, whatever crashes and is delivered twice.       *)
THEOREM FailuresAreFinal == OcrSpec => []FailureIsFinal
<1>1. OcrInv => FailureIsFinal
  BY DEF OcrInv
<1>2. QED
  BY <1>1, OcrInvariant, PTL

(* The row of a job the queue is done with says how it ended. *)
THEOREM EndedJobsSettle == OcrSpec => []EndedJobIsSettled
<1>1. OcrInv => EndedJobIsSettled
  BY DEF OcrInv
<1>2. QED
  BY <1>1, OcrInvariant, PTL

(* The row of a screenshot with a submission is never deleted. *)
THEOREM EvidenceRowsStay == OcrSpec => []EvidenceRowKept
<1>1. OcrInv => EvidenceRowKept
  BY DEF OcrInv
<1>2. QED
  BY <1>1, OcrInvariant, PTL

(* A row is deleted only after its picture. *)
THEOREM NoFileLeftBehind == OcrSpec => []DeletedLeavesNoFile
<1>1. OcrInv => DeletedLeavesNoFile
  BY DEF OcrInv
<1>2. QED
  BY <1>1, OcrInvariant, PTL

-----------------------------------------------------------------------------
Places == {"IDLE", "PICK", "VISIT", "SYNC", "RECHECK", "CLAIM", "SEND", "RECORD"}
Entry == [attempts : Nat, state : {"FREE", "LEASED", "DONE"}]
Process == [at : Places, batch : Seq(Target), items : Seq(Messages)]

Types ==
  /\ clock \in Nat
  /\ session \in [Sessions -> {"FREE", "LIVE", "DEAD", "GONE"}]
  /\ device \in [Tokens -> Device \cup {Off}]
  /\ delivery \in [Tokens -> [Messages -> Entry]]
  /\ inbox \in [Messages -> {"NONE", "UNREAD", "READ", "GONE"}]
  /\ eventAt \in [Messages -> Nat]
  /\ asked \subseteq [id : Rows, session : Sessions, token : Tokens, same : BOOLEAN]
  /\ worker \in [Workers -> Process]
  /\ calls \in 0 .. MaxCalls
  /\ sent \in [Tokens \X Rows \X Messages -> Nat]
  /\ lapsed \in [Tokens \X Rows \X Messages -> Nat]
  /\ late \in [Workers -> Nat]

(* The devices a process has read and not served yet, and the notifications *)
(* it has read for the first of them.                                       *)
Held(w) == Range(worker[w].batch)
Listed(w) == Range(worker[w].items)

(* The processes that have claimed the notification for a row of the phone *)
(* and not sent it yet.                                                    *)
Sending(t, r, n) ==
  {w \in Workers : At(w, "SEND") /\ Served(w).token = t /\ Served(w).row = r /\ Item(w) = n}

Given(t, r, n) == sent[<< t, r, n >>] # 0 \/ Sending(t, r, n) # {}

(* A row that a registration is about to create is new to everybody. *)
New(r) == r > calls \/ \E q \in asked : q.id = r

IdsFresh ==
  /\ \A q, r \in asked : q.id = r.id => q = r
  /\ \A q \in asked : q.id <= calls
  /\ \A t \in Bound : ~New(device[t].row)
  /\ \A w \in Workers : \A d \in Held(w) : ~New(d.row)
  /\ \A t \in Tokens, r \in Rows, n \in Messages : sent[<< t, r, n >>] # 0 => ~New(r)

SessionsBegun == \A w \in Workers : \A d \in Held(w) : session[d.session] # "FREE"

EventsPast == \A n \in Messages : eventAt[n] <= clock

(* What a process has in hand where it is. *)
InHand(w) ==
  /\ worker[w].at \notin {"IDLE", "PICK"} => worker[w].batch # << >>
  /\ worker[w].at \in {"RECHECK", "CLAIM", "SEND", "RECORD"} => worker[w].items # << >>
  /\ worker[w].at \in {"RECHECK", "CLAIM", "SEND", "RECORD"} =>
       \A n \in Listed(w) : /\ inbox[n] # "NONE"
                            /\ n \in Redated \/ eventAt[n] >= Served(w).since

(* After a late message a process sends no other before its next visit.    *)
LateIsLast(w) ==
  \/ late[w] = 0
  \/ /\ late[w] = 1
     /\ \/ worker[w].at \in {"IDLE", "PICK", "VISIT"}
        \/ worker[w].at \in {"RECHECK", "RECORD"} /\ ~Binding(Served(w))

(* Nobody can claim the notification for this row of the phone. *)
Claimed(t, r, n) ==
  \/ device[t] = Off
  \/ device[t].row # r
  \/ inbox[n] = "GONE"
  \/ delivery[t][n].state # "FREE"

(* Every claim was sent, is being sent, lapsed or is still held. *)
Accounted(t, r, n) ==
  sent[<< t, r, n >>] + Cardinality(Sending(t, r, n))
    <= lapsed[<< t, r, n >>] + IF Claimed(t, r, n) THEN 1 ELSE 0

(* A notification that keeps its eventAt was given to one row of a phone,  *)
(* and any other row the phone has, and any process has read, is younger.  *)
GivenOnce ==
  \A t \in Tokens, r \in Rows, n \in Messages \ Redated : Given(t, r, n) =>
    /\ inbox[n] # "NONE"
    /\ \A q \in Rows : Given(t, q, n) => q = r
    /\ device[t] # Off /\ device[t].row # r => device[t].since > eventAt[n]
    /\ \A w \in Workers : \A d \in Held(w) :
         d.token = t /\ HasRow(d) /\ d.row # r => d.since > eventAt[n]

PushInv ==
  /\ Types /\ IdsFresh /\ SessionsBegun /\ EventsPast /\ GivenOnce
  /\ \A w \in Workers : InHand(w) /\ LateIsLast(w)
  /\ \A t \in Tokens, r \in Rows, n \in Messages : Accounted(t, r, n)

-----------------------------------------------------------------------------
LEMMA ServedHeld ==
  ASSUME Types, NEW w \in Workers, worker[w].batch # << >>
  PROVE  Served(w) \in Held(w) /\ Served(w) \in Target
<1>1. worker[w].batch \in Seq(Target)
  BY DEF Types, Process
<1>2. Head(worker[w].batch) \in Target /\ Len(worker[w].batch) \in Nat \ {0}
  BY <1>1, HeadTailProperties, EmptySeq, LenProperties
<1>3. Head(worker[w].batch) = worker[w].batch[1] /\ 1 \in DOMAIN worker[w].batch
  BY <1>1, <1>2, LenProperties
<1> QED
  BY <1>2, <1>3 DEF Served, Held, Range

LEMMA TailHeld ==
  ASSUME NEW S, NEW s \in Seq(S), s # << >>
  PROVE  Tail(s) \in Seq(S) /\ Range(Tail(s)) \subseteq Range(s)
<1>1. /\ Tail(s) \in Seq(S) /\ Len(Tail(s)) = Len(s) - 1
      /\ \A i \in 1 .. Len(Tail(s)) : Tail(s)[i] = s[i + 1]
  BY HeadTailProperties
<1>2. DOMAIN s = 1 .. Len(s) /\ DOMAIN Tail(s) = 1 .. Len(Tail(s)) /\ Len(s) \in Nat
  BY <1>1, LenProperties
<1> QED
  BY <1>1, <1>2 DEF Range

LEMMA RangeTyped ==
  ASSUME NEW S, NEW s \in Seq(S)
  PROVE  Range(s) \subseteq S
BY LenProperties DEF Range

LEMMA HeldTargets ==
  ASSUME Types, NEW w \in Workers
  PROVE  Held(w) \subseteq Target /\ Listed(w) \subseteq Messages
<1>1. worker[w].batch \in Seq(Target) /\ worker[w].items \in Seq(Messages)
  BY DEF Types, Process
<1> QED
  BY <1>1, RangeTyped DEF Held, Listed

LEMMA ItemHeld ==
  ASSUME PushInv, NEW w \in Workers, worker[w].at \in {"CLAIM", "SEND", "RECORD"}
  PROVE  /\ Item(w) \in Listed(w) /\ Item(w) \in Messages /\ worker[w].items # << >>
         /\ inbox[Item(w)] # "NONE"
         /\ Item(w) \in Redated \/ eventAt[Item(w)] >= Served(w).since
         /\ worker[w].batch # << >> /\ Served(w) \in Held(w) /\ Served(w) \in Target
<1>1. worker[w].items \in Seq(Messages) /\ worker[w].items # << >>
  BY DEF PushInv, Types, Process, InHand
<1>2. Head(worker[w].items) \in Messages /\ Len(worker[w].items) \in Nat \ {0}
  BY <1>1, HeadTailProperties, EmptySeq, LenProperties
<1>3. Head(worker[w].items) = worker[w].items[1] /\ 1 \in DOMAIN worker[w].items
  BY <1>1, <1>2, LenProperties
<1>4. Item(w) \in Listed(w) /\ Item(w) \in Messages
  BY <1>2, <1>3 DEF Item, Listed, Range
<1> QED
  BY <1>1, <1>4, ServedHeld DEF PushInv, InHand

LEMMA SendingFinite ==
  ASSUME NEW t, NEW r, NEW n
  PROVE  IsFiniteSet(Sending(t, r, n)) /\ Cardinality(Sending(t, r, n)) \in Nat
<1>1. Sending(t, r, n) \in SUBSET Workers
  BY DEF Sending
<1> QED
  BY <1>1, FiniteAssumption, FS_Subset, FS_CardinalityType

LEMMA Counts ==
  ASSUME Types, NEW t \in Tokens, NEW r \in Rows, NEW n \in Messages
  PROVE  sent[<< t, r, n >>] \in Nat /\ lapsed[<< t, r, n >>] \in Nat
BY DEF Types

(* What is given is there, and its row is no new one. *)
LEMMA GivenKnown ==
  ASSUME PushInv, NEW t \in Tokens, NEW r \in Rows, NEW n \in Messages, Given(t, r, n)
  PROVE  ~New(r)
<1>1. CASE sent[<< t, r, n >>] # 0
  BY <1>1 DEF PushInv, IdsFresh
<1>2. CASE Sending(t, r, n) # {}
  <2>1. PICK w \in Workers : At(w, "SEND") /\ Served(w).row = r
    BY <1>2 DEF Sending
  <2>2. Served(w) \in Held(w)
    BY <2>1, ItemHeld DEF At
  <2> QED
    BY <2>1, <2>2 DEF PushInv, IdsFresh
<1> QED
  BY <1>1, <1>2 DEF Given

-----------------------------------------------------------------------------
(* Steps in general *)
Moves(w) == \A v \in Workers \ {w} : worker'[v] = worker[v]

DevicesStay ==
  \A t \in Tokens : device'[t] # Off =>
    /\ device[t] # Off
    /\ device'[t].row = device[t].row
    /\ device'[t].since = device[t].since
    /\ \A n \in Messages : delivery[t][n].state # "FREE" =>
         delivery'[t][n].state # "FREE" \/ inbox'[n] = "GONE"

NoticesStay ==
  \A n \in Messages :
    /\ inbox[n] # "NONE" => inbox'[n] # "NONE"
    /\ inbox[n] = "GONE" => inbox'[n] = "GONE"
    /\ inbox[n] # "NONE" /\ n \notin Redated => eventAt'[n] = eventAt[n]
    /\ eventAt'[n] <= clock'

SessionsStay ==
  /\ \A s \in Sessions :
       /\ session[s] # "FREE" => session'[s] # "FREE"
       /\ session[s] \in {"DEAD", "GONE"} => session'[s] \in {"DEAD", "GONE"}
  /\ \A t \in Tokens : device[t] # Off /\ device'[t] # Off =>
       device'[t].session = device[t].session \/ session[device'[t].session] = "FREE"

(* A process reads devices as they are, or none. *)
HeldStay ==
  \A v \in Workers : \A d \in Held(v)' :
    \/ d \in Held(v)
    \/ /\ d.token \in Tokens /\ HasRow(d) /\ d.since = device[d.token].since
       /\ session[d.session] = "LIVE"

LEMMA ClaimsStay ==
  ASSUME DevicesStay, NoticesStay,
         NEW t \in Tokens, NEW r \in Rows, NEW n \in Messages, Claimed(t, r, n)
  PROVE  Claimed(t, r, n)'
<1>1. CASE device'[t] = Off
  BY <1>1 DEF Claimed
<1>2. CASE device'[t] # Off
  BY <1>2 DEF DevicesStay, NoticesStay, Claimed
<1> QED
  BY <1>1, <1>2

LEMMA BindingsEnd ==
  ASSUME PushInv, Types', DevicesStay, SessionsStay, NEW w \in Workers, NEW d \in Held(w),
         ~Binding(d)
  PROVE  ~Binding(d)'
<1>1. d \in Target
  BY HeldTargets DEF PushInv
<1>2. d.session \in Sessions /\ d.token \in Tokens /\ session[d.session] # "FREE"
  BY <1>1 DEF Target, PushInv, SessionsBegun
<1>3. session[d.session] \in {"FREE", "LIVE", "DEAD", "GONE"}
  BY <1>2 DEF PushInv, Types
<1>4. CASE session[d.session] \in {"DEAD", "GONE"}
  BY <1>2, <1>4 DEF Binding, SessionsStay
<1>5. CASE session[d.session] = "LIVE"
  BY <1>2, <1>5 DEF Binding, HasRow, DevicesStay, SessionsStay
<1> QED
  BY <1>2, <1>3, <1>4, <1>5

(* No more sent and sending than before. *)
LEMMA AccountKept ==
  ASSUME PushInv, Types', NEW t \in Tokens, NEW r \in Rows, NEW n \in Messages,
         Claimed(t, r, n) => Claimed(t, r, n)',
         sent'[<< t, r, n >>] + Cardinality(Sending(t, r, n)')
           <= sent[<< t, r, n >>] + Cardinality(Sending(t, r, n)),
         lapsed'[<< t, r, n >>] = lapsed[<< t, r, n >>], Cardinality(Sending(t, r, n)') \in Nat
  PROVE  Accounted(t, r, n)'
<1>1. /\ sent[<< t, r, n >>] \in Nat /\ lapsed[<< t, r, n >>] \in Nat /\ sent'[<< t, r, n >>] \in Nat
      /\ Accounted(t, r, n)
  BY Counts DEF PushInv, Types
<1>2. Cardinality(Sending(t, r, n)) \in Nat
  BY SendingFinite
<1> QED
  BY <1>1, <1>2 DEF Accounted

(* Nothing new is given. *)
LEMMA GivenKept ==
  ASSUME PushInv, DevicesStay, NoticesStay, HeldStay,
         \A t \in Tokens, r \in Rows, n \in Messages : Given(t, r, n)' => Given(t, r, n)
  PROVE  GivenOnce'
<1> SUFFICES ASSUME NEW t \in Tokens, NEW r \in Rows, NEW n \in Messages \ Redated,
                    Given(t, r, n)'
             PROVE  /\ inbox'[n] # "NONE"
                    /\ \A q \in Rows : Given(t, q, n)' => q = r
                    /\ device'[t] # Off /\ device'[t].row # r => device'[t].since > eventAt'[n]
                    /\ \A w \in Workers : \A d \in Held(w)' :
                         d.token = t /\ HasRow(d)' /\ d.row # r => d.since > eventAt'[n]
  BY DEF GivenOnce
<1>1. /\ inbox[n] # "NONE"
      /\ \A q \in Rows : Given(t, q, n) => q = r
      /\ device[t] # Off /\ device[t].row # r => device[t].since > eventAt[n]
      /\ \A w \in Workers : \A d \in Held(w) :
           d.token = t /\ HasRow(d) /\ d.row # r => d.since > eventAt[n]
  BY DEF PushInv, GivenOnce
<1>2. inbox'[n] # "NONE" /\ eventAt'[n] = eventAt[n]
  BY <1>1 DEF NoticesStay
<1>3. device'[t] # Off /\ device'[t].row # r => device'[t].since > eventAt'[n]
  BY <1>1, <1>2 DEF DevicesStay
<1>4. ASSUME NEW w \in Workers, NEW d \in Held(w)', d.token = t, HasRow(d)', d.row # r
      PROVE  d.since > eventAt'[n]
  <2>1. HasRow(d)
    BY <1>4 DEF HasRow, DevicesStay
  <2> QED
    BY <1>1, <1>2, <1>4, <2>1 DEF HeldStay, HasRow
<1> QED
  BY <1>1, <1>2, <1>3, <1>4

(* A process leaves SEND, or never was there. *)
LEMMA SendingLess ==
  ASSUME NEW w \in Workers, Moves(w), worker'[w].at # "SEND", NEW t, NEW r, NEW n
  PROVE  /\ Sending(t, r, n)' = Sending(t, r, n) \ {w}
         /\ Cardinality(Sending(t, r, n)') \in Nat
         /\ Cardinality(Sending(t, r, n)')
              = Cardinality(Sending(t, r, n)) - IF w \in Sending(t, r, n) THEN 1 ELSE 0
<1>1. Sending(t, r, n)' = Sending(t, r, n) \ {w}
  BY DEF Sending, Moves, At, Served, Item
<1>2. PICK S : S = Sending(t, r, n)
  OBVIOUS
<1>3. IsFiniteSet(S) /\ Cardinality(S) \in Nat
  BY <1>2, SendingFinite
<1>4. IsFiniteSet(S \ {w}) /\ Cardinality(S \ {w}) = IF w \in S THEN Cardinality(S) - 1 ELSE Cardinality(S)
  BY <1>3, FS_RemoveElement
<1>5. Cardinality(S \ {w}) \in Nat
  BY <1>4, FS_CardinalityType
<1> QED
  BY <1>1, <1>2, <1>3, <1>4, <1>5

-----------------------------------------------------------------------------
(* Types *)
LEMMA DropTypes ==
  ASSUME Types, NEW gone, Drop(gone)
  PROVE  /\ device' \in [Tokens -> Device \cup {Off}]
         /\ delivery' \in [Tokens -> [Messages -> Entry]]
         /\ DevicesStay
         /\ \A t \in Tokens : device'[t] # Off => device'[t] = device[t]
<1>1. /\ device' = [t \in Tokens |-> IF t \in gone THEN Off ELSE device[t]]
      /\ delivery' = [t \in Tokens |->
                        IF t \in gone THEN [n \in Messages |-> Untried] ELSE delivery[t]]
  BY DEF Drop
<1>2. [n \in Messages |-> Untried] \in [Messages -> Entry]
  BY DEF Untried, Entry
<1>3. \A t \in Tokens : delivery[t] \in [Messages -> Entry]
  BY DEF Types
<1>4. delivery' \in [Tokens -> [Messages -> Entry]]
  BY <1>1, <1>2, <1>3
<1>5. device' \in [Tokens -> Device \cup {Off}]
  BY <1>1 DEF Types
<1>6. \A t \in Tokens : device'[t] # Off =>
        device[t] # Off /\ device'[t] = device[t] /\ delivery'[t] = delivery[t]
  BY <1>1
<1> QED
  BY <1>4, <1>5, <1>6 DEF DevicesStay

LEMMA PickedTargets ==
  ASSUME Types, NEW w \in Workers, Pick(w)
  PROVE  /\ \/ worker'[w].at = "IDLE"
            \/ worker'[w].at = "VISIT" /\ worker'[w].batch # << >>
         /\ worker' \in [Workers -> Process]
         /\ Moves(w) /\ HeldStay
<1> DEFINE live == {t \in Bound : /\ Owner[device[t].session] \in active
                                  /\ session[device[t].session] = "LIVE"}
           count == Min({Batch, Cardinality(live)})
<1>1. PICK first \in [1 .. count -> live] :
        worker' = [worker EXCEPT ![w] = IF count = 0 THEN Idle ELSE
            [at |-> "VISIT", items |-> << >>,
             batch |-> [i \in 1 .. count |->
                         [token |-> first[i], row |-> device[first[i]].row,
                          session |-> device[first[i]].session,
                          since |-> device[first[i]].since]]]]
  BY DEF Pick
<1>2. count \in Nat
  <2>1. live \in SUBSET Tokens
    BY DEF Bound
  <2>2. Cardinality(live) \in Nat /\ Batch \in Nat
    BY <2>1, FiniteAssumption, FS_Subset, FS_CardinalityType, LimitsAssumption
  <2> HIDE DEF live
  <2>3. \E x \in {Batch, Cardinality(live)} : \A y \in {Batch, Cardinality(live)} : x <= y
    BY <2>2
  <2> QED
    BY <2>2, <2>3 DEF Min
<1> DEFINE target(t) == [token |-> t, row |-> device[t].row, session |-> device[t].session,
                         since |-> device[t].since]
           batch == [i \in 1 .. count |-> target(first[i])]
<1>3. \A t \in live : /\ t \in Tokens /\ device[t] # Off /\ device[t] \in Device
                      /\ session[device[t].session] = "LIVE"
  BY DEF live, Bound, Types
<1>4. \A t \in live : target(t) \in Target
  BY <1>3 DEF Target, Device
<1> HIDE DEF count, live
<1>5. batch \in [1 .. count -> Target]
  BY <1>1, <1>4
<1>6. batch \in Seq(Target) /\ DOMAIN batch = 1 .. count
  BY <1>2, <1>5, SeqDef
<1> DEFINE p == IF count = 0 THEN Idle ELSE [at |-> "VISIT", items |-> << >>, batch |-> batch]
<1>7. worker' = [worker EXCEPT ![w] = p]
  BY <1>1
<1>8. \A d \in Range(batch) : \E t \in live : d = target(t)
  BY <1>1, <1>6 DEF Range
<1>9. batch = << >> => count = 0
  BY <1>2, <1>6
<1> HIDE DEF batch
<1>10. /\ p \in Process
       /\ p.at = "IDLE" \/ (p.at = "VISIT" /\ p.batch # << >>)
       /\ Range(p.batch) \subseteq Range(batch)
  <2>1. << >> \in Seq(Messages) /\ << >> \in Seq(Target) /\ Range(<< >>) = {}
    BY EmptySeq DEF Range
  <2>2. CASE count = 0
    BY <2>1, <2>2 DEF Idle, Process, Places
  <2>3. CASE count # 0
    BY <1>6, <1>9, <2>1, <2>3 DEF Process, Places
  <2> QED
    BY <2>2, <2>3
<1> HIDE DEF p
<1>11. worker' \in [Workers -> Process] /\ worker'[w] = p /\ Moves(w)
  BY <1>7, <1>10 DEF Moves, Types
<1>12. HeldStay
  <2> SUFFICES ASSUME NEW v \in Workers, NEW d \in Held(v)', d \notin Held(v)
               PROVE  /\ d.token \in Tokens /\ HasRow(d) /\ d.since = device[d.token].since
                      /\ session[d.session] = "LIVE"
    BY DEF HeldStay
  <2>1. v = w
    BY <1>11 DEF Moves, Held
  <2>2. PICK t \in live : d = target(t)
    BY <1>8, <1>10, <1>11, <2>1 DEF Held
  <2> QED
    BY <1>3, <2>2 DEF HasRow
<1> QED
  BY <1>10, <1>11, <1>12

(* A process that takes nothing up. *)
LEMMA Assigned ==
  ASSUME Types, NEW w \in Workers, NEW p \in Process, worker' = [worker EXCEPT ![w] = p]
  PROVE  /\ worker' \in [Workers -> Process] /\ Moves(w) /\ worker'[w] = p
         /\ Range(p.batch) \subseteq Held(w) => HeldStay
         /\ Range(p.items) \subseteq Listed(w) => Listed(w)' \subseteq Listed(w)
<1>1. worker' \in [Workers -> Process] /\ Moves(w) /\ worker'[w] = p
  BY DEF Types, Moves
<1>2. Held(w)' = Range(p.batch) /\ Listed(w)' = Range(p.items)
  BY <1>1 DEF Held, Listed
<1>3. \A v \in Workers \ {w} : Held(v)' = Held(v)
  BY <1>1 DEF Moves, Held
<1>4. Range(p.batch) \subseteq Held(w) => \A v \in Workers : Held(v)' \subseteq Held(v)
  BY <1>2, <1>3
<1> QED
  BY <1>1, <1>2, <1>4 DEF HeldStay

(* Moving on: to another place, to the next device or item, or to rest. *)
LEMMA MoveOn ==
  ASSUME Types, NEW w \in Workers,
         \/ \E place \in Places : Move(w, place)
         \/ worker[w].batch # << >> /\ NextDevice(w)
         \/ worker[w].batch # << >> /\ worker[w].items # << >> /\ NextItem(w)
         \/ worker' = [worker EXCEPT ![w] = Idle]
  PROVE  /\ worker' \in [Workers -> Process]
         /\ Moves(w)
         /\ Listed(w)' \subseteq Listed(w)
         /\ HeldStay
<1>1. worker[w] \in Process
  BY DEF Types
<1>2. << >> \in Seq(Target) /\ << >> \in Seq(Messages) /\ Range(<< >>) = {}
  BY EmptySeq DEF Range
<1> SUFFICES \E p \in Process : /\ worker' = [worker EXCEPT ![w] = p]
                                /\ Range(p.batch) \subseteq Held(w)
                                /\ Range(p.items) \subseteq Listed(w)
  BY Assigned
<1>3. CASE \E place \in Places : Move(w, place)
  <2>1. PICK place \in Places : Move(w, place)
    BY <1>3
  <2>2. worker' = [worker EXCEPT ![w] = [worker[w] EXCEPT !.at = place]]
    BY <1>1, <2>1 DEF Move, Types
  <2>3. PICK p : p = [worker[w] EXCEPT !.at = place]
    OBVIOUS
  <2>4. p \in Process /\ p.batch = worker[w].batch /\ p.items = worker[w].items
    BY <1>1, <2>3 DEF Process
  <2> QED
    BY <2>2, <2>3, <2>4 DEF Held, Listed
<1>4. CASE worker[w].batch # << >> /\ NextDevice(w)
  <2>1. Tail(worker[w].batch) \in Seq(Target) /\ Range(Tail(worker[w].batch)) \subseteq Held(w)
    BY <1>1, <1>4, TailHeld DEF Held, Process
  <2>2. PICK p : p = IF Tail(worker[w].batch) = << >> THEN Idle
                     ELSE [at |-> "VISIT", batch |-> Tail(worker[w].batch), items |-> << >>]
    OBVIOUS
  <2>3. worker' = [worker EXCEPT ![w] = p]
    BY <1>4, <2>2 DEF NextDevice, Types
  <2>4. p \in Process /\ p.batch = Tail(worker[w].batch) /\ p.items = << >>
    BY <1>2, <2>1, <2>2 DEF Process, Places, Idle
  <2> QED
    BY <1>2, <2>1, <2>3, <2>4
<1>5. CASE /\ worker[w].batch # << >> /\ worker[w].items # << >>
           /\ NextItem(w) /\ ~NextDevice(w)
  <2>1. Tail(worker[w].items) \in Seq(Messages) /\ Range(Tail(worker[w].items)) \subseteq Listed(w)
    BY <1>1, <1>5, TailHeld DEF Listed, Process
  <2>2. PICK p : p = [worker[w] EXCEPT !.at = "RECHECK", !.items = Tail(worker[w].items)]
    OBVIOUS
  <2>3. worker' = [worker EXCEPT ![w] = p]
    BY <1>1, <1>5, <2>2 DEF NextItem, Types
  <2>4. p \in Process /\ p.batch = worker[w].batch /\ p.items = Tail(worker[w].items)
    BY <1>1, <2>1, <2>2 DEF Process, Places
  <2> QED
    BY <2>1, <2>3, <2>4 DEF Held
<1>6. CASE worker' = [worker EXCEPT ![w] = Idle]
  <2>1. Idle \in Process /\ Idle.batch = << >> /\ Idle.items = << >>
    BY <1>2 DEF Idle, Process, Places
  <2> QED
    BY <1>2, <1>6, <2>1
<1> QED
  BY <1>3, <1>4, <1>5, <1>6

-----------------------------------------------------------------------------
(* Steps of people and of time *)
LEMMA HandsKept ==
  ASSUME PushInv, Types', DevicesStay, SessionsStay, NoticesStay,
         NEW w \in Workers, worker'[w] = worker[w], late'[w] = late[w]
  PROVE  InHand(w)' /\ LateIsLast(w)'
<1>1. Served(w)' = Served(w) /\ Listed(w)' = Listed(w) /\ Listed(w) \subseteq Messages
  BY HeldTargets DEF Served, Listed, PushInv
<1>2. InHand(w)'
  BY <1>1 DEF PushInv, InHand, NoticesStay
<1>3. CASE worker[w].batch = << >>
  BY <1>2, <1>3 DEF PushInv, LateIsLast, InHand
<1>4. CASE worker[w].batch # << >>
  <2>1. Served(w) \in Held(w)
    BY <1>4, ServedHeld DEF PushInv
  <2>2. PICK d : d = Served(w)
    OBVIOUS
  <2>3. ~Binding(d) => ~Binding(d)'
    BY <2>1, <2>2, BindingsEnd
  <2> QED
    BY <1>1, <1>2, <2>2, <2>3 DEF PushInv, LateIsLast
<1> QED
  BY <1>2, <1>3, <1>4

LEMMA WorldStep ==
  ASSUME PushInv, Types', IdsFresh', worker' = worker, late' = late, sent' = sent,
         lapsed' = lapsed, DevicesStay, SessionsStay, NoticesStay
  PROVE  PushInv'
<1>1. \A v \in Workers : Held(v)' = Held(v)
  BY DEF Held
<1>2. SessionsBegun'
  <2> SUFFICES ASSUME NEW w \in Workers, NEW d \in Held(w)
               PROVE  session'[d.session] # "FREE"
    BY <1>1 DEF SessionsBegun
  <2>1. d \in Target
    BY HeldTargets DEF PushInv
  <2> QED
    BY <2>1 DEF SessionsBegun, PushInv, SessionsStay, Target
<1>3. \A w \in Workers : InHand(w)' /\ LateIsLast(w)'
  BY HandsKept
<1>4. \A t, r, n : Sending(t, r, n)' = Sending(t, r, n)
  BY DEF Sending, At, Served, Item
<1>5. ASSUME NEW t \in Tokens, NEW r \in Rows, NEW n \in Messages PROVE Accounted(t, r, n)'
  <2>1. Claimed(t, r, n) => Claimed(t, r, n)'
    BY ClaimsStay
  <2>2. sent[<< t, r, n >>] \in Nat /\ Cardinality(Sending(t, r, n)) \in Nat
    BY SendingFinite, Counts DEF PushInv
  <2> QED
    BY <1>4, <2>1, <2>2, AccountKept
<1>6. GivenOnce'
  <2>1. HeldStay
    BY <1>1 DEF HeldStay
  <2> QED
    BY <1>4, <2>1, GivenKept DEF Given
<1>7. EventsPast'
  BY DEF NoticesStay, EventsPast
<1> QED
  BY <1>2, <1>3, <1>5, <1>6, <1>7 DEF PushInv

(* No registration is asked for or made, and nothing new is given. *)
LEMMA IdsKept ==
  ASSUME PushInv, DevicesStay, asked' \subseteq asked, calls' = calls, HeldStay,
         \A t \in Tokens, r \in Rows, n \in Messages : sent'[<< t, r, n >>] # 0 => Given(t, r, n)
  PROVE  IdsFresh'
<1>1. \A r : New(r)' => New(r)
  BY DEF New
<1>2. \A x \in Bound' : x \in Bound /\ device'[x].row = device[x].row
  BY DEF Bound, DevicesStay
<1>3. \A t \in Tokens, r \in Rows, n \in Messages : sent'[<< t, r, n >>] # 0 => ~New(r)'
  BY <1>1, GivenKnown
<1>4. \A w \in Workers : \A d \in Held(w)' : ~New(d.row)'
  <2> SUFFICES ASSUME NEW w \in Workers, NEW d \in Held(w)' PROVE ~New(d.row)
    BY <1>1
  <2>1. d \in Held(w) \/ (d.token \in Bound /\ d.row = device[d.token].row)
    BY DEF HeldStay, HasRow, Bound
  <2> QED
    BY <2>1 DEF PushInv, IdsFresh
<1> QED
  BY <1>1, <1>2, <1>3, <1>4 DEF PushInv, IdsFresh

LEMMA NoticesSame ==
  ASSUME PushInv, UNCHANGED << clock, inbox, eventAt >>
  PROVE  NoticesStay
BY DEF PushInv, EventsPast, NoticesStay

LEMMA RegisterStep ==
  ASSUME PushInv, NEW s \in Sessions, NEW t \in Tokens, Register(s, t)
  PROVE  PushInv'
<1>1. PICK gone : Drop(gone)
  BY DEF Register
<1>2. PICK same \in BOOLEAN :
        asked' = asked \cup {[id |-> calls + 1, session |-> s, token |-> t, same |-> same]}
  BY DEF Register
<1>3. /\ calls < MaxCalls /\ calls' = calls + 1
      /\ UNCHANGED << clock, session, inbox, eventAt, worker, sent, lapsed, late >>
  BY DEF Register, account, notices, history
<1>4. calls \in Nat /\ MaxCalls \in Nat
  BY LimitsAssumption DEF PushInv, Types
<1>5. Types'
  <2>1. [id |-> calls + 1, session |-> s, token |-> t, same |-> same]
          \in [id : Rows, session : Sessions, token : Tokens, same : BOOLEAN]
    BY <1>3, <1>4 DEF Rows
  <2> QED
    BY <1>1, <1>2, <1>3, <1>4, <2>1, DropTypes DEF PushInv, Types
<1>6. DevicesStay /\ \A x \in Tokens : device'[x] # Off => device'[x] = device[x]
  BY <1>1, DropTypes DEF PushInv
<1>7. \A r \in Rows : ~New(r) => ~New(r)'
  BY <1>2, <1>3, <1>4 DEF New, Rows
<1>8. IdsFresh'
  <2>1. \A q \in asked : q.id \in Nat /\ q.id <= calls /\ q.id # calls + 1
    BY <1>4 DEF PushInv, IdsFresh, Types, Rows
  <2>2. \A q \in asked' : q \in asked \/ q = [id |-> calls + 1, session |-> s, token |-> t, same |-> same]
    BY <1>2
  <2>3. (\A q, r \in asked' : q.id = r.id => q = r) /\ \A q \in asked' : q.id <= calls'
    BY <1>3, <1>4, <2>1, <2>2 DEF PushInv, IdsFresh
  <2>4. \A x \in Bound' : ~New(device[x].row) /\ device[x].row \in Rows /\ device'[x] = device[x]
    BY <1>6 DEF PushInv, IdsFresh, Types, Bound, Device, DevicesStay
  <2>5. \A w \in Workers : \A d \in Held(w)' : d.row \in Rows /\ ~New(d.row)
    BY <1>3, HeldTargets DEF PushInv, IdsFresh, Held, Target
  <2>6. \A x \in Tokens, r \in Rows, n \in Messages : sent'[<< x, r, n >>] # 0 => ~New(r)
    BY <1>3 DEF PushInv, IdsFresh
  <2> QED
    BY <1>7, <2>3, <2>4, <2>5, <2>6 DEF IdsFresh
<1>9. SessionsStay
  BY <1>3, <1>6 DEF SessionsStay
<1>10. NoticesStay
  BY <1>3, NoticesSame
<1> QED
  BY <1>3, <1>5, <1>6, <1>8, <1>9, <1>10, WorldStep

(* Devices and sessions only go, and requests for devices are dropped. *)
LEMMA LossStep ==
  ASSUME PushInv, Types', DevicesStay, SessionsStay, NoticesStay, asked' \subseteq asked,
         UNCHANGED << worker, calls, sent, lapsed, late >>
  PROVE  PushInv'
<1>1. HeldStay
  BY DEF Held, HeldStay
<1>2. IdsFresh'
  BY <1>1, IdsKept DEF Given
<1> QED
  BY <1>2, WorldStep

LEMMA DisableSteps ==
  ASSUME PushInv, \/ \E t \in Tokens : Disable(t)
                  \/ \E s \in Sessions : DisableSession(s)
  PROVE  PushInv'
<1>1. PICK gone : Drop(gone)
  BY DEF Disable, DisableSession
<1>2. UNCHANGED << clock, session, inbox, eventAt, asked, worker, calls, sent, lapsed, late >>
  BY DEF Disable, DisableSession, account, notices, history
<1>3. DevicesStay /\ \A x \in Tokens : device'[x] # Off => device'[x] = device[x]
  BY <1>1, DropTypes DEF PushInv
<1>4. Types'
  BY <1>1, <1>2, DropTypes DEF PushInv, Types
<1>5. SessionsStay
  BY <1>2, <1>3 DEF SessionsStay
<1> QED
  BY <1>2, <1>3, <1>4, <1>5, LossStep, NoticesSame

LEMMA SessionSteps ==
  ASSUME PushInv, NEW s \in Sessions, SignIn(s) \/ SignOut(s)
  PROVE  PushInv'
<1>1. UNCHANGED << clock, device, delivery, inbox, eventAt, asked, worker, calls, sent,
                   lapsed, late >>
  BY DEF SignIn, SignOut, rows, notices, history
<1>2. /\ session' \in [Sessions -> {"FREE", "LIVE", "DEAD", "GONE"}]
      /\ \A x \in Sessions :
           /\ session[x] # "FREE" => session'[x] # "FREE"
           /\ session[x] \in {"DEAD", "GONE"} => session'[x] \in {"DEAD", "GONE"}
  BY DEF SignIn, SignOut, PushInv, Types
<1>3. Types'
  BY <1>1, <1>2 DEF PushInv, Types
<1>4. DevicesStay /\ SessionsStay
  BY <1>1, <1>2 DEF DevicesStay, SessionsStay
<1> QED
  BY <1>1, <1>3, <1>4, LossStep, NoticesSame

LEMMA RefreshStep ==
  ASSUME PushInv, NEW s \in Sessions, NEW new \in Sessions, Refresh(s, new)
  PROVE  PushInv'
<1>1. UNCHANGED << clock, delivery, inbox, eventAt, asked, worker, calls, sent, lapsed, late >>
  BY DEF Refresh, notices, history
<1>2. /\ session' \in [Sessions -> {"FREE", "LIVE", "DEAD", "GONE"}]
      /\ \A x \in Sessions :
           /\ session[x] # "FREE" => session'[x] # "FREE"
           /\ session[x] \in {"DEAD", "GONE"} => session'[x] \in {"DEAD", "GONE"}
  BY DEF Refresh, PushInv, Types
<1>3. \A t \in Tokens :
        \/ device'[t] = device[t]
        \/ /\ device[t] # Off /\ session[new] = "FREE"
           /\ device'[t] = [device[t] EXCEPT !.session = new]
  BY DEF Refresh, Bound
<1>4. \A t \in Tokens :
        /\ device'[t] \in Device \cup {Off}
        /\ device'[t] # Off =>
             /\ device[t] # Off
             /\ device'[t].row = device[t].row /\ device'[t].since = device[t].since
             /\ device'[t].session = device[t].session \/ session[device'[t].session] = "FREE"
  <2> SUFFICES ASSUME NEW t \in Tokens
               PROVE  /\ device'[t] \in Device \cup {Off}
                      /\ device'[t] # Off =>
                           /\ device[t] # Off
                           /\ device'[t].row = device[t].row
                           /\ device'[t].since = device[t].since
                           /\ \/ device'[t].session = device[t].session
                              \/ session[device'[t].session] = "FREE"
    OBVIOUS
  <2>1. device[t] \in Device \cup {Off}
    BY DEF PushInv, Types
  <2>2. CASE device'[t] = device[t]
    BY <2>1, <2>2
  <2>3. CASE device'[t] # device[t]
    BY <1>3, <2>1, <2>3 DEF Device
  <2> QED
    BY <2>2, <2>3
<1>5. device' \in [Tokens -> Device \cup {Off}]
  BY <1>4 DEF Refresh
<1>6. Types'
  BY <1>1, <1>2, <1>5 DEF PushInv, Types
<1>7. DevicesStay /\ SessionsStay
  BY <1>1, <1>2, <1>4 DEF DevicesStay, SessionsStay
<1> QED
  BY <1>1, <1>6, <1>7, LossStep, NoticesSame

LEMMA DeleteAccountStep ==
  ASSUME PushInv, NEW u, DeleteAccount(u)
  PROVE  PushInv'
<1> DEFINE gone == {t \in Bound : Owner[device[t].session] = u}
           deleted == {n \in Messages : Of[n] = u /\ inbox[n] # "NONE"}
<1>1. /\ session' = [s \in Sessions |-> IF Owner[s] = u /\ session[s] # "FREE"
                                        THEN "GONE" ELSE session[s]]
      /\ device' = [t \in Tokens |-> IF t \in gone THEN Off ELSE device[t]]
      /\ delivery' = [t \in Tokens |-> [n \in Messages |->
                        IF t \in gone \/ n \in deleted THEN Untried ELSE delivery[t][n]]]
      /\ inbox' = [n \in Messages |-> IF n \in deleted THEN "GONE" ELSE inbox[n]]
      /\ UNCHANGED << clock, eventAt, asked, worker, calls, sent, lapsed, late >>
  BY DEF DeleteAccount, history
<1>2. \A n \in Messages : n \in deleted => inbox[n] # "NONE"
  OBVIOUS
<1> HIDE DEF gone, deleted
<1>3. Untried \in Entry
  BY DEF Untried, Entry
<1>4. delivery' \in [Tokens -> [Messages -> Entry]]
  <2>1. \A t \in Tokens, n \in Messages : delivery[t][n] \in Entry
    BY DEF PushInv, Types
  <2>2. \A t \in Tokens, n \in Messages :
          (IF t \in gone \/ n \in deleted THEN Untried ELSE delivery[t][n]) \in Entry
    BY <1>3, <2>1
  <2> QED
    BY <1>1, <2>2
<1>5. Types'
  <2>1. session' \in [Sessions -> {"FREE", "LIVE", "DEAD", "GONE"}]
    BY <1>1 DEF PushInv, Types
  <2>2. device' \in [Tokens -> Device \cup {Off}]
    BY <1>1 DEF PushInv, Types
  <2>3. inbox' \in [Messages -> {"NONE", "UNREAD", "READ", "GONE"}]
    BY <1>1 DEF PushInv, Types
  <2> QED
    BY <1>1, <1>4, <2>1, <2>2, <2>3 DEF PushInv, Types
<1>6. \A n \in Messages : inbox'[n] = IF n \in deleted THEN "GONE" ELSE inbox[n]
  BY <1>1
<1>7. NoticesStay
  BY <1>1, <1>2, <1>6 DEF PushInv, EventsPast, NoticesStay
<1>8. DevicesStay
  <2> SUFFICES ASSUME NEW t \in Tokens, device'[t] # Off
               PROVE  /\ device[t] # Off /\ device'[t] = device[t]
                      /\ \A n \in Messages : delivery[t][n].state # "FREE" =>
                           delivery'[t][n].state # "FREE" \/ inbox'[n] = "GONE"
    BY DEF DevicesStay
  <2>1. t \notin gone /\ device'[t] = device[t]
    BY <1>1
  <2>2. \A n \in Messages : n \notin deleted => delivery'[t][n] = delivery[t][n]
    BY <1>1, <2>1
  <2> QED
    BY <1>6, <2>1, <2>2
<1>9. SessionsStay
  <2>1. \A t \in Tokens : device'[t] # Off => device'[t] = device[t]
    BY <1>1
  <2> QED
    BY <1>1, <2>1 DEF SessionsStay
<1> QED
  BY <1>1, <1>5, <1>7, <1>8, <1>9, LossStep

LEMMA StillSteps ==
  ASSUME PushInv, (\E q \in asked : EnableFails(q)) \/ UNCHANGED vars
  PROVE  PushInv'
<1>1. /\ UNCHANGED << clock, session, device, delivery, inbox, eventAt, worker, calls, sent,
                      lapsed, late >>
      /\ asked' \subseteq asked
  BY DEF EnableFails, vars, account, rows, notices, history
<1>2. Types' /\ DevicesStay /\ SessionsStay
  BY <1>1 DEF PushInv, Types, DevicesStay, SessionsStay
<1> QED
  BY <1>1, <1>2, LossStep, NoticesSame

LEMMA InboxSteps ==
  ASSUME PushInv, NEW n \in Messages, Ensure(n) \/ MarkAsRead(n)
  PROVE  PushInv'
<1>1. UNCHANGED << clock, session, device, delivery, asked, worker, calls, sent, lapsed, late >>
  BY DEF Ensure, MarkAsRead, account, rows, history
<1>2. /\ inbox' \in [Messages -> {"NONE", "UNREAD", "READ", "GONE"}]
      /\ \A m \in Messages : /\ inbox[m] # "NONE" => inbox'[m] # "NONE"
                             /\ inbox[m] = "GONE" => inbox'[m] = "GONE"
  BY DEF Ensure, MarkAsRead, PushInv, Types
<1>3. /\ eventAt' \in [Messages -> Nat]
      /\ \A m \in Messages : /\ inbox[m] # "NONE" /\ m \notin Redated => eventAt'[m] = eventAt[m]
                             /\ eventAt'[m] <= clock
  <2>1. CASE Ensure(n)
    <3>1. PICK time \in 0 .. clock : eventAt' = [eventAt EXCEPT ![n] = time]
      BY <2>1 DEF Ensure
    <3>2. inbox[n] = "NONE" \/ n \in Redated
      BY <2>1 DEF Ensure
    <3>3. clock \in Nat
      BY DEF PushInv, Types
    <3> QED
      BY <3>1, <3>2, <3>3 DEF PushInv, Types, EventsPast
  <2>2. CASE MarkAsRead(n)
    BY <2>2 DEF MarkAsRead, PushInv, Types, EventsPast
  <2> QED
    BY <2>1, <2>2
<1>4. Types'
  BY <1>1, <1>2, <1>3 DEF PushInv, Types
<1>5. DevicesStay /\ SessionsStay
  BY <1>1 DEF DevicesStay, SessionsStay
<1>6. NoticesStay
  BY <1>1, <1>2, <1>3 DEF NoticesStay
<1> QED
  BY <1>1, <1>4, <1>5, <1>6, LossStep

LEMMA EnableStep ==
  ASSUME PushInv, NEW q \in asked, Enable(q)
  PROVE  PushInv'
<1>1. /\ asked' = asked \ {q}
      /\ device' = [device EXCEPT ![q.token] = Upserted(q)]
      /\ clock' = IF device[q.token] # Off /\ q.same THEN clock ELSE clock + 1
      /\ late' = [w \in Workers |-> 0]
      /\ UNCHANGED << session, delivery, inbox, eventAt, worker, calls, sent, lapsed >>
  BY DEF Enable, account, notices
<1>2. q.token \in Tokens /\ q.session \in Sessions /\ q.id \in Rows /\ q.same \in BOOLEAN
  BY DEF PushInv, Types
<1>3. clock \in Nat /\ \A n \in Messages : eventAt[n] \in Nat /\ eventAt[n] <= clock
  BY DEF PushInv, Types, EventsPast
<1>4. /\ Upserted(q) \in Device
      /\ device[q.token] = Off => Upserted(q).row = q.id
      /\ device[q.token] # Off => Upserted(q).row = device[q.token].row
      /\ \/ Upserted(q).since = clock + 1
         \/ device[q.token] # Off /\ Upserted(q).since = device[q.token].since
  <2>1. CASE device[q.token] = Off
    BY <1>2, <1>3, <2>1 DEF Upserted, Device
  <2>2. CASE device[q.token] # Off
    <3>1. device[q.token] \in Device
      BY <1>2, <2>2 DEF PushInv, Types
    <3>2. CASE q.same
      BY <1>2, <2>2, <3>1, <3>2 DEF Upserted, Device
    <3>3. CASE ~q.same
      <4>1. PICK k : k = clock + 1
        OBVIOUS
      <4>2. Upserted(q) = [device[q.token] EXCEPT !.session = q.session, !.since = k]
        BY <2>2, <3>3, <4>1 DEF Upserted
      <4>3. k \in Nat
        BY <1>3, <4>1
      <4> QED
        BY <1>2, <2>2, <3>1, <4>1, <4>2, <4>3 DEF Device
    <3> QED
      BY <3>2, <3>3
  <2> QED
    BY <2>1, <2>2
<1>5. /\ device'[q.token] = Upserted(q) /\ device'[q.token] # Off
      /\ \A t \in Tokens \ {q.token} : device'[t] = device[t]
  BY <1>1, <1>2, <1>4, OffAssumption DEF PushInv, Types
<1>6. Types'
  BY <1>1, <1>2, <1>3, <1>4 DEF PushInv, Types
<1>7. \A v \in Workers : Held(v)' = Held(v) /\ Served(v)' = Served(v) /\ Listed(v)' = Listed(v)
  BY <1>1 DEF Held, Served, Listed
<1>8. \A r : New(r)' => New(r)
  BY <1>1 DEF New
<1>9. ~New(q.id)' /\ New(q.id)
  <2>1. q.id <= calls /\ calls \in Nat /\ q.id \in Nat
    BY <1>2 DEF PushInv, IdsFresh, Types, Rows
  <2> QED
    BY <1>1, <2>1 DEF PushInv, IdsFresh, New
<1>10. IdsFresh'
  <2>1. \A r : ~New(r) => ~New(r)'
    BY <1>8
  <2>2. \A t \in Bound' : ~New(device[t].row)'
    <3> SUFFICES ASSUME NEW t \in Bound'
                 PROVE  ~(device'[t].row > calls') /\ \A p \in asked' : p.id # device'[t].row
      BY DEF New
    <3>1. CASE t = q.token /\ device[t] = Off
      BY <1>4, <1>5, <1>9, <3>1 DEF New
    <3>2. CASE device[t] # Off
      <4>1. device'[t].row = device[t].row /\ t \in Bound
        BY <1>4, <1>5, <3>2 DEF Bound
      <4> QED
        BY <1>1, <4>1 DEF PushInv, IdsFresh, New
    <3> QED
      BY <1>5, <3>1, <3>2 DEF Bound
  <2>3. \A w \in Workers : \A d \in Held(w)' : ~New(d.row)'
    BY <1>7, <2>1 DEF PushInv, IdsFresh
  <2>4. \A t \in Tokens, r \in Rows, n \in Messages : sent'[<< t, r, n >>] # 0 => ~New(r)'
    BY <1>1, <2>1 DEF PushInv, IdsFresh
  <2> QED
    BY <1>1, <2>2, <2>3, <2>4 DEF PushInv, IdsFresh
<1>11. SessionsBegun' /\ EventsPast'
  BY <1>1, <1>3, <1>7 DEF PushInv, SessionsBegun, EventsPast
<1>12. \A w \in Workers : InHand(w)' /\ LateIsLast(w)'
  BY <1>1, <1>7 DEF PushInv, InHand, LateIsLast
<1>13. \A t, r, n : Sending(t, r, n)' = Sending(t, r, n)
  BY <1>1 DEF Sending, At, Served, Item
<1>14. \A t, r, n : Given(t, r, n)' = Given(t, r, n)
  BY <1>1, <1>13 DEF Given
<1>15. ASSUME NEW t \in Tokens, NEW r \in Rows, NEW n \in Messages PROVE Accounted(t, r, n)'
  <2>1. sent[<< t, r, n >>] \in Nat /\ lapsed[<< t, r, n >>] \in Nat
        /\ Cardinality(Sending(t, r, n)) \in Nat
    BY SendingFinite, Counts DEF PushInv
  <2>2. CASE t = q.token /\ device[t] = Off /\ r = q.id
    <3>1. sent[<< t, r, n >>] = 0 /\ Sending(t, r, n) = {}
      BY <1>9, <2>2, GivenKnown DEF Given
    <3>2. Cardinality(Sending(t, r, n)') = 0
      BY <1>13, <3>1, FS_EmptySet
    <3> QED
      BY <1>1, <2>1, <3>1, <3>2 DEF Accounted
  <2>3. CASE ~(t = q.token /\ device[t] = Off /\ r = q.id)
    <3>1. Claimed(t, r, n) => Claimed(t, r, n)'
      <4>1. CASE t # q.token
        BY <1>1, <1>5, <4>1 DEF Claimed
      <4>2. CASE t = q.token /\ device[t] # Off
        BY <1>1, <1>4, <1>5, <4>2 DEF Claimed
      <4>3. CASE t = q.token /\ device[t] = Off /\ r # q.id
        BY <1>4, <1>5, <4>3 DEF Claimed
      <4> QED
        BY <2>3, <4>1, <4>2, <4>3
    <3> QED
      BY <1>1, <1>6, <1>13, <2>1, <3>1, AccountKept
  <2> QED
    BY <2>2, <2>3
<1>16. GivenOnce'
  <2> SUFFICES ASSUME NEW t \in Tokens, NEW r \in Rows, NEW n \in Messages \ Redated,
                      Given(t, r, n)
               PROVE  /\ inbox[n] # "NONE"
                      /\ \A p \in Rows : Given(t, p, n) => p = r
                      /\ device'[t] # Off /\ device'[t].row # r => device'[t].since > eventAt[n]
                      /\ \A w \in Workers : \A d \in Held(w) :
                           d.token = t /\ HasRow(d)' /\ d.row # r => d.since > eventAt[n]
    BY <1>1, <1>7, <1>14 DEF GivenOnce
  <2>1. /\ inbox[n] # "NONE"
        /\ \A p \in Rows : Given(t, p, n) => p = r
        /\ device[t] # Off /\ device[t].row # r => device[t].since > eventAt[n]
        /\ \A w \in Workers : \A d \in Held(w) :
             d.token = t /\ HasRow(d) /\ d.row # r => d.since > eventAt[n]
    BY DEF PushInv, GivenOnce
  <2>2. device'[t] # Off /\ device'[t].row # r => device'[t].since > eventAt[n]
    <3>1. CASE t # q.token
      BY <1>5, <2>1, <3>1
    <3>2. CASE t = q.token /\ Upserted(q).since = clock + 1
      BY <1>3, <1>5, <3>2
    <3>3. CASE t = q.token /\ device[t] # Off /\ Upserted(q).since = device[t].since
      BY <1>4, <1>5, <2>1, <3>3
    <3> QED
      BY <1>4, <3>1, <3>2, <3>3
  <2>3. ASSUME NEW w \in Workers, NEW d \in Held(w), d.token = t, HasRow(d)', d.row # r
        PROVE  d.since > eventAt[n]
    <3>1. d.row # q.id
      BY <1>9 DEF PushInv, IdsFresh
    <3>2. HasRow(d)
      BY <1>4, <1>5, <2>3, <3>1 DEF HasRow
    <3> QED
      BY <2>1, <2>3, <3>2
  <2> QED
    BY <2>1, <2>2, <2>3
<1> QED
  BY <1>6, <1>10, <1>11, <1>12, <1>15, <1>16 DEF PushInv

LEMMA LeaseStep ==
  ASSUME PushInv, NEW t \in Tokens, NEW n \in Messages, LeaseRunsOut(t, n)
  PROVE  PushInv'
<1> DEFINE r == device[t].row
<1>1. /\ t \in Bound /\ delivery[t][n].state = "LEASED"
      /\ delivery' = [delivery EXCEPT ![t][n].state = "FREE"]
      /\ lapsed' = [lapsed EXCEPT ![<< t, r, n >>] = @ + 1]
      /\ UNCHANGED << clock, session, device, inbox, eventAt, asked, worker, calls, sent, late >>
  BY DEF LeaseRunsOut, account, notices
<1>2. r \in Rows
  BY <1>1 DEF PushInv, Types, Bound, Device
<1> HIDE DEF r
<1>3. << t, r, n >> \in Tokens \X Rows \X Messages
  BY <1>2
<1>4. \A x \in Tokens, p \in Rows, m \in Messages :
        lapsed'[<< x, p, m >>] = IF x = t /\ p = r /\ m = n THEN lapsed[<< x, p, m >>] + 1
                                 ELSE lapsed[<< x, p, m >>]
  BY <1>1, <1>3 DEF PushInv, Types
<1>5. /\ delivery[t] \in [Messages -> Entry] /\ delivery[t][n] \in Entry
      /\ [delivery[t][n] EXCEPT !.state = "FREE"] \in Entry
  <2>1. delivery[t] \in [Messages -> Entry]
    BY <1>1 DEF PushInv, Types, Bound
  <2>2. PICK e : e = delivery[t][n]
    OBVIOUS
  <2>3. e \in Entry /\ [e EXCEPT !.state = "FREE"] \in Entry
    BY <2>1, <2>2 DEF Entry
  <2> QED
    BY <2>1, <2>2, <2>3
<1>6. delivery' = [delivery EXCEPT ![t] =
                     [delivery[t] EXCEPT ![n] = [delivery[t][n] EXCEPT !.state = "FREE"]]]
  BY <1>1, <1>5 DEF PushInv, Types
<1>7. delivery' \in [Tokens -> [Messages -> Entry]]
  BY <1>5, <1>6 DEF PushInv, Types
<1>8. Types'
  <2>1. lapsed' \in [Tokens \X Rows \X Messages -> Nat]
    <3>1. lapsed[<< t, r, n >>] \in Nat
      BY <1>2, Counts DEF PushInv
    <3>2. PICK k : k = lapsed[<< t, r, n >>] + 1
      OBVIOUS
    <3>3. k \in Nat /\ lapsed' = [lapsed EXCEPT ![<< t, r, n >>] = k]
      BY <1>1, <3>1, <3>2
    <3> QED
      BY <3>3 DEF PushInv, Types
  <2> QED
    BY <1>1, <1>7, <2>1 DEF PushInv, Types
<1>9. \A x \in Tokens, m \in Messages : << x, m >> # << t, n >> => delivery'[x][m] = delivery[x][m]
  BY <1>1 DEF PushInv, Types
<1>10. \A v \in Workers : Held(v)' = Held(v) /\ Served(v)' = Served(v) /\ Listed(v)' = Listed(v)
  BY <1>1 DEF Held, Served, Listed
<1>11. \A x, p, m : Sending(x, p, m)' = Sending(x, p, m) /\ Given(x, p, m)' = Given(x, p, m)
  BY <1>1 DEF Sending, At, Served, Item, Given
<1>12. IdsFresh' /\ SessionsBegun' /\ EventsPast'
  BY <1>1, <1>10 DEF PushInv, IdsFresh, New, SessionsBegun, EventsPast, Bound
<1>13. GivenOnce'
  BY <1>1, <1>10, <1>11 DEF PushInv, GivenOnce, HasRow
<1>14. \A w \in Workers : InHand(w)' /\ LateIsLast(w)'
  BY <1>1, <1>10 DEF PushInv, InHand, LateIsLast, Binding, HasRow
<1>15. ASSUME NEW x \in Tokens, NEW p \in Rows, NEW m \in Messages PROVE Accounted(x, p, m)'
  <2>1. sent[<< x, p, m >>] \in Nat /\ lapsed[<< x, p, m >>] \in Nat
        /\ Cardinality(Sending(x, p, m)) \in Nat
    BY SendingFinite, Counts DEF PushInv
  <2>2. CASE x = t /\ p = r /\ m = n
    <3>1. lapsed'[<< x, p, m >>] = lapsed[<< x, p, m >>] + 1
      BY <1>4, <2>2
    <3>2. sent[<< x, p, m >>] + Cardinality(Sending(x, p, m)) <= lapsed[<< x, p, m >>] + 1
      BY <2>1 DEF PushInv, Accounted
    <3> QED
      BY <1>1, <1>11, <2>1, <3>1, <3>2 DEF Accounted
  <2>3. CASE ~(x = t /\ p = r /\ m = n)
    <3>1. lapsed'[<< x, p, m >>] = lapsed[<< x, p, m >>]
      BY <1>4, <2>3
    <3>2. Claimed(x, p, m) => Claimed(x, p, m)'
      <4>1. CASE x = t /\ m = n
        BY <1>1, <2>3, <4>1 DEF Claimed, r
      <4>2. CASE ~(x = t /\ m = n)
        BY <1>1, <1>9, <4>2 DEF Claimed
      <4> QED
        BY <4>1, <4>2
    <3> QED
      BY <1>1, <1>8, <1>11, <2>1, <3>1, <3>2, AccountKept
  <2> QED
    BY <2>2, <2>3
<1> QED
  BY <1>8, <1>12, <1>13, <1>14, <1>15 DEF PushInv

-----------------------------------------------------------------------------
(* Steps of the worker *)
LEMMA Moved ==
  ASSUME Types, NEW w \in Workers
  PROVE  /\ \A place \in Places : Move(w, place) =>
              /\ worker'[w].at = place
              /\ worker'[w].batch = worker[w].batch /\ worker'[w].items = worker[w].items
         /\ NextDevice(w) => \/ worker'[w].at = "IDLE"
                             \/ worker'[w].at = "VISIT" /\ worker'[w].batch # << >>
         /\ NextItem(w) => \/ NextDevice(w)
                           \/ /\ worker'[w].at = "RECHECK" /\ worker'[w].items # << >>
                              /\ worker'[w].batch = worker[w].batch
         /\ worker' = [worker EXCEPT ![w] = Idle] => worker'[w].at = "IDLE"
<1>1. worker[w] \in Process
  BY DEF Types
<1>2. \A place \in Places : Move(w, place) =>
        /\ worker'[w].at = place
        /\ worker'[w].batch = worker[w].batch /\ worker'[w].items = worker[w].items
  <2>1. \A place \in Places : Move(w, place) => worker'[w] = [worker[w] EXCEPT !.at = place]
    BY DEF Move, Types
  <2> QED
    BY <1>1, <2>1 DEF Process
<1>3. NextDevice(w) => \/ worker'[w].at = "IDLE"
                       \/ worker'[w].at = "VISIT" /\ worker'[w].batch # << >>
  BY DEF NextDevice, Types, Idle
<1>4. NextItem(w) => \/ NextDevice(w)
                     \/ /\ worker'[w].at = "RECHECK" /\ worker'[w].items # << >>
                        /\ worker'[w].batch = worker[w].batch
  <2>1. NextItem(w) /\ ~NextDevice(w) =>
          /\ Tail(worker[w].items) # << >>
          /\ worker'[w] = [worker[w] EXCEPT !.at = "RECHECK", !.items = Tail(worker[w].items)]
    BY DEF NextItem, Types
  <2> QED
    BY <1>1, <2>1 DEF Process
<1>5. worker' = [worker EXCEPT ![w] = Idle] => worker'[w].at = "IDLE"
  BY DEF Types, Idle
<1> QED
  BY <1>2, <1>3, <1>4, <1>5

(* Any step of a process but a claim. *)
LEMMA WorkerStep ==
  ASSUME PushInv, Types', NEW w \in Workers, Moves(w), worker'[w].at # "SEND", HeldStay,
         DevicesStay, \A t \in Tokens : device'[t] # Off => device'[t] = device[t],
         UNCHANGED << clock, session, asked, calls, inbox, eventAt, lapsed >>,
         \A t \in Tokens, r \in Rows, n \in Messages :
           \/ sent'[<< t, r, n >>] = sent[<< t, r, n >>]
           \/ w \in Sending(t, r, n) /\ sent'[<< t, r, n >>] = sent[<< t, r, n >>] + 1,
         InHand(w)', LateIsLast(w)',
         \A v \in Workers \ {w} : late'[v] = late[v]
  PROVE  PushInv'
<1>1. NoticesStay /\ SessionsStay
  BY NoticesSame DEF SessionsStay
<1>2. IdsFresh'
  BY IdsKept DEF Given
<1>3. SessionsBegun' /\ EventsPast'
  BY DEF PushInv, SessionsBegun, HeldStay, EventsPast
<1>4. ASSUME NEW v \in Workers, v # w PROVE InHand(v)' /\ LateIsLast(v)'
  <2>1. worker'[v] = worker[v] /\ late'[v] = late[v]
    BY <1>4 DEF Moves
  <2> QED
    BY <1>1, <2>1, HandsKept
<1>5. ASSUME NEW t \in Tokens, NEW r \in Rows, NEW n \in Messages
      PROVE  Accounted(t, r, n)' /\ (Given(t, r, n)' => Given(t, r, n))
  <2>1. /\ Sending(t, r, n)' = Sending(t, r, n) \ {w}
        /\ Cardinality(Sending(t, r, n)') \in Nat
        /\ Cardinality(Sending(t, r, n)')
             = Cardinality(Sending(t, r, n)) - IF w \in Sending(t, r, n) THEN 1 ELSE 0
    BY SendingLess
  <2>2. sent[<< t, r, n >>] \in Nat /\ Cardinality(Sending(t, r, n)) \in Nat
    BY SendingFinite, Counts DEF PushInv
  <2>3. sent'[<< t, r, n >>] + Cardinality(Sending(t, r, n)')
          <= sent[<< t, r, n >>] + Cardinality(Sending(t, r, n))
    BY <2>1, <2>2
  <2>4. Claimed(t, r, n) => Claimed(t, r, n)'
    BY <1>1, ClaimsStay
  <2>5. Accounted(t, r, n)'
    BY <2>1, <2>3, <2>4, AccountKept
  <2>6. Given(t, r, n)' => Given(t, r, n)
    BY <2>1 DEF Given
  <2> QED
    BY <2>5, <2>6
<1>6. GivenOnce'
  BY <1>1, <1>5, GivenKept
<1> QED
  BY <1>2, <1>3, <1>4, <1>5, <1>6 DEF PushInv

(* Deliveries are recorded, or dropped with their device. *)
DeliveriesStay ==
  /\ device' \in [Tokens -> Device \cup {Off}]
  /\ delivery' \in [Tokens -> [Messages -> Entry]]
  /\ DevicesStay
  /\ \A t \in Tokens : device'[t] # Off => device'[t] = device[t]

LEMMA SameDevices ==
  ASSUME Types, device' = device, delivery' = delivery
  PROVE  DeliveriesStay
BY DEF Types, DeliveriesStay, DevicesStay

LEMMA LateValues ==
  ASSUME PushInv, NEW w \in Workers
  PROVE  /\ late[w] \in {0, 1}
         /\ late[w] = 1 => \/ worker[w].at \in {"IDLE", "PICK", "VISIT"}
                           \/ worker[w].at \in {"RECHECK", "RECORD"} /\ ~Binding(Served(w))
BY DEF PushInv, LateIsLast

LEMMA PickStep ==
  ASSUME PushInv, NEW w \in Workers, Pick(w)
  PROVE  PushInv'
<1>1. UNCHANGED << clock, session, device, delivery, inbox, eventAt, asked, calls, sent,
                   lapsed, late >>
  BY DEF Pick, account, rows, notices, history
<1>2. /\ worker'[w].at = "IDLE" \/ (worker'[w].at = "VISIT" /\ worker'[w].batch # << >>)
      /\ worker' \in [Workers -> Process] /\ Moves(w) /\ HeldStay
  BY PickedTargets DEF PushInv
<1>3. Types'
  BY <1>1, <1>2 DEF PushInv, Types
<1>4. InHand(w)' /\ LateIsLast(w)'
  BY <1>1, <1>2, LateValues DEF InHand, LateIsLast
<1>5. DeliveriesStay
  BY <1>1, SameDevices DEF PushInv
<1> QED
  BY <1>1, <1>2, <1>3, <1>4, <1>5, WorkerStep DEF DeliveriesStay

(* A process gives up a device, or its whole round, or begins one. *)
LEMMA LeaveStep ==
  ASSUME PushInv, NEW w \in Workers, DeliveriesStay,
         UNCHANGED << clock, session, asked, calls, inbox, eventAt, sent, lapsed, late >>,
         \/ worker[w].batch # << >> /\ NextDevice(w)
         \/ worker' = [worker EXCEPT ![w] = Idle]
         \/ At(w, "IDLE") /\ Move(w, "PICK")
  PROVE  PushInv'
<1>1. worker' \in [Workers -> Process] /\ Moves(w) /\ HeldStay
  BY MoveOn DEF PushInv, Places
<1>2. worker'[w].at \in {"IDLE", "PICK"} \/ (worker'[w].at = "VISIT" /\ worker'[w].batch # << >>)
  BY Moved DEF PushInv, Places
<1>3. Types'
  BY <1>1 DEF PushInv, Types, DeliveriesStay
<1>4. InHand(w)' /\ LateIsLast(w)'
  BY <1>2, LateValues DEF InHand, LateIsLast
<1> QED
  BY <1>1, <1>2, <1>3, <1>4, WorkerStep DEF DeliveriesStay

(* A process that has a device in hand goes on with it. *)
LEMMA GoOnStep ==
  ASSUME PushInv, NEW w \in Workers, Types', DeliveriesStay, device' = device,
         worker[w].at \in {"RECHECK", "CLAIM", "SEND", "RECORD"},
         UNCHANGED << clock, session, asked, calls, inbox, eventAt, lapsed >>,
         \/ worker[w].at # "RECHECK" /\ NextItem(w)
         \/ \E place \in {"CLAIM", "RECORD"} : Move(w, place),
         \A t \in Tokens, r \in Rows, n \in Messages :
           \/ sent'[<< t, r, n >>] = sent[<< t, r, n >>]
           \/ w \in Sending(t, r, n) /\ sent'[<< t, r, n >>] = sent[<< t, r, n >>] + 1,
         \A v \in Workers \ {w} : late'[v] = late[v],
         \/ late'[w] = 0
         \/ late'[w] = 1 /\ worker'[w].at # "CLAIM" /\ ~Binding(Served(w))
  PROVE  PushInv'
<1>1. worker[w].batch # << >> /\ worker[w].items # << >>
  BY DEF PushInv, InHand
<1>2. Moves(w) /\ Listed(w)' \subseteq Listed(w) /\ HeldStay
  BY <1>1, MoveOn DEF PushInv, Places
<1>3. \/ /\ worker'[w].batch = worker[w].batch /\ worker'[w].items # << >>
         /\ worker'[w].at \in {"RECHECK", "CLAIM", "RECORD"}
      \/ worker'[w].at = "IDLE"
      \/ worker'[w].at = "VISIT" /\ worker'[w].batch # << >>
  BY <1>1, Moved DEF PushInv, Places
<1>4. worker'[w].batch = worker[w].batch =>
        Served(w)' = Served(w) /\ (Binding(Served(w)))' = Binding(Served(w))
  BY DEF Served, Binding, HasRow
<1>5. \A n \in Listed(w) : inbox[n] # "NONE" /\ (n \in Redated \/ eventAt[n] >= Served(w).since)
  BY DEF PushInv, InHand
<1>6. InHand(w)'
  BY <1>1, <1>2, <1>3, <1>4, <1>5 DEF InHand
<1>7. LateIsLast(w)'
  BY <1>3, <1>4 DEF LateIsLast
<1>8. worker'[w].at # "SEND"
  BY <1>3
<1> QED
  BY <1>2, <1>6, <1>7, <1>8, WorkerStep DEF DeliveriesStay

LEMMA ReceivedFacts ==
  ASSUME PushInv, NEW w \in Workers, At(w, "SEND"), Received(w)
  PROVE  /\ sent' \in [Tokens \X Rows \X Messages -> Nat] /\ late' \in [Workers -> Nat]
         /\ lapsed' = lapsed
         /\ \A t \in Tokens, r \in Rows, n \in Messages :
              \/ sent'[<< t, r, n >>] = sent[<< t, r, n >>]
              \/ w \in Sending(t, r, n) /\ sent'[<< t, r, n >>] = sent[<< t, r, n >>] + 1
         /\ \A v \in Workers \ {w} : late'[v] = late[v]
         /\ late'[w] = 0 \/ (late'[w] = 1 /\ ~Binding(Served(w)))
<1> DEFINE t == Served(w).token
           r == Served(w).row
           n == Item(w)
<1>1. t \in Tokens /\ r \in Rows /\ n \in Messages
  BY ItemHeld DEF At, Target
<1>2. w \in Sending(t, r, n)
  BY DEF Sending
<1>3. sent' = [sent EXCEPT ![<< t, r, n >>] = @ + 1]
  BY DEF Received
<1> HIDE DEF t, r, n
<1>4. /\ sent \in [Tokens \X Rows \X Messages -> Nat] /\ sent[<< t, r, n >>] \in Nat
      /\ << t, r, n >> \in Tokens \X Rows \X Messages
  BY <1>1, Counts DEF PushInv, Types
<1>5. sent' \in [Tokens \X Rows \X Messages -> Nat]
  <2>1. PICK k : k = sent[<< t, r, n >>] + 1
    OBVIOUS
  <2>2. k \in Nat /\ sent' = [sent EXCEPT ![<< t, r, n >>] = k]
    BY <1>3, <1>4, <2>1
  <2> QED
    BY <1>4, <2>2
<1>6. \A x \in Tokens, p \in Rows, m \in Messages :
        sent'[<< x, p, m >>] = IF x = t /\ p = r /\ m = n THEN sent[<< x, p, m >>] + 1
                               ELSE sent[<< x, p, m >>]
  BY <1>1, <1>3, <1>4
<1>7. ASSUME NEW x \in Tokens, NEW p \in Rows, NEW m \in Messages
      PROVE  \/ sent'[<< x, p, m >>] = sent[<< x, p, m >>]
             \/ w \in Sending(x, p, m) /\ sent'[<< x, p, m >>] = sent[<< x, p, m >>] + 1
  <2>1. CASE x = t /\ p = r /\ m = n
    BY <1>2, <1>6, <2>1
  <2>2. CASE ~(x = t /\ p = r /\ m = n)
    BY <1>6, <2>2
  <2> QED
    BY <2>1, <2>2
<1>8. late[w] = 0
  BY LateValues DEF At
<1>9. /\ late' \in [Workers -> Nat] /\ \A v \in Workers \ {w} : late'[v] = late[v]
      /\ late'[w] = IF Binding(Served(w)) THEN 0 ELSE 1
  BY <1>8 DEF Received, PushInv, Types
<1> QED
  BY <1>5, <1>7, <1>9 DEF Received

LEMMA TickStep ==
  ASSUME PushInv, NEW w \in Workers, Tick(w)
  PROVE  PushInv'
<1>1. PICK gone : Drop(gone)
  BY DEF Tick
<1>2. DeliveriesStay
  BY <1>1, DropTypes DEF PushInv, DeliveriesStay
<1> QED
  BY <1>2, LeaveStep DEF Tick, account, notices, history

LEMMA VisitStep ==
  ASSUME PushInv, NEW w \in Workers, Visit(w)
  PROVE  PushInv'
<1>1. /\ Move(w, "SYNC") /\ late' = [late EXCEPT ![w] = 0] /\ worker[w].at = "VISIT"
      /\ UNCHANGED << clock, session, device, delivery, inbox, eventAt, asked, calls, sent,
                      lapsed >>
  BY DEF Visit, At, account, notices
<1>2. worker' \in [Workers -> Process] /\ Moves(w) /\ HeldStay
  BY <1>1, MoveOn DEF PushInv, Places
<1>3. worker'[w].at = "SYNC" /\ worker'[w].batch = worker[w].batch /\ worker[w].batch # << >>
  BY <1>1, Moved DEF PushInv, Places, InHand
<1>4. late'[w] = 0 /\ (\A v \in Workers \ {w} : late'[v] = late[v]) /\ late' \in [Workers -> Nat]
  BY <1>1 DEF PushInv, Types
<1>5. Types'
  BY <1>1, <1>2, <1>4 DEF PushInv, Types
<1>6. InHand(w)' /\ LateIsLast(w)'
  BY <1>1, <1>3, <1>4 DEF InHand, LateIsLast
<1>7. DeliveriesStay
  BY <1>1, SameDevices DEF PushInv
<1> QED
  BY <1>1, <1>2, <1>3, <1>4, <1>5, <1>6, <1>7, WorkerStep DEF DeliveriesStay

LEMMA ReadStep ==
  ASSUME PushInv, NEW w \in Workers, Read(w)
  PROVE  PushInv'
<1> DEFINE unread == {n \in Messages : /\ inbox[n] = "UNREAD" /\ eventAt[n] >= Served(w).since
                                       /\ Of[n] = Owner[Served(w).session]}
<1>1. PICK list \in [1 .. Cardinality(unread) -> unread] :
        IF list = << >> THEN NextDevice(w)
        ELSE worker' = [worker EXCEPT ![w].at = "RECHECK", ![w].items = list]
  BY DEF Read
<1>2. /\ worker[w].at = "SYNC" /\ worker[w].batch # << >>
      /\ UNCHANGED << clock, session, device, delivery, inbox, eventAt, asked, calls, sent,
                      lapsed, late >>
  BY DEF Read, At, PushInv, InHand, account, rows, notices, history
<1>3. \A n \in unread : n \in Messages /\ inbox[n] = "UNREAD" /\ eventAt[n] >= Served(w).since
  OBVIOUS
<1>4. Cardinality(unread) \in Nat
  <2>1. unread \in SUBSET Messages
    OBVIOUS
  <2> HIDE DEF unread
  <2> QED
    BY <2>1, FiniteAssumption, FS_Subset, FS_CardinalityType
<1> HIDE DEF unread
<1>5. list \in Seq(Messages) /\ \A n \in Range(list) : n \in unread
  <2>1. PICK k \in Nat : k = Cardinality(unread)
    BY <1>4
  <2>2. list \in [1 .. k -> Messages]
    BY <1>1, <1>3, <2>1
  <2> QED
    BY <1>1, <2>1, <2>2, SeqDef DEF Range
<1>6. worker[w] \in Process
  BY DEF PushInv, Types
<1>7. PICK p : p = [worker[w] EXCEPT !.at = "RECHECK", !.items = list]
  OBVIOUS
<1>8. /\ p \in Process /\ p.at = "RECHECK" /\ p.items = list /\ p.batch = worker[w].batch
      /\ list # << >> => worker' = [worker EXCEPT ![w] = p]
  BY <1>1, <1>5, <1>6, <1>7 DEF Process, Places, PushInv, Types
<1>9. DeliveriesStay
  BY <1>2, SameDevices DEF PushInv
<1>10. CASE list = << >>
  BY <1>1, <1>2, <1>9, <1>10, LeaveStep
<1> SUFFICES ASSUME list # << >> PROVE PushInv'
  BY <1>10
<1>11. worker' \in [Workers -> Process] /\ Moves(w) /\ worker'[w] = p /\ HeldStay
  BY <1>8, Assigned DEF PushInv, Held
<1>12. Types'
  BY <1>2, <1>11 DEF PushInv, Types
<1>13. InHand(w)'
  BY <1>2, <1>3, <1>5, <1>8, <1>11 DEF InHand, Listed, Served
<1>14. LateIsLast(w)'
  BY <1>2, LateValues DEF LateIsLast
<1>15. worker'[w].at # "SEND"
  BY <1>8, <1>11
<1> QED
  BY <1>2, <1>9, <1>11, <1>12, <1>13, <1>14, <1>15, WorkerStep DEF DeliveriesStay

LEMMA RecheckStep ==
  ASSUME PushInv, NEW w \in Workers, Recheck(w)
  PROVE  PushInv'
<1>1. /\ worker[w].at = "RECHECK" /\ worker[w].batch # << >>
      /\ UNCHANGED << clock, session, device, delivery, inbox, eventAt, asked, calls, sent,
                      lapsed, late >>
  BY DEF Recheck, At, PushInv, InHand, account, rows, notices, history
<1>2. DeliveriesStay
  BY <1>1, SameDevices DEF PushInv
<1>3. CASE ~Binding(Served(w))
  BY <1>1, <1>2, <1>3, LeaveStep DEF Recheck
<1>4. CASE Binding(Served(w))
  <2>1. Move(w, "CLAIM")
    BY <1>4 DEF Recheck
  <2>2. late[w] = 0
    BY <1>1, <1>4, LateValues
  <2>3. Types'
    BY <1>1, <2>1, MoveOn DEF PushInv, Types, Places
  <2> QED
    BY <1>1, <1>2, <1>4, <2>1, <2>2, <2>3, GoOnStep
<1> QED
  BY <1>3, <1>4

LEMMA ClaimStep ==
  ASSUME PushInv, NEW w \in Workers, Claim(w)
  PROVE  PushInv'
<1>0. PICK t, r, n : t = Served(w).token /\ r = Served(w).row /\ n = Item(w)
  OBVIOUS
<1> DEFINE x == delivery[t][n]
<1>1. /\ worker[w].at = "CLAIM" /\ worker[w].batch # << >> /\ worker[w].items # << >>
      /\ UNCHANGED << clock, session, device, inbox, eventAt, asked, calls, sent, lapsed, late >>
  BY DEF Claim, At, PushInv, InHand, account, notices, history
<1>2. /\ t \in Tokens /\ r \in Rows /\ n \in Messages /\ Served(w) \in Held(w)
      /\ inbox[n] # "NONE" /\ (n \in Redated \/ eventAt[n] >= Served(w).since)
  BY <1>0, <1>1, ItemHeld DEF Target
<1>3. late[w] = 0
  BY <1>1, LateValues
<1>4. CASE delivery' = delivery /\ NextDevice(w)
  <2>1. DeliveriesStay
    BY <1>1, <1>4, SameDevices DEF PushInv
  <2> QED
    BY <1>1, <1>4, <2>1, LeaveStep
<1>5. CASE delivery' = delivery /\ NextItem(w)
  <2>1. DeliveriesStay
    BY <1>1, <1>5, SameDevices DEF PushInv
  <2>2. Types'
    BY <1>1, <1>5, MoveOn DEF PushInv, Types
  <2> QED
    BY <1>1, <1>3, <1>5, <2>1, <2>2, GoOnStep
<1>6. CASE /\ HasRows(w) /\ Claimable(x) /\ Move(w, "SEND")
           /\ delivery' = [delivery EXCEPT ![t][n] =
                             [attempts |-> x.attempts + 1, state |-> "LEASED"]]
  <2>1. /\ worker' \in [Workers -> Process] /\ Moves(w) /\ HeldStay
        /\ worker'[w].at = "SEND"
        /\ worker'[w].batch = worker[w].batch /\ worker'[w].items = worker[w].items
    BY <1>6, MoveOn, Moved DEF PushInv, Places
  <2>2. /\ delivery \in [Tokens -> [Messages -> Entry]]
        /\ x.attempts \in Nat /\ x.state = "FREE"
    BY <1>2, <1>6 DEF PushInv, Types, Entry, Claimable
  <2>3. /\ HasRow(Served(w)) /\ device[t] # Off /\ device[t].row = r /\ inbox[n] # "GONE"
        /\ Served(w).token = t /\ Served(w).row = r /\ Item(w) = n
    BY <1>0, <1>6 DEF HasRows, HasRow
  <2> HIDE DEF x
  <2>4. PICK e : e = [attempts |-> x.attempts + 1, state |-> "LEASED"]
    OBVIOUS
  <2>5. e \in Entry /\ e.state = "LEASED"
    BY <2>2, <2>4 DEF Entry
  <2>6. delivery' = [delivery EXCEPT ![t][n] = e]
    BY <1>6, <2>4
  <2>7. /\ delivery' \in [Tokens -> [Messages -> Entry]]
        /\ \A y \in Tokens, m \in Messages :
             delivery'[y][m] = IF y = t /\ m = n THEN e ELSE delivery[y][m]
    BY <1>2, <2>2, <2>5, <2>6
  <2>8. Types'
    BY <1>1, <2>1, <2>7 DEF PushInv, Types
  <2>9. DevicesStay /\ NoticesStay /\ SessionsStay
    <3>1. DevicesStay
      BY <1>1, <2>5, <2>7 DEF DevicesStay
    <3> QED
      BY <1>1, <3>1, NoticesSame DEF SessionsStay
  <2>10. IdsFresh' /\ SessionsBegun' /\ EventsPast'
    <3>1. IdsFresh'
      BY <1>1, <2>1, <2>9, IdsKept DEF Given
    <3> QED
      BY <1>1, <2>1, <3>1 DEF PushInv, SessionsBegun, HeldStay, EventsPast
  <2>11. Served(w)' = Served(w) /\ Item(w)' = Item(w) /\ Listed(w)' = Listed(w)
    BY <2>1 DEF Served, Item, Listed
  <2>12. ASSUME NEW v \in Workers PROVE InHand(v)' /\ LateIsLast(v)'
    <3>1. CASE v = w
      BY <1>1, <1>3, <2>1, <2>11, <3>1 DEF PushInv, InHand, LateIsLast
    <3>2. CASE v # w
      <4>1. worker'[v] = worker[v] /\ late'[v] = late[v]
        BY <1>1, <2>1, <3>2 DEF Moves
      <4> QED
        BY <2>8, <2>9, <4>1, HandsKept
    <3> QED
      BY <3>1, <3>2
  <2>13. ASSUME NEW v \in Workers, v # w
         PROVE  Served(v)' = Served(v) /\ Item(v)' = Item(v) /\ At(v, "SEND")' = At(v, "SEND")
    <3>1. worker'[v] = worker[v]
      BY <2>1, <2>13 DEF Moves
    <3> QED
      BY <3>1 DEF Served, Item, At
  <2>14. /\ Sending(t, r, n)' = Sending(t, r, n) \cup {w} /\ w \notin Sending(t, r, n)
         /\ \A y, p, m : ~(y = t /\ p = r /\ m = n) => Sending(y, p, m)' = Sending(y, p, m)
    <3>1. w \notin Sending(t, r, n) /\ \A y, p, m : w \notin Sending(y, p, m)
      BY <1>1 DEF Sending, At
    <3>2. w \in Sending(t, r, n)'
      BY <2>1, <2>3, <2>11 DEF Sending, At
    <3>3. \A y, p, m : ~(y = t /\ p = r /\ m = n) => w \notin Sending(y, p, m)'
      BY <2>3, <2>11 DEF Sending
    <3>4. \A y, p, m : \A v \in Workers \ {w} : v \in Sending(y, p, m)' <=> v \in Sending(y, p, m)
      BY <2>13 DEF Sending
    <3>5. \A y, p, m : Sending(y, p, m)' \subseteq Workers /\ Sending(y, p, m) \subseteq Workers
      BY DEF Sending
    <3>6. \A y, p, m : \/ w \in Sending(y, p, m)' /\ Sending(y, p, m)' = Sending(y, p, m) \cup {w}
                       \/ w \notin Sending(y, p, m)' /\ Sending(y, p, m)' = Sending(y, p, m)
      <4> TAKE y, p, m
      <4>1. PICK A, B : A = Sending(y, p, m) /\ B = Sending(y, p, m)'
        OBVIOUS
      <4>2. /\ A \subseteq Workers /\ B \subseteq Workers /\ w \notin A
            /\ \A v \in Workers \ {w} : v \in B <=> v \in A
        BY <3>1, <3>4, <3>5, <4>1
      <4>3. CASE w \in B
        <5>1. B = A \cup {w}
          BY <4>2, <4>3
        <5> QED
          BY <4>1, <4>3, <5>1
      <4>4. CASE w \notin B
        <5>1. B = A
          BY <4>2, <4>4
        <5> QED
          BY <4>1, <4>4, <5>1
      <4> QED
        BY <4>3, <4>4
    <3> QED
      BY <3>1, <3>2, <3>3, <3>6
  <2>15. ASSUME NEW y \in Tokens, NEW p \in Rows, NEW m \in Messages PROVE Accounted(y, p, m)'
    <3>1. /\ sent[<< y, p, m >>] \in Nat /\ lapsed[<< y, p, m >>] \in Nat
          /\ IsFiniteSet(Sending(y, p, m)) /\ Cardinality(Sending(y, p, m)) \in Nat
      BY SendingFinite, Counts DEF PushInv
    <3>2. CASE y = t /\ p = r /\ m = n
      <4>1. PICK S : S = Sending(y, p, m)
        OBVIOUS
      <4>2. Cardinality(S \cup {w}) = Cardinality(S) + 1
        BY <2>14, <3>1, <3>2, <4>1, FS_AddElement
      <4>3. Cardinality(Sending(y, p, m)') = Cardinality(Sending(y, p, m)) + 1
        BY <2>14, <3>2, <4>1, <4>2
      <4>4. ~Claimed(y, p, m)
        BY <2>2, <2>3, <3>2 DEF Claimed, x
      <4>5. sent[<< y, p, m >>] + Cardinality(Sending(y, p, m)) <= lapsed[<< y, p, m >>]
        BY <3>1, <4>4 DEF PushInv, Accounted
      <4>6. Claimed(y, p, m)'
        BY <2>5, <2>7, <3>2 DEF Claimed
      <4> QED
        BY <1>1, <3>1, <4>3, <4>5, <4>6 DEF Accounted
    <3>3. CASE ~(y = t /\ p = r /\ m = n)
      <4>1. Sending(y, p, m)' = Sending(y, p, m)
        BY <2>14, <3>3
      <4>2. Claimed(y, p, m) => Claimed(y, p, m)'
        BY <2>9, ClaimsStay
      <4> QED
        BY <1>1, <2>8, <3>1, <4>1, <4>2, AccountKept
    <3> QED
      BY <3>2, <3>3
  <2>16. GivenOnce'
    <3> SUFFICES ASSUME NEW y \in Tokens, NEW p \in Rows, NEW m \in Messages \ Redated,
                        Given(y, p, m)'
                 PROVE  /\ inbox[m] # "NONE"
                        /\ \A q \in Rows : Given(y, q, m)' => q = p
                        /\ device[y] # Off /\ device[y].row # p => device[y].since > eventAt[m]
                        /\ \A v \in Workers : \A d \in Held(v)' :
                             d.token = y /\ HasRow(d) /\ d.row # p => d.since > eventAt[m]
      BY <1>1 DEF GivenOnce, HasRow
    <3>1. \A v \in Workers : Held(v)' = Held(v)
      BY <2>1 DEF Held, Moves
    <3>2. \A q \in Rows : Given(y, q, m)' => Given(y, q, m) \/ (y = t /\ q = r /\ m = n)
      BY <1>1, <2>14 DEF Given
    <3>3. CASE y = t /\ m = n
      <4>1. ASSUME NEW q \in Rows, Given(t, q, n) PROVE q = r
        <5>1. r # q => Served(w).since > eventAt[n]
          BY <1>2, <2>3, <3>3, <4>1 DEF PushInv, GivenOnce
        <5>2. Served(w).since \in Nat /\ eventAt[n] \in Nat /\ eventAt[n] >= Served(w).since
          BY <1>1, <1>2, <3>3, ItemHeld DEF Target, PushInv, Types
        <5> QED
          BY <5>1, <5>2
      <4>2. p = r /\ \A q \in Rows : Given(y, q, m)' => q = p
        BY <3>2, <3>3, <4>1
      <4>3. \A v \in Workers : \A d \in Held(v) : d.token = y /\ HasRow(d) => d.row = p
        BY <2>3, <3>3, <4>2 DEF HasRow
      <4> QED
        BY <1>2, <2>3, <3>1, <3>3, <4>2, <4>3
    <3>4. CASE ~(y = t /\ m = n)
      <4>1. Given(y, p, m)
        BY <3>2, <3>4
      <4>2. \A q \in Rows : Given(y, q, m)' => Given(y, q, m)
        BY <3>2, <3>4
      <4> QED
        BY <3>1, <4>1, <4>2 DEF PushInv, GivenOnce
    <3> QED
      BY <3>3, <3>4
  <2> QED
    BY <2>8, <2>10, <2>12, <2>15, <2>16 DEF PushInv
<1> QED
  BY <1>0, <1>4, <1>5, <1>6 DEF Claim

LEMMA SendStep ==
  ASSUME PushInv, NEW w \in Workers, Send(w)
  PROVE  PushInv'
<1>1. /\ At(w, "SEND") /\ Received(w) /\ Move(w, "RECORD") /\ worker[w].items # << >>
      /\ UNCHANGED << clock, session, device, delivery, inbox, eventAt, asked, calls >>
  BY DEF Send, At, PushInv, InHand, account, rows, notices
<1>2. DeliveriesStay
  BY <1>1, SameDevices DEF PushInv
<1>3. Types'
  BY <1>1, MoveOn, ReceivedFacts DEF PushInv, Types, Places
<1>4. worker'[w].at = "RECORD"
  BY <1>1, Moved DEF PushInv, Places
<1> QED
  BY <1>1, <1>2, <1>3, <1>4, ReceivedFacts, GoOnStep DEF At

LEMMA RecordStep ==
  ASSUME PushInv, NEW w \in Workers, Record(w)
  PROVE  PushInv'
<1> DEFINE t == Served(w).token
           n == Item(w)
<1>1. /\ worker[w].at = "RECORD" /\ NextItem(w)
      /\ worker[w].batch # << >> /\ worker[w].items # << >>
      /\ UNCHANGED << clock, session, device, inbox, eventAt, asked, calls, sent, lapsed, late >>
      /\ delivery' = IF HasRows(w) THEN [delivery EXCEPT ![t][n].state = "DONE"] ELSE delivery
  BY DEF Record, At, PushInv, InHand, account, notices, history
<1>2. t \in Tokens /\ n \in Messages
  BY <1>1, ItemHeld DEF Target
<1> HIDE DEF t, n
<1>3. DeliveriesStay
  <2>1. CASE delivery' = delivery
    BY <1>1, <2>1, SameDevices DEF PushInv
  <2>2. CASE delivery' = [delivery EXCEPT ![t][n].state = "DONE"]
    <3>1. delivery \in [Tokens -> [Messages -> Entry]] /\ delivery[t][n] \in Entry
      BY <1>2 DEF PushInv, Types
    <3>2. PICK x : x = delivery[t][n]
      OBVIOUS
    <3>3. PICK e : e = [x EXCEPT !.state = "DONE"]
      OBVIOUS
    <3>4. e \in Entry /\ e.state = "DONE"
      BY <3>1, <3>2, <3>3 DEF Entry
    <3>5. delivery' = [delivery EXCEPT ![t][n] = e]
      BY <1>2, <2>2, <3>1, <3>2, <3>3
    <3>6. /\ delivery' \in [Tokens -> [Messages -> Entry]]
          /\ \A y \in Tokens, m \in Messages :
               delivery'[y][m] = IF y = t /\ m = n THEN e ELSE delivery[y][m]
      BY <1>2, <3>1, <3>4, <3>5
    <3>7. device \in [Tokens -> Device \cup {Off}]
      BY DEF PushInv, Types
    <3> QED
      BY <1>1, <3>4, <3>6, <3>7 DEF DeliveriesStay, DevicesStay
  <2> QED
    BY <1>1, <2>1, <2>2
<1>4. Types'
  BY <1>1, <1>3, MoveOn DEF PushInv, Types, DeliveriesStay
<1>5. worker'[w].at # "CLAIM"
  BY <1>1, Moved DEF PushInv
<1> QED
  BY <1>1, <1>3, <1>4, <1>5, LateValues, GoOnStep

LEMMA SkipStep ==
  ASSUME PushInv, NEW w \in Workers, Skip(w)
  PROVE  PushInv'
<1>1. /\ UNCHANGED << clock, session, device, delivery, inbox, eventAt, asked, calls, sent,
                      lapsed, late >>
      /\ worker[w].batch # << >> /\ NextDevice(w)
  BY DEF Skip, At, PushInv, InHand, account, rows, notices, history
<1>2. DeliveriesStay
  BY <1>1, SameDevices DEF PushInv
<1> QED
  BY <1>1, <1>2, LeaveStep

LEMMA FailureStep ==
  ASSUME PushInv, NEW w \in Workers, Failure(w)
  PROVE  PushInv'
<1>1. CASE DatabaseFails(w) \/ Crash(w)
  <2>1. /\ UNCHANGED << clock, session, device, delivery, inbox, eventAt, asked, calls, sent,
                        lapsed, late >>
        /\ \/ worker[w].batch # << >> /\ NextDevice(w)
           \/ worker' = [worker EXCEPT ![w] = Idle]
    BY <1>1 DEF DatabaseFails, Crash, At, PushInv, InHand, account, rows, notices, history
  <2>2. DeliveriesStay
    BY <2>1, SameDevices DEF PushInv
  <2> QED
    BY <2>1, <2>2, LeaveStep
<1>2. CASE TokenUnknown(w)
  <2>1. PICK gone : Drop(gone)
    BY <1>2 DEF TokenUnknown
  <2>2. DeliveriesStay
    BY <2>1, DropTypes DEF PushInv, DeliveriesStay
  <2>3. /\ UNCHANGED << clock, session, inbox, eventAt, asked, calls, sent, lapsed, late >>
        /\ worker[w].batch # << >> /\ NextDevice(w)
    BY <1>2 DEF TokenUnknown, At, PushInv, InHand, account, notices, history
  <2> QED
    BY <2>2, <2>3, LeaveStep
<1>3. CASE SendFails(w)
  <2>1. /\ At(w, "SEND") /\ NextItem(w)
        /\ worker[w].batch # << >> /\ worker[w].items # << >>
        /\ UNCHANGED << clock, session, device, delivery, inbox, eventAt, asked, calls >>
        /\ Received(w) \/ UNCHANGED history
    BY <1>3 DEF SendFails, At, PushInv, InHand, account, rows, notices
  <2>2. DeliveriesStay
    BY <2>1, SameDevices DEF PushInv
  <2>3. worker'[w].at # "CLAIM"
    BY <2>1, Moved DEF PushInv
  <2>4. CASE Received(w)
    <3>1. Types'
      BY <2>1, <2>4, MoveOn, ReceivedFacts DEF PushInv, Types
    <3> QED
      BY <2>1, <2>2, <2>3, <2>4, <3>1, ReceivedFacts, GoOnStep DEF At
  <2>5. CASE UNCHANGED << sent, lapsed, late >>
    <3>1. Types'
      BY <2>1, <2>5, MoveOn DEF PushInv, Types
    <3> QED
      BY <2>1, <2>2, <2>3, <2>5, <3>1, LateValues, GoOnStep DEF At
  <2> QED
    BY <2>1, <2>4, <2>5 DEF history
<1>4. CASE RecordFails(w)
  <2>1. /\ At(w, "RECORD") /\ NextItem(w)
        /\ worker[w].batch # << >> /\ worker[w].items # << >>
        /\ UNCHANGED << clock, session, device, delivery, inbox, eventAt, asked, calls, sent,
                        lapsed, late >>
    BY <1>4 DEF RecordFails, At, PushInv, InHand, account, rows, notices, history
  <2>2. DeliveriesStay
    BY <2>1, SameDevices DEF PushInv
  <2>3. worker'[w].at # "CLAIM"
    BY <2>1, Moved DEF PushInv
  <2>4. Types'
    BY <2>1, MoveOn DEF PushInv, Types
  <2> QED
    BY <2>1, <2>2, <2>3, <2>4, LateValues, GoOnStep DEF At
<1> QED
  BY <1>1, <1>2, <1>3, <1>4 DEF Failure


-----------------------------------------------------------------------------
LEMMA Initially == Init => PushInv
<1> SUFFICES ASSUME Init PROVE PushInv
  OBVIOUS
<1>1. << >> \in Seq(Target) /\ << >> \in Seq(Messages) /\ Range(<< >>) = {}
  BY EmptySeq DEF Range
<1>2. \A w \in Workers : Held(w) = {} /\ worker[w].at = "IDLE"
  BY <1>1 DEF Init, Idle, Held
<1>3. /\ \A t \in Tokens, r \in Rows, n \in Messages : sent[<< t, r, n >>] = 0 /\ lapsed[<< t, r, n >>] = 0
      /\ sent \in [Tokens \X Rows \X Messages -> Nat]
      /\ lapsed \in [Tokens \X Rows \X Messages -> Nat]
  BY DEF Init, Never
<1>4. \A t, r, n : Sending(t, r, n) = {}
  BY <1>2 DEF Sending, At
<1>5. Types
  <2>1. Idle \in Process
    BY <1>1 DEF Idle, Process, Places
  <2>2. Untried \in Entry
    BY DEF Untried, Entry
  <2>3. 0 \in 0 .. MaxCalls
    BY LimitsAssumption
  <2> QED
    BY <1>3, <2>1, <2>2, <2>3 DEF Init, Types
<1>6. IdsFresh
  BY <1>2, <1>3 DEF Init, IdsFresh, Bound
<1>7. SessionsBegun /\ EventsPast
  BY <1>2 DEF Init, SessionsBegun, EventsPast
<1>8. GivenOnce
  BY <1>3, <1>4 DEF GivenOnce, Given
<1>9. \A w \in Workers : InHand(w) /\ LateIsLast(w)
  BY <1>2 DEF Init, InHand, LateIsLast
<1>10. ASSUME NEW t \in Tokens, NEW r \in Rows, NEW n \in Messages PROVE Accounted(t, r, n)
  <2>1. Cardinality(Sending(t, r, n)) = 0
    BY <1>4, FS_EmptySet
  <2> QED
    BY <1>3, <2>1 DEF Accounted
<1> QED
  BY <1>5, <1>6, <1>7, <1>8, <1>9, <1>10 DEF PushInv

LEMMA Invariance == PushInv /\ [Next]_vars => PushInv'
<1> SUFFICES ASSUME PushInv, [Next]_vars PROVE PushInv'
  OBVIOUS
<1>1. CASE \/ \E s \in Sessions, t \in Tokens : Register(s, t)
           \/ \E q \in asked : Enable(q)
           \/ \E s \in Sessions : SignIn(s) \/ SignOut(s)
           \/ \E s, new \in Sessions : Refresh(s, new)
           \/ \E u \in Users : DeleteAccount(u)
           \/ \E n \in Messages : Ensure(n) \/ MarkAsRead(n)
           \/ \E t \in Tokens, n \in Messages : LeaseRunsOut(t, n)
  BY <1>1, RegisterStep, EnableStep, SessionSteps, RefreshStep, DeleteAccountStep, InboxSteps,
     LeaseStep
<1>2. CASE \/ \E t \in Tokens : Disable(t)
           \/ \E s \in Sessions : DisableSession(s)
  BY <1>2, DisableSteps
<1>3. CASE (\E q \in asked : EnableFails(q)) \/ UNCHANGED vars
  BY <1>3, StillSteps
<1>4. CASE \E w \in Workers : Tick(w) \/ Pass(w) \/ Failure(w)
  <2>1. PICK w \in Workers : Tick(w) \/ Pass(w) \/ Failure(w)
    BY <1>4
  <2> QED
    BY <2>1, TickStep, PickStep, VisitStep, SkipStep, ReadStep, RecheckStep, ClaimStep, SendStep,
       RecordStep, FailureStep DEF Pass
<1> QED
  BY <1>1, <1>2, <1>3, <1>4 DEF Next

(* What the proofs of the properties rest on: every claim is accounted     *)
(* for, what keeps its eventAt is older than any later registration of the *)
(* phone, and after a late message nothing is sent (register, tick).       *)
THEOREM PushInvHolds == Spec => []PushInv
BY Initially, Invariance, PTL DEF Spec

(* Whatever fails, and however many processes serve a phone that stays     *)
(* registered: it is sent a notification again only after a lease on it    *)
(* ran out, whatever eventAt the syncs give it (tick, register, ensure).   *)
THEOREM SentOnce == Spec => []SentOncePerLease
<1>1. PushInv => SentOncePerLease
  <2> SUFFICES ASSUME PushInv, NEW t \in Tokens, NEW r \in Rows, NEW n \in Messages
               PROVE  sent[<< t, r, n >>] <= 1 + lapsed[<< t, r, n >>]
    BY Zenon DEF SentOncePerLease
  <2>1. /\ sent[<< t, r, n >>] \in Nat /\ lapsed[<< t, r, n >>] \in Nat
        /\ Cardinality(Sending(t, r, n)) \in Nat
    BY SendingFinite, Counts DEF PushInv
  <2> QED
    BY <2>1 DEF PushInv, Accounted
<1> QED
  BY <1>1, PushInvHolds, PTL

(* A notification whose eventAt no sync changes is sent to a phone under   *)
(* one of its registrations only, although disabling deletes what would    *)
(* tell that it was sent (enabledAt in register and in tick).              *)
THEOREM OneRegistration == Spec => []SentToOneRegistration
<1>1. PushInv => SentToOneRegistration
  BY DEF PushInv, GivenOnce, Given, SentToOneRegistration
<1> QED
  BY <1>1, PushInvHolds, PTL

(* Of a phone's notifications at most one goes out after its session or    *)
(* its registration ended (the recheck before each delivery in tick).      *)
THEOREM OneLate == Spec => []AtMostOneLate
<1>1. PushInv => AtMostOneLate
  BY DEF PushInv, LateIsLast, AtMostOneLate
<1> QED
  BY <1>1, PushInvHolds, PTL
=============================================================================
