----------------------------- MODULE OcrPipeline -----------------------------
(***************************************************************************)
(* Reading results off screenshots: upload, queue, worker, retention and   *)
(* submission (ocr.service and ocr.processor), for the screenshots of one  *)
(* match.                                                                  *)
(*                                                                         *)
(* The API process runs upload handlers, one worker (concurrency 1) and    *)
(* the retention timer; they interleave at every await and all stop in a   *)
(* crash.  The rows (PostgreSQL), the pictures (files) and the jobs        *)
(* (BullMQ in Redis) survive one.  The queue delivers a job again when its *)
(* worker stops renewing the lock, which is no attempt of the job.         *)
(***************************************************************************)
EXTENDS Integers

CONSTANTS
  Extractions,     \* the uploads of one match, one extraction row each
  NoExtraction,    \* nothing
  Submitters,      \* bound: the uploads people submit a result from
  MaxOcrFaults     \* bound: crashes, lost locks and files that cannot be removed

ASSUME ExtractionsAssumption == NoExtraction \notin Extractions
ASSUME SubmittersAssumption == Submitters \subseteq Extractions
ASSUME MaxOcrFaultsAssumption == MaxOcrFaults \in Nat

VARIABLES
  upload,      \* how far each upload handler is
  row,         \* OcrExtraction.status; NONE before and DELETED after the row
  image,       \* whether the picture is on disk
  stale,       \* whether the row is older than the retention time
  job,         \* the job of each extraction
  run,         \* what the worker is doing
  sweep,       \* what the retention timer is doing
  submission,  \* the status of the submission made from each extraction
  ocrFaults    \* faults so far

ocrVars == << upload, row, image, stale, job, run, sweep, submission, ocrFaults >>

Attempts == 2            \* the attempts option of the job
MaxStalledCount == 1     \* how often the queue redelivers a job

Uploading == {"WRITTEN", "CREATED", "REFUSED"}
Settled == {"COMPLETED", "FAILED", "DELETED"}
IdleRun == [job |-> NoExtraction, step |-> "IDLE", final |-> FALSE]
NoSweep == [todo |-> {}, removing |-> NoExtraction]

OcrInit ==
  /\ upload = [e \in Extractions |-> "NEW"]
  /\ row = [e \in Extractions |-> "NONE"]
  /\ image = [e \in Extractions |-> FALSE]
  /\ stale = [e \in Extractions |-> FALSE]
  /\ job = [e \in Extractions |-> [state |-> "NONE", attempts |-> 0, stalls |-> 0]]
  /\ run = IdleRun
  /\ sweep = NoSweep
  /\ submission = [e \in Extractions |-> "NONE"]
  /\ ocrFaults = 0

-----------------------------------------------------------------------------
(* uploadScreenshot: picture, row, job.  A confirmed match takes no more.  *)
WriteImage(e) ==
  /\ upload[e] = "NEW"
  /\ \A x \in Extractions : submission[x] # "CONFIRMED"
  /\ upload' = [upload EXCEPT ![e] = "WRITTEN"]
  /\ image' = [image EXCEPT ![e] = TRUE]
  /\ UNCHANGED << row, stale, job, run, sweep, submission, ocrFaults >>

CreateRow(e) ==
  /\ upload[e] = "WRITTEN"
  /\ upload' = [upload EXCEPT ![e] = "CREATED"]
  /\ row' = [row EXCEPT ![e] = "QUEUED"]
  /\ UNCHANGED << image, stale, job, run, sweep, submission, ocrFaults >>

Enqueue(e) ==
  /\ upload[e] = "CREATED"
  /\ upload' = [upload EXCEPT ![e] = "ENQUEUED"]
  /\ job' = [job EXCEPT ![e].state = "WAITING"]
  /\ UNCHANGED << row, image, stale, run, sweep, submission, ocrFaults >>

(* The queue cannot be reached, or it is its answer that gets lost. *)
EnqueueFails(e) ==
  /\ upload[e] = "CREATED"
  /\ upload' = [upload EXCEPT ![e] = "REFUSED"]
  /\ \/ job' = job
     \/ job' = [job EXCEPT ![e].state = "WAITING"]
  /\ UNCHANGED << row, image, stale, run, sweep, submission, ocrFaults >>

(* An update of a row that is gone fails and changes nothing. *)
Updated(e, status) ==
  IF row[e] = "DELETED" THEN row ELSE [row EXCEPT ![e] = status]

MarkFailed(e) ==
  /\ upload[e] = "REFUSED"
  /\ upload' = [upload EXCEPT ![e] = "FAILED"]
  /\ row' = Updated(e, "FAILED")
  /\ UNCHANGED << image, stale, job, run, sweep, submission, ocrFaults >>

-----------------------------------------------------------------------------
(* Altered: processExtraction called without its second argument. *)
FinalByDefault(e) == TRUE

(* Altered: the attempt being made is not counted. *)
FinalTooLate(e) == job[e].attempts >= Attempts

IsFinal(e) == job[e].attempts + 1 >= Attempts

(* The worker takes a job. *)
Take(e) ==
  /\ run = IdleRun
  /\ job[e].state = "WAITING"
  /\ job' = [job EXCEPT ![e].state = "ACTIVE"]
  /\ run' = [job |-> e, step |-> "BEGIN", final |-> IsFinal(e)]
  /\ UNCHANGED << upload, row, image, stale, sweep, submission, ocrFaults >>

Advance(step) == run' = [run EXCEPT !.step = step]

(* processExtraction, up to the first update: outside its try block. *)
Begin(e) ==
  /\ run.job = e
  /\ run.step = "BEGIN"
  /\ row' = Updated(e, "PROCESSING")
  /\ Advance(IF row[e] = "DELETED" THEN "THROWN" ELSE "EXTRACT")
  /\ UNCHANGED << upload, image, stale, job, sweep, submission, ocrFaults >>

(* Reading and recognising the picture, which fails when it is missing and *)
(* may fail anyway.                                                        *)
Extract(e) ==
  /\ run.job = e
  /\ run.step = "EXTRACT"
  /\ \/ image[e] /\ Advance("STORE")
     \/ Advance("RECOVER")
  /\ UNCHANGED << upload, row, image, stale, job, sweep, submission, ocrFaults >>

(* A row that is gone makes both the update and the one in the catch fail. *)
Store(e) ==
  /\ run.job = e
  /\ run.step = "STORE"
  /\ row' = Updated(e, "COMPLETED")
  /\ Advance(IF row[e] = "DELETED" THEN "THROWN" ELSE "RETURNED")
  /\ UNCHANGED << upload, image, stale, job, sweep, submission, ocrFaults >>

RecoveredAs(final) == IF final THEN "FAILED" ELSE "QUEUED"

Recover(e) ==
  /\ run.job = e
  /\ run.step = "RECOVER"
  /\ row' = Updated(e, RecoveredAs(run.final))
  /\ Advance("THROWN")
  /\ UNCHANGED << upload, image, stale, job, sweep, submission, ocrFaults >>

(* The queue after a failed attempt: once more, or never again. *)
AfterThrow(j) ==
  [state |-> IF j.attempts + 1 < Attempts THEN "WAITING" ELSE "FAILED",
   attempts |-> j.attempts + 1,
   stalls |-> j.stalls]

(* The worker reports the outcome; the queue ignores one whose lock is lost. *)
FinishJob(e) ==
  /\ run.job = e
  /\ run.step \in {"RETURNED", "THROWN"}
  /\ run' = IdleRun
  /\ job' = IF job[e].state # "ACTIVE" THEN job
            ELSE [job EXCEPT ![e] = IF run.step = "THROWN" THEN AfterThrow(@)
                                    ELSE [@ EXCEPT !.state = "DONE"]]
  /\ UNCHANGED << upload, row, image, stale, sweep, submission, ocrFaults >>

(* The queue gives a job whose lock ran out to the next worker, but only   *)
(* MaxStalledCount times.                                                  *)
Stalled(e) ==
  /\ job[e].state = "ACTIVE"
  /\ job' = [job EXCEPT ![e].stalls = @ + 1,
                        ![e].state = IF job[e].stalls < MaxStalledCount
                                     THEN "WAITING" ELSE "FAILED"]

(* The worker that had the job is gone. *)
Redeliver(e) ==
  /\ run.job # e
  /\ Stalled(e)
  /\ UNCHANGED << upload, row, image, stale, run, sweep, submission, ocrFaults >>

(* A busy worker did not renew the lock in time and works on regardless. *)
LoseLock(e) ==
  /\ ocrFaults < MaxOcrFaults
  /\ ocrFaults' = ocrFaults + 1
  /\ run.job = e
  /\ Stalled(e)
  /\ UNCHANGED << upload, row, image, stale, run, sweep, submission >>

OcrCrash ==
  /\ ocrFaults < MaxOcrFaults
  /\ ocrFaults' = ocrFaults + 1
  /\ upload' = [e \in Extractions |-> IF upload[e] \in Uploading THEN "LOST" ELSE upload[e]]
  /\ run' = IdleRun
  /\ sweep' = NoSweep
  /\ UNCHANGED << row, image, stale, job, submission >>

-----------------------------------------------------------------------------
(* A row outlives the retention time: a day at least, when an upload or a  *)
(* run takes seconds.                                                      *)
Age(e) ==
  /\ row[e] \notin {"NONE", "DELETED"}
  /\ ~stale[e]
  /\ upload[e] \notin Uploading
  /\ run.job # e
  /\ stale' = [stale EXCEPT ![e] = TRUE]
  /\ UNCHANGED << upload, row, image, job, run, sweep, submission, ocrFaults >>

(* Altered: failed extractions are kept. *)
ExpiredCompleted(e) == stale[e] /\ row[e] = "COMPLETED" /\ submission[e] = "NONE"

Expired(e) == stale[e] /\ row[e] \in {"COMPLETED", "FAILED"} /\ submission[e] = "NONE"

(* cleanupExpiredArtifacts: find the expired rows, then file and row of    *)
(* each in turn.  The delete asks again for a submission, not for the      *)
(* status.                                                                 *)
FindExpired ==
  /\ sweep = NoSweep
  /\ \E e \in Extractions : Expired(e)
  /\ sweep' = [NoSweep EXCEPT !.todo = {e \in Extractions : Expired(e)}]
  /\ UNCHANGED << upload, row, image, stale, job, run, submission, ocrFaults >>

Unlink(e) ==
  /\ e \in sweep.todo
  /\ sweep.removing = NoExtraction
  /\ image' = [image EXCEPT ![e] = FALSE]
  /\ sweep' = [todo |-> sweep.todo \ {e}, removing |-> e]
  /\ UNCHANGED << upload, row, stale, job, run, submission, ocrFaults >>

(* Altered: the row goes although its picture stays. *)
RemovedAnyway(e) == [todo |-> sweep.todo \ {e}, removing |-> e]

Skipped(e) == [sweep EXCEPT !.todo = @ \ {e}]

UnlinkFails(e) ==
  /\ ocrFaults < MaxOcrFaults
  /\ ocrFaults' = ocrFaults + 1
  /\ e \in sweep.todo
  /\ sweep.removing = NoExtraction
  /\ image[e]
  /\ sweep' = Skipped(e)
  /\ UNCHANGED << upload, row, image, stale, job, run, submission >>

(* Altered: the row is deleted as it was found. *)
DeletableAsFound(e) == TRUE

Deletable(e) == submission[e] = "NONE"

DeleteRow(e) ==
  /\ sweep.removing = e
  /\ row' = IF Deletable(e) THEN [row EXCEPT ![e] = "DELETED"] ELSE row
  /\ sweep' = [sweep EXCEPT !.removing = NoExtraction]
  /\ UNCHANGED << upload, image, stale, job, run, submission, ocrFaults >>

-----------------------------------------------------------------------------
(* submitOcrResult, in the transaction of submitResult. *)
Submit(e) ==
  /\ e \in Submitters
  /\ row[e] = "COMPLETED"
  /\ submission[e] = "NONE"
  /\ \A x \in Extractions : submission[x] \in {"NONE", "REJECTED"}
  /\ submission' = [submission EXCEPT ![e] = "PENDING"]
  /\ UNCHANGED << upload, row, image, stale, job, run, sweep, ocrFaults >>

(* The verdict on a submission, and the withdrawal of a confirmed one. *)
Decide(e, verdict) ==
  /\ \/ submission[e] = "PENDING"
     \/ submission[e] = "CONFIRMED" /\ verdict = "REJECTED"
  /\ submission' = [submission EXCEPT ![e] = verdict]
  /\ UNCHANGED << upload, row, image, stale, job, run, sweep, ocrFaults >>

-----------------------------------------------------------------------------
Working(e) == Begin(e) \/ Extract(e) \/ Store(e) \/ Recover(e) \/ FinishJob(e)
Sweeping(e) == Unlink(e) \/ DeleteRow(e)

OcrNext ==
  \/ \E e \in Extractions :
       \/ WriteImage(e) \/ CreateRow(e) \/ Enqueue(e) \/ EnqueueFails(e) \/ MarkFailed(e)
       \/ Take(e) \/ Working(e) \/ Redeliver(e) \/ LoseLock(e)
       \/ Age(e) \/ Sweeping(e) \/ UnlinkFails(e)
       \/ Submit(e) \/ \E verdict \in {"CONFIRMED", "REJECTED"} : Decide(e, verdict)
  \/ FindExpired
  \/ OcrCrash

OcrSpec == OcrInit /\ [][OcrNext]_ocrVars

(* The worker and the queue keep working and the timer keeps coming round. *)
Fairness ==
  /\ WF_ocrVars(FindExpired)
  /\ \A e \in Extractions : /\ WF_ocrVars(Take(e))
                            /\ WF_ocrVars(Working(e))
                            /\ WF_ocrVars(Redeliver(e))
                            /\ WF_ocrVars(Sweeping(e))

OcrFairSpec == OcrSpec /\ Fairness

-----------------------------------------------------------------------------
(* Every variable has its type. *)
OcrTypeOK ==
  /\ upload \in [Extractions -> Uploading \cup {"NEW", "ENQUEUED", "FAILED", "LOST"}]
  /\ row \in [Extractions -> Settled \cup {"NONE", "QUEUED", "PROCESSING"}]
  /\ image \in [Extractions -> BOOLEAN]
  /\ stale \in [Extractions -> BOOLEAN]
  /\ job \in [Extractions -> [state : {"NONE", "WAITING", "ACTIVE", "DONE", "FAILED"},
                              attempts : 0 .. Attempts, stalls : 0 .. MaxStalledCount + 1]]
  /\ run \in [job : Extractions \cup {NoExtraction},
              step : {"IDLE", "BEGIN", "EXTRACT", "STORE", "RECOVER", "RETURNED", "THROWN"},
              final : BOOLEAN]
  /\ sweep \in [todo : SUBSET Extractions, removing : Extractions \cup {NoExtraction}]
  /\ submission \in [Extractions -> {"NONE", "PENDING", "CONFIRMED", "REJECTED"}]
  /\ ocrFaults \in 0 .. MaxOcrFaults

(* A screenshot is shown as failed only when its last attempt failed or it *)
(* never entered the queue, through any crash and redelivery.              *)
FailureIsFinal ==
  \A e \in Extractions : row[e] = "FAILED" =>
    upload[e] = "FAILED" \/ job[e].attempts + 1 >= Attempts

(* When the queue is done with a job, by a result or by its last attempt,  *)
(* the row says how it ended and does not keep people waiting.             *)
EndedJobIsSettled ==
  \A e \in Extractions :
    /\ job[e].state \in {"DONE", "FAILED"}
    /\ job[e].stalls <= MaxStalledCount
    /\ run.job # e
    => row[e] \in Settled

(* The row of a screenshot somebody submitted a result from is never       *)
(* deleted, not even when the submission comes in the middle of a cleanup. *)
EvidenceRowKept ==
  \A e \in Extractions : submission[e] # "NONE" => row[e] # "DELETED"

(* The cleanup leaves no picture behind whose row is gone. *)
DeletedLeavesNoFile ==
  \A e \in Extractions : row[e] = "DELETED" => ~image[e]

(* Every upload that was answered is settled in the end and stays so: read *)
(* or given up, however the worker, the queue and the crashes interleave,  *)
(* unless the queue itself gives a job up whose lock was lost too often.   *)
EveryUploadSettles ==
  \A e \in Extractions :
    upload[e] \in {"ENQUEUED", "FAILED"}
      ~> [](row[e] \in Settled \/ job[e].stalls > MaxStalledCount)

(* A stale screenshot nobody submits a result from goes in the end, with   *)
(* the same exception.                                                     *)
StaleArtifactsGo ==
  \A e \in Extractions :
    stale[e] /\ row[e] \in {"COMPLETED", "FAILED"}
      ~> row[e] = "DELETED" \/ submission[e] # "NONE" \/ job[e].stalls > MaxStalledCount
=============================================================================
