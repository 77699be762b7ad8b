-------------------------- MODULE ResultRefinement --------------------------
(***************************************************************************)
(* ResultLifecycle implements ResultRegister: the recorded result of a     *)
(* fixture is the score of the submission its match points at, between the *)
(* entries in its slots.  Submissions, rejections, schedules, ledgers and  *)
(* completion are invisible to the register.                               *)
(***************************************************************************)
EXTENDS ResultLifecycle

CONSTANT NoResult   \* no record

ASSUME NoResultAssumption ==
  NoResult \notin [home : Entries \cup {NoEntry}, away : Entries \cup {NoEntry}, score : Scores]

Recorded ==
  [f \in Fixtures |->
     IF f \notin Confirmed THEN NoResult
     ELSE [home |-> slot[f]["HOME"], away |-> slot[f]["AWAY"],
           score |-> subs[confirmed[f]].score]]

Register == INSTANCE ResultRegister WITH record <- Recorded, Initial <- PlannedEntry

(* Every behaviour of the result services is one of the register: whatever *)
(* is submitted, confirmed, corrected, reversed, rescheduled or cancelled  *)
(* meanwhile, results appear only between the entries the bracket brought  *)
(* together, and one others were built on stays as it is.                  *)
RefinesRegister == Register!Spec
=============================================================================
