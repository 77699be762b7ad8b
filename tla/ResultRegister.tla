--------------------------- MODULE ResultRegister ---------------------------
(***************************************************************************)
(* What the result services promise to the rest of the system: a register  *)
(* with at most one result per fixture.  A result names the two entries    *)
(* that met and the score.  Who meets in a bracket fixture is not state of *)
(* its own: it follows from the results recorded upstream.  A result that  *)
(* decided who plays in a recorded fixture cannot be taken back and its    *)
(* winner cannot change.                                                   *)
(***************************************************************************)
EXTENDS Integers

CONSTANTS Fixtures, Scores, Progression, NoTarget, NoEntry, NoResult,
          Knockout(_),       \* whether a fixture needs a winner
          Initial(_, _)      \* who a generated fixture names on a side

VARIABLE record              \* the recorded result of each fixture, or NoResult

Sides == {"HOME", "AWAY"}
Outcomes == {"WINNER", "LOSER"}

HomeWins(x) == x.score[1] > x.score[2]

(* The winner of a recorded result, or its loser. *)
EntrySent(x, outcome) ==
  IF HomeWins(x) = (outcome = "WINNER") THEN x.home ELSE x.away

(* Who plays on a side, given the results of the other fixtures. *)
Participant(f, side) ==
  IF \E g \in Fixtures, o \in Outcomes : Progression[g][o] = <<f, side>>
  THEN LET feed == CHOOSE x \in Fixtures \X Outcomes : Progression[x[1]][x[2]] = <<f, side>>
       IN  IF record[feed[1]] = NoResult THEN NoEntry ELSE EntrySent(record[feed[1]], feed[2])
  ELSE Initial(f, side)

Meeting(f, score) ==
  [home |-> Participant(f, "HOME"), away |-> Participant(f, "AWAY"), score |-> score]

Decisive(f, score) == Knockout(f) => score[1] # score[2]

Depends(f) == {Progression[f][o][1] : o \in {p \in Outcomes : Progression[f][p] # NoTarget}}

Unused(f) == \A g \in Depends(f) : record[g] = NoResult

Init == record = [f \in Fixtures |-> NoResult]

Record(f, score) ==
  /\ record[f] = NoResult
  /\ NoEntry \notin {Participant(f, side) : side \in Sides}
  /\ Decisive(f, score)
  /\ record' = [record EXCEPT ![f] = Meeting(f, score)]

(* The entries stay, the score changes; with results downstream only as    *)
(* long as the same entry wins.                                            *)
Amend(f, score) ==
  LET amended == [record[f] EXCEPT !.score = score] IN
  /\ record[f] # NoResult
  /\ Decisive(f, score)
  /\ Unused(f) \/ EntrySent(amended, "WINNER") = EntrySent(record[f], "WINNER")
  /\ record' = [record EXCEPT ![f] = amended]

Withdraw(f) ==
  /\ record[f] # NoResult
  /\ Unused(f)
  /\ record' = [record EXCEPT ![f] = NoResult]

Next == \E f \in Fixtures :
          \/ Withdraw(f)
          \/ \E score \in Scores : Record(f, score) \/ Amend(f, score)

Spec == Init /\ [][Next]_record
=============================================================================
