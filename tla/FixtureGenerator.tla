-------------------------- MODULE FixtureGenerator --------------------------
(***************************************************************************)
(* fixture-engine: the round robin of a list of entries, by the circle     *)
(* method.  Slots count from 0; with an odd number of entries the last     *)
(* slot is a bye.  A fixture is a record [round, position, home, away].    *)
(***************************************************************************)
EXTENDS Integers, Sequences

(* Altered: every slot moves, the first too. *)
SlotAllMove(last, r, i) == IF i >= r THEN i - r ELSE i - r + last + 1

(* The participant in place i of the rotation after r turns: the first     *)
(* stays, the last moves behind it, the others one place up.  last is the  *)
(* number of the last place.                                               *)
Slot(last, r, i) == IF i = 0 THEN 0 ELSE IF i > r THEN i - r ELSE i - r + last

LastSlot(n) == IF n % 2 = 0 THEN n - 1 ELSE n

Rounds(n) == LastSlot(n)

(* Match k of round r, as the participants' places in the list.  Home and  *)
(* away alternate over rounds and matches.                                 *)
Meeting(last, r, k) ==
  LET left == Slot(last, r, k)
      right == Slot(last, r, last - k)
  IN  IF (r + k) % 2 = 0 THEN [home |-> left, away |-> right]
      ELSE [home |-> right, away |-> left]

(* generateRoundRobinFixtures *)
RoundRobin(entries) ==
  LET n == Len(entries)
      last == LastSlot(n)
      fixture(r, k) == [round |-> r + 1, position |-> k + 1,
                        home |-> entries[Meeting(last, r, k).home + 1],
                        away |-> entries[Meeting(last, r, k).away + 1]]
  IN  {fixture(x[1], x[2]) : x \in
         {y \in (0 .. Rounds(n) - 1) \X (0 .. last \div 2) :
            Meeting(last, y[1], y[2]).home < n /\ Meeting(last, y[1], y[2]).away < n}}

Meets(f, e, o) == f.home = e /\ f.away = o

(* generateDoubleRoundRobinFixtures: the same again at the other side. *)
Return(f, rounds) ==
  [f EXCEPT !.round = @ + rounds, !.home = f.away, !.away = f.home]

DoubleRoundRobin(entries) ==
  LET first == RoundRobin(entries)
  IN  first \cup {Return(f, Rounds(Len(entries))) : f \in first}
=============================================================================
