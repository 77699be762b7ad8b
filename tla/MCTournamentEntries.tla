------------------------- MODULE MCTournamentEntries -------------------------
(* Lists an admin enters and teams that register: pAgain are the people of *)
(* p under another name, c on the list has the name of q.                  *)
EXTENDS TournamentEntries

CONSTANTS a, b, c, p, pAgain, q

SixRows == {a, b, c, p, pAgain, q}
TeamName == [e \in SixRows |-> IF e = c THEN q ELSE e]
TeamPlayers == [e \in SixRows |-> IF e = q THEN {q} ELSE IF e \in {p, pAgain} THEN {p} ELSE {}]
Registering == {p, pAgain, q}
TwoLists == {{a, b}, {c}}
Alternatives == {"OPEN", "APPROVAL"}
=============================================================================
