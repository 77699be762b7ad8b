----------------------------- MODULE MCLeagueWar -----------------------------
(* A war of one player a side in two legs, with a reserve in the home      *)
(* league and an administrator in each league.                             *)
EXTENDS LeagueWar, TLC

CONSTANTS p, q, r, h, a

OneReserve == [HOME |-> {p, q}, AWAY |-> {r}]
OneEach == (h :> {"HOME"} @@ a :> {"AWAY"})
Standard == [win |-> 3, draw |-> 1, loss |-> 0]
Reserves == Permutations({p, q})
OneNil == {<<1, 0>>}
=============================================================================
