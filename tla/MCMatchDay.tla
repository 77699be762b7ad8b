----------------------------- MODULE MCMatchDay -----------------------------
(* Two fixtures of one matchday, and one of the next that needs an entry   *)
(* of either.                                                              *)
EXTENDS MatchDay

ThreeHome == <<"a", "d", "a">>
ThreeAway == <<"b", "c", "c">>
Host == {<<1, "HOME">>}
ThreePlanned == <<1, 1, 2>>
=============================================================================
