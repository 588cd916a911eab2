---------------------------- MODULE MCRunRequests ----------------------------
(* RunRequests with the cancel calls taken to be interchangeable, for runs   *)
(* that check invariants only.                                               *)
EXTENDS RunRequests, TLC

StopSymmetry == Permutations(Stops)
=============================================================================
