---------------------------- MODULE MCBallotDraw ----------------------------
(***************************************************************************)
(* Small instances of BallotDraw for TLC.                                  *)
(***************************************************************************)
EXTENDS BallotDraw, TLC

\* Calls of one operation are alike.
CallsAlike == Permutations(Runs) \cup Permutations(Announces)
=============================================================================
