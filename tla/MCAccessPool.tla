---------------------------- MODULE MCAccessPool ----------------------------
(***************************************************************************)
(* Small instances of AccessPool for TLC: a code with fewer uses than      *)
(* calls, and two checks of one participant.                               *)
(***************************************************************************)
EXTENDS AccessPool, TLC

CONSTANTS p1, p2, r1, r2, r3, k1, k2, k3

\* p1 redeems from two windows and asks for priority twice.
MCCaller == [c \in Calls |-> IF c \in {r3, k3} THEN p2 ELSE p1]

CallsAlike == Permutations(Redeems \ {r3}) \cup Permutations(Checks \ {k3})
=============================================================================
