---------------------------- MODULE MCOrderFlow -----------------------------
(***************************************************************************)
(* Small instances of OrderFlow for TLC.                                   *)
(***************************************************************************)
EXTENDS OrderFlow, TLC

CONSTANTS u1, u2

\* Every grant belongs to u1; u2 may still present it, and is refused.
MCGrantOwner == [g \in Grants |-> u1]

\* Attempts, and payments, are interchangeable (used by safety runs only).
MCSymmetry == Permutations(Orders) \cup Permutations(Payments)
=============================================================================
