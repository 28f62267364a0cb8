-------------------------- MODULE MCAdmissionQueue --------------------------
(***************************************************************************)
(* Small instances of AdmissionQueue for TLC.                              *)
(***************************************************************************)
EXTENDS AdmissionQueue

CONSTANTS p1

\* Every checkout is p1's; the others only wait.
MCBuyer == [k \in Checkouts |-> p1]

\* The workers are alike; safety runs only.
WorkersAlike == Permutations(Workers)
=============================================================================
