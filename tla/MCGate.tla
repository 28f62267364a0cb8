------------------------------- MODULE MCGate -------------------------------
(***************************************************************************)
(* Small instances of Gate for TLC.                                        *)
(***************************************************************************)
EXTENDS Gate, TLC

CONSTANTS t1, d1, c1, c2, r1, k1, k2

\* c1, c2: check-ins of t1, queued or confirmed online as by another scanner; r1: a
\* pickup at the scanner; k1, k2: pickups at the desk.
MCKind == [op \in Ops |->
    IF op \in {c1, c2} THEN "CHECKIN" ELSE IF op = r1 THEN "PICKUP" ELSE "DESK"]
MCTicketOf == [op \in Ops |-> t1]
MCDeviceOf == [op \in Ops |-> d1]

\* Two ops of a kind are alike; safety runs only.
ScansAlike == Permutations({c1, c2}) \cup Permutations({k1, k2})
=============================================================================
