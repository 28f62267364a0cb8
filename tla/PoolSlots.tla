----------------------------- MODULE PoolSlots ------------------------------
(***************************************************************************)
(* The statements on a row of access_pools.  Access codes, the priority    *)
(* window and the ballot issue grants from pools through these.            *)
(***************************************************************************)
EXTENDS Integers

\* A new row.
NewPool(n) == [total |-> n, reserved |-> 0, used |-> 0]

\* ReservePoolSlot: the guard of the UPDATE,
HasSlot(p) == p.reserved + p.used < p.total
MutReserveSlot(p) == p
\* and what it sets.
ReserveSlot(p) == [p EXCEPT !.reserved = @ + 1]

\* ConsumePoolSlot, for a place that is reserved.
ConsumeSlot(p) == [p EXCEPT !.reserved = @ - 1, !.used = @ + 1]

MutCanTransfer(p, n) == TRUE
\* TransferPoolSlots: growing is always allowed, shrinking not below what is taken.
CanTransfer(p, n) == n > p.total \/ n >= p.reserved + p.used
=============================================================================
