----------------------------- MODULE SeatLedger -----------------------------
(***************************************************************************)
(* What the inventory of one event category promises, with no mention of   *)
(* locks, transactions or payments: a seat is free, held by one order, or  *)
(* sold to one order, and a seat is taken only while fewer than the        *)
(* capacity are.                                                           *)
(* OrderFlow is shown to implement this ledger.                            *)
(***************************************************************************)
EXTENDS Integers, FiniteSets

CONSTANTS
    Orders,     \* the orders that may ever be made for the category
    Capacities  \* the capacities the category may be given

VARIABLES
    size,       \* the capacity now
    held,       \* orders with an ACTIVE reservation
    sold        \* orders that are PAID

vars == <<size, held, sold>>

Taken == Cardinality(held) + Cardinality(sold)

Init == size \in Capacities /\ held = {} /\ sold = {}

\* A checkout takes a free seat for an order that never had one.
Hold(o) ==
    /\ o \notin held \cup sold
    /\ Taken < size
    /\ held' = held \cup {o}
    /\ UNCHANGED <<size, sold>>

\* A payment turns a held seat into a sold one.
Sell(o) ==
    /\ o \in held
    /\ held' = held \ {o}
    /\ sold' = sold \cup {o}
    /\ UNCHANGED size

\* A cancellation, or a run of the expiry worker, gives held seats back.
Release(S) ==
    /\ S # {} /\ S \subseteq held
    /\ held' = held \ S
    /\ UNCHANGED <<size, sold>>

\* A refund gives a sold seat back.
Refund(o) ==
    /\ o \in sold
    /\ sold' = sold \ {o}
    /\ UNCHANGED <<size, held>>

\* The organizer changes the capacity, even to less than is taken.
Resize(c) ==
    /\ size' = c
    /\ UNCHANGED <<held, sold>>

Next ==
    \/ \E o \in Orders : Hold(o) \/ Sell(o) \/ Refund(o)
    \/ \E S \in SUBSET Orders : Release(S)
    \/ \E c \in Capacities : Resize(c)

Spec == Init /\ [][Next]_vars
=============================================================================
