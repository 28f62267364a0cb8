----------------------------- MODULE AccessPool -----------------------------
(***************************************************************************)
(* ONE access pool and the grants issued from it.  A participant gets a    *)
(* grant by redeeming an access code or, in the priority window, by asking *)
(* for admission; a grant in state ACTIVE admits one checkout.             *)
(*                                                                         *)
(* Both paths are several statements and no transaction: a place in the    *)
(* pool is taken first, the grant is written next, and a code's use is     *)
(* counted last, so any two calls interleave and a call that fails or dies *)
(* leaves behind what it has done.                                         *)
(***************************************************************************)
EXTENDS PoolSlots, FiniteSets

CONSTANTS
    Participants,
    Redeems,        \* calls of Redeem, all with one code of this pool
    Checks,         \* calls of CheckPriorityAdmission without a token
    Caller,         \* the participant of each call
    MaxUses,        \* the code's max_uses
    Totals          \* values of total_slots the organizer may reach (bound)

Calls == Redeems \cup Checks

ASSUME CallsAssumption ==
    /\ IsFiniteSet(Calls)
    /\ Redeems \cap Checks = {}
    /\ Caller \in [Calls -> Participants]
ASSUME SlotsAssumption == Totals \subseteq Nat \ {0} /\ MaxUses \in Nat \ {0}

VARIABLES
    pool,           \* total_slots, reserved_slots and used_slots
    useCount,       \* the code's use_count
    valid,          \* valid_until has not passed and the code is not revoked
    grant,          \* the grant a call has written: its status, "NONE" before
    step            \* how far each call is

codeVars == <<useCount, valid>>
accessVars == <<pool, useCount, valid, grant, step>>

Steps == {"idle", "checked", "reserved", "granted", "answered", "failed"}

\* The type of every variable.
AccessTypeOK ==
    /\ pool \in [total : Totals, reserved : Nat, used : Nat]
    /\ useCount \in 0..MaxUses
    /\ valid \in BOOLEAN
    /\ grant \in [Calls -> {"NONE", "ACTIVE", "CONSUMED"}]
    /\ step \in [Calls -> Steps]

AccessInit ==
    /\ \E n \in Totals : pool = NewPool(n)
    /\ useCount = 0
    /\ valid = TRUE
    /\ grant = [c \in Calls |-> "NONE"]
    /\ step = [c \in Calls |-> "idle"]

-----------------------------------------------------------------------------
(***************************************************************************)
(* CodeService.Redeem.                                                     *)
(***************************************************************************)

Goto(c, s) == step' = [step EXCEPT ![c] = s]

\* The code is read: its time, its uses, the rule on who may use it.
RedeemCheck(r) ==
    /\ step[r] = "idle"
    /\ \/ valid /\ useCount < MaxUses /\ Goto(r, "checked")
       \/ Goto(r, "failed")
    /\ UNCHANGED <<pool, codeVars, grant>>

\* A place is taken, or the pool is full.
TakePlace(c) ==
    /\ step[c] = "checked"
    /\ IF HasSlot(pool)
       THEN pool' = ReserveSlot(pool) /\ Goto(c, "reserved")
       ELSE Goto(c, "failed") /\ UNCHANGED pool
    /\ UNCHANGED <<codeVars, grant>>

\* CreateAccessGrant.  A check is done with it.
WriteGrant(c) ==
    /\ step[c] = "reserved"
    /\ grant' = [grant EXCEPT ![c] = "ACTIVE"]
    /\ Goto(c, IF c \in Checks THEN "answered" ELSE "granted")
    /\ UNCHANGED <<pool, codeVars>>

MutIncrementUse(r) ==
    /\ useCount' = IF useCount < MaxUses THEN useCount + 1 ELSE useCount
    /\ Goto(r, "answered")
\* IncrementCodeUseCount, guarded by max_uses: the call is refused when another was
\* faster, and its grant stays.
IncrementUse(r) ==
    IF useCount < MaxUses
    THEN useCount' = useCount + 1 /\ Goto(r, "answered")
    ELSE Goto(r, "failed") /\ UNCHANGED useCount

CountUse(r) ==
    /\ step[r] = "granted"
    /\ IncrementUse(r)
    /\ UNCHANGED <<pool, valid, grant>>

\* RevokeAccessCode, or valid_until passes.
RevokeCode ==
    /\ valid
    /\ valid' = FALSE
    /\ UNCHANGED <<pool, useCount, grant, step>>

-----------------------------------------------------------------------------
(***************************************************************************)
(* PriorityChecker and the rest.                                           *)
(***************************************************************************)

ActiveGrants(p) == {c \in Calls : Caller[c] = p /\ grant[c] = "ACTIVE"}

\* The window, the rule, and whether the participant already has a grant.
PriorityCheck(c) ==
    /\ step[c] = "idle"
    /\ \/ ActiveGrants(Caller[c]) = {} /\ Goto(c, "checked")
       \/ ActiveGrants(Caller[c]) # {} /\ Goto(c, "answered")
       \/ Goto(c, "failed")
    /\ UNCHANGED <<pool, codeVars, grant>>

\* A statement fails or the request dies.
CallDies(c) ==
    /\ step[c] \in {"checked", "reserved", "granted"}
    /\ Goto(c, "failed")
    /\ UNCHANGED <<pool, codeVars, grant>>

AdjustTotalSlots(n) ==
    /\ n # pool.total /\ CanTransfer(pool, n)
    /\ pool' = [pool EXCEPT !.total = n]
    /\ UNCHANGED <<codeVars, grant, step>>

\* A checkout commits with the grant's id; the participant finds it in the answer
\* or in the list of his ACTIVE grants.
UseGrant(c) ==
    /\ grant[c] = "ACTIVE"
    /\ grant' = [grant EXCEPT ![c] = "CONSUMED"]
    /\ UNCHANGED <<pool, codeVars, step>>

AccessNext ==
    \/ \E r \in Redeems : RedeemCheck(r) \/ CountUse(r)
    \/ \E c \in Checks : PriorityCheck(c)
    \/ \E c \in Calls : TakePlace(c) \/ WriteGrant(c) \/ CallDies(c) \/ UseGrant(c)
    \/ RevokeCode
    \/ \E n \in Totals : AdjustTotalSlots(n)

AccessSpec == AccessInit /\ [][AccessNext]_accessVars

-----------------------------------------------------------------------------
Granted == {c \in Calls : grant[c] # "NONE"}

\* There is a place for every grant ever issued and never more places taken than
\* the pool has, however the calls, the organizer and the failures interleave.
GrantsHavePlaces ==
    /\ Cardinality(Granted) <= pool.reserved + pool.used
    /\ pool.reserved + pool.used <= pool.total

\* No more redemptions of a code succeed than it has uses.
AnsweredWithinUses == Cardinality({r \in Redeems : step[r] = "answered"}) <= MaxUses

\* A code makes at most as many grants as it has uses.
CodeGrantsWithinUses == Cardinality(Granted \cap Redeems) <= MaxUses
=============================================================================
