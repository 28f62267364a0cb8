------------------------ MODULE Notifications_proofs ------------------------
(***************************************************************************)
(* Theorems about Notifications, for any number of retry jobs, any number  *)
(* of faults and any maximum of attempts.                                  *)
(*                                                                         *)
(* The argument: every count a sender can write is covered by tries, the   *)
(* passes made so far.  A job counts on from the attempts it has listed    *)
(* and adds its own try.  The goroutine reads the attempts only after its  *)
(* try, so until it has written, its try must be set aside (Aside): then   *)
(* what it reads is covered by the tries of the others.                    *)
(***************************************************************************)
EXTENDS Notifications, TLAPS

Sent(s) == at[s] \in {"unfit", "taken", "refused"}

\* The goroutine's try, until it is recorded or lost.
Aside == IF Sent(Goroutine) THEN 1 ELSE 0

\* Unless MaxRetryAttempts tries were made, n attempts are tries of other senders.
Covered(n) == tries = MaxRetryAttempts \/ n + Aside <= tries

CountsInv ==
    /\ Sent(Goroutine) => tries >= 1
    /\ Covered(row.attempts)
    /\ \A w \in Jobs : at[w] = "read" => Covered(seen[w])
    /\ \A w \in Jobs : Sent(w) => Covered(seen[w] + 1)
    /\ seen[Goroutine] # NotRead => Covered(seen[Goroutine])

\* What a sender knows at each step.  Only the goroutine may count past the maximum,
\* and only once.
SenderInv ==
    /\ row.status = "none" => at[Goroutine] = "idle"
    /\ at[Goroutine] \in {"idle", "read"} => seen[Goroutine] = NotRead
    /\ at[Goroutine] # "gone" => row.attempts <= MaxRetryAttempts
    /\ \A w \in Jobs : at[w] # "idle" => seen[w] \in 0..MaxRetryAttempts - 1

AcceptedInv ==
    /\ \A s \in Senders : at[s] = "taken" => accepted
    /\ row.status = "sent" => accepted

IInv == TypeOK /\ CountsInv /\ SenderInv /\ AcceptedInv

-----------------------------------------------------------------------------
LEMMA InitIInv == Init => IInv
<1> SUFFICES ASSUME Init PROVE IInv
  OBVIOUS
<1>1. TypeOK
  <2>1. row \in [status : {"none", "pending", "sent", "failed"},
                 attempts : 0..MaxRetryAttempts + 1, due : BOOLEAN]
    BY BoundsAssumption DEF Init
  <2>2. at \in [Senders -> Steps] /\ seen \in [Senders -> -1..MaxRetryAttempts]
    BY BoundsAssumption DEF Init, Steps, NotRead
  <2>3. tries \in 0..MaxRetryAttempts /\ faults \in 0..MaxFaults
    BY BoundsAssumption DEF Init
  <2>4. accepted \in BOOLEAN
    BY DEF Init
  <2> QED
    BY <2>1, <2>2, <2>3, <2>4 DEF TypeOK
<1>2. CountsInv /\ SenderInv
  BY BoundsAssumption DEF Init, CountsInv, SenderInv, Sent, Aside, Covered, Senders, NotRead
<1>3. AcceptedInv
  BY DEF Init, AcceptedInv
<1> QED
  BY <1>1, <1>2, <1>3 DEF IInv

\* One step lemma for each action that changes at, row, seen or tries.
LEMMA EnqueueStep == ASSUME IInv, Enqueue PROVE IInv'
BY BoundsAssumption DEF Enqueue, IInv, TypeOK, CountsInv, SenderInv, AcceptedInv, Sent, Aside,
    Covered, Senders, Steps, NotRead

LEMMA ListStep == ASSUME IInv, NEW w \in Jobs, List(w) PROVE IInv'
BY BoundsAssumption DEF List, Retryable, IInv, TypeOK, CountsInv, SenderInv, AcceptedInv, Sent,
    Aside, Covered, Senders, Steps, NotRead

LEMMA AttemptStep == ASSUME IInv, NEW s \in Senders, Attempt(s) PROVE IInv'
<1> USE BoundsAssumption DEF IInv, Senders
<1>1. TypeOK'
  <2>1. at' \in [Senders -> Steps]
    BY DEF Attempt, TypeOK, Steps
  <2>2. tries' \in 0..MaxRetryAttempts /\ tries' >= tries
    BY DEF Attempt, TypeOK
  <2>3. accepted' \in BOOLEAN
    BY DEF Attempt, TypeOK
  <2> QED
    BY <2>1, <2>2, <2>3 DEF Attempt, TypeOK
<1>2. CountsInv'
  <2> DEFINE a == IF s = Goroutine THEN 1 ELSE 0
  <2>1. /\ Sent(s)' /\ at[s] = "read"
        /\ \A t \in Senders : t # s => at'[t] = at[t]
    BY DEF Attempt, TypeOK, Sent
  <2>2. Aside' = Aside + a
    BY <2>1 DEF Sent, Aside
  <2>3. tries' = MaxRetryAttempts \/ tries' = tries + 1
    BY DEF Attempt, TypeOK
  <2>4. ASSUME NEW n \in Int, Covered(n)
        PROVE  Covered(n)' /\ (s # Goroutine => Covered(n + 1)')
    BY <2>2, <2>3, <2>4 DEF Covered, TypeOK, Aside, Attempt
  <2>5. Sent(Goroutine)' => tries' >= 1
    BY <2>3 DEF TypeOK
  <2>6. /\ Covered(row.attempts)'
        /\ seen'[Goroutine] # NotRead => Covered(seen[Goroutine])'
    BY <2>4 DEF Attempt, TypeOK, CountsInv
  <2>7. ASSUME NEW w \in Jobs
        PROVE  /\ at'[w] = "read" => Covered(seen[w])'
               /\ Sent(w)' => Covered(seen[w] + 1)'
    <3>1. seen' = seen /\ seen[w] \in Int
      BY DEF Attempt, TypeOK
    <3>2. CASE w = s
      BY <2>1, <2>4, <3>1, <3>2 DEF CountsInv, Sent
    <3>3. CASE w # s
      BY <2>1, <2>4, <3>1, <3>3 DEF CountsInv, Sent
    <3> QED
      BY <3>2, <3>3
  <2> QED
    BY <2>5, <2>6, <2>7 DEF CountsInv
<1>3. SenderInv'
  BY DEF Attempt, TypeOK, SenderInv
<1>4. AcceptedInv'
  BY DEF Attempt, TypeOK, AcceptedInv
<1> QED
  BY <1>1, <1>2, <1>3, <1>4

LEMMA ReadAttemptsStep == ASSUME IInv, ReadAttempts PROVE IInv'
BY BoundsAssumption DEF ReadAttempts, Fault, IInv, TypeOK, CountsInv, SenderInv, AcceptedInv,
    Sent, Aside, Covered, Senders, Steps, NotRead

LEMMA RecordStep == ASSUME IInv, NEW s \in Senders, Record(s) PROVE IInv'
BY BoundsAssumption DEF Record, Outcome, Counted, Terminal, Finished, IInv, TypeOK, CountsInv,
    SenderInv, AcceptedInv, Sent, Aside, Covered, Senders, Steps, NotRead

\* A sender that stops, or loses its notification or its update, leaves the row alone.
LEMMA LostStep ==
    ASSUME IInv, NEW s \in Senders, LookupFails(s) \/ RecordFails(s) \/ Stop(s)
    PROVE  IInv'
BY BoundsAssumption DEF LookupFails, RecordFails, Stop, Fault, Finished, IInv, TypeOK,
    CountsInv, SenderInv, AcceptedInv, Sent, Aside, Covered, Senders, Steps, NotRead

LEMMA NextStep == IInv /\ [Next]_vars => IInv'
<1> SUFFICES ASSUME IInv, [Next]_vars PROVE IInv'
  OBVIOUS
<1>1. CASE BackoffEnds
  BY <1>1 DEF BackoffEnds, IInv, TypeOK, CountsInv, SenderInv, AcceptedInv, Sent, Aside, Covered
<1>2. CASE UNCHANGED vars
  BY <1>2 DEF vars, IInv, TypeOK, CountsInv, SenderInv, AcceptedInv, Sent, Aside, Covered
<1> QED
  BY <1>1, <1>2, EnqueueStep, ListStep, AttemptStep, ReadAttemptsStep, RecordStep, LostStep
  DEF Next, Work

\* The invariant of the other theorems.
THEOREM InductiveInvariant == Spec => []IInv
BY InitIInv, NextStep, PTL DEF Spec

\* TypeOK: whatever the stale counts, at most one attempt is recorded past the maximum.
THEOREM TypeCorrect == Spec => []TypeOK
BY InductiveInvariant, PTL DEF IInv

\* OutcomeIsEarned: Enqueue's goroutine and any number of retry jobs, racing without a
\* claim on the row, give a notification up only after MaxRetryAttempts tries, and it
\* reads "sent" only if the mail server took it.
THEOREM OutcomesEarned == Spec => []OutcomeIsEarned
<1>1. IInv => OutcomeIsEarned
  BY BoundsAssumption DEF IInv, TypeOK, CountsInv, AcceptedInv, Covered, Aside, GivenUp, OutcomeIsEarned
<1> QED
  BY <1>1, InductiveInvariant, PTL
=============================================================================
