--------------------------- MODULE Notifications ----------------------------
(***************************************************************************)
(* ONE email notification: the row that Enqueue inserts, the goroutine     *)
(* that sends it at once, and the retry jobs that send what is still       *)
(* pending or failed.                                                      *)
(*                                                                         *)
(* Nothing claims the row.  FOR UPDATE SKIP LOCKED in the job's query holds *)
(* its locks for that statement only, so the goroutine and any number of   *)
(* jobs may send the same notification, and each writes the whole outcome  *)
(* by id, with a number of attempts it has read before.                    *)
(***************************************************************************)
EXTENDS Integers

CONSTANTS
    Jobs,           \* retry jobs, one in each worker process
    Goroutine,      \* the sender that Enqueue starts
    MaxRetryAttempts,
    MaxFaults       \* bound on failed statements and stopped processes

Senders == Jobs \cup {Goroutine}

ASSUME BoundsAssumption ==
    /\ Goroutine \notin Jobs
    /\ MaxRetryAttempts \in Nat \ {0} /\ MaxFaults \in Nat

VARIABLES
    row,            \* status, attempts, and whether next_retry_at allows a send now
    at,             \* how far each sender is
    seen,           \* the attempts a sender has read, NotRead before
    tries,          \* history: passes over the notification, up to MaxRetryAttempts
    accepted,       \* history: the mail server took it at least once
    faults

vars == <<row, at, seen, tries, accepted, faults>>

NotRead == -1
Steps == {"idle", "read", "unfit", "taken", "refused", "gone"}

\* The type of every variable.
TypeOK ==
    /\ row \in [status : {"none", "pending", "sent", "failed"},
                attempts : 0..MaxRetryAttempts + 1, due : BOOLEAN]
    /\ at \in [Senders -> Steps]
    /\ seen \in [Senders -> -1..MaxRetryAttempts]
    /\ tries \in 0..MaxRetryAttempts /\ accepted \in BOOLEAN /\ faults \in 0..MaxFaults

Init ==
    /\ row = [status |-> "none", attempts |-> 0, due |-> TRUE]
    /\ at = [s \in Senders |-> "idle"]
    /\ seen = [s \in Senders |-> NotRead]
    /\ tries = 0 /\ accepted = FALSE /\ faults = 0

-----------------------------------------------------------------------------
Fault == faults < MaxFaults /\ faults' = faults + 1

\* Enqueue inserts the row and starts the goroutine.
Enqueue ==
    /\ row.status = "none"
    /\ row' = [row EXCEPT !.status = "pending"]
    /\ at' = [at EXCEPT ![Goroutine] = "read"]
    /\ UNCHANGED <<seen, tries, accepted, faults>>

\* ListRetryableNotifications.
Retryable ==
    /\ row.status \in {"pending", "failed"}
    /\ row.attempts < MaxRetryAttempts
    /\ row.due

\* A job's pass reads the row.
List(w) ==
    /\ at[w] = "idle" /\ Retryable
    /\ at' = [at EXCEPT ![w] = "read"]
    /\ seen' = [seen EXCEPT ![w] = row.attempts]
    /\ UNCHANGED <<row, tries, accepted, faults>>

\* The participant has no address or the template does not render; or the mail is
\* sent, and taken or refused, or taken without the sender hearing of it.
Attempt(s) ==
    /\ at[s] = "read"
    /\ tries' = IF tries < MaxRetryAttempts THEN tries + 1 ELSE tries
    /\ \/ at' = [at EXCEPT ![s] = "unfit"] /\ UNCHANGED accepted
       \/ at' = [at EXCEPT ![s] = "taken"] /\ accepted' = TRUE
       \/ at' = [at EXCEPT ![s] = "refused"] /\ accepted' \in {accepted, TRUE}
    /\ UNCHANGED <<row, seen, faults>>

\* The participant cannot be looked up: the notification stays as it is.
LookupFails(s) ==
    /\ at[s] = "read" /\ Fault
    /\ at' = [at EXCEPT ![s] = IF s = Goroutine THEN "gone" ELSE "idle"]
    /\ UNCHANGED <<row, seen, tries, accepted>>

\* The goroutine reads the attempts when it has sent, and takes 0 after an error.
ReadAttempts ==
    /\ at[Goroutine] \in {"taken", "refused"} /\ seen[Goroutine] = NotRead
    /\ \/ seen' = [seen EXCEPT ![Goroutine] = row.attempts] /\ UNCHANGED faults
       \/ seen' = [seen EXCEPT ![Goroutine] = 0] /\ Fault
    /\ UNCHANGED <<row, at, tries, accepted>>

MutCounted(n) == n
MutCountedTwice(n) == n + 2
\* The attempts a sender writes.
Counted(n) == n + 1

\* No more tries after this many.
Terminal(n) == n >= MaxRetryAttempts

\* UpdateNotificationRetry: status, attempts and next_retry_at as the sender found them.
\* An unfit notification and one given up get no next_retry_at, which reads as due.
Outcome(s) ==
    LET n == Counted(IF at[s] = "unfit" /\ s = Goroutine THEN 0 ELSE seen[s])
    IN  [status |-> IF at[s] = "taken" THEN "sent" ELSE "failed",
         attempts |-> n,
         due |-> at[s] # "refused" \/ Terminal(n)]

Finished(s) == IF s = Goroutine THEN "gone" ELSE "idle"

Record(s) ==
    /\ \/ at[s] = "unfit"
       \/ at[s] \in {"taken", "refused"} /\ seen[s] # NotRead
    /\ row' = Outcome(s)
    /\ at' = [at EXCEPT ![s] = Finished(s)]
    /\ UNCHANGED <<seen, tries, accepted, faults>>

\* The update fails; it is logged and forgotten.
RecordFails(s) ==
    /\ at[s] \in {"unfit", "taken", "refused"} /\ Fault
    /\ at' = [at EXCEPT ![s] = Finished(s)]
    /\ UNCHANGED <<row, seen, tries, accepted>>

\* The process stops; a worker's next pass starts anew.
Stop(s) ==
    /\ at[s] \in {"read", "unfit", "taken", "refused"} /\ Fault
    /\ at' = [at EXCEPT ![s] = Finished(s)]
    /\ UNCHANGED <<row, seen, tries, accepted>>

\* next_retry_at passes.
BackoffEnds ==
    /\ ~row.due
    /\ row' = [row EXCEPT !.due = TRUE]
    /\ UNCHANGED <<at, seen, tries, accepted, faults>>

Work(s) ==
    \/ Attempt(s) \/ Record(s)
    \/ s \in Jobs /\ List(s)
    \/ s = Goroutine /\ ReadAttempts

Next ==
    \/ Enqueue
    \/ \E s \in Senders :
        Work(s) \/ LookupFails(s) \/ RecordFails(s) \/ Stop(s)
    \/ BackoffEnds

Spec == Init /\ [][Next]_vars

\* The jobs run on a ticker and a send has a timeout, so a process that is up works on;
\* time passes.
Fairness == (\A s \in Senders : WF_vars(Work(s))) /\ WF_vars(BackoffEnds)

FairSpec == Spec /\ Fairness

-----------------------------------------------------------------------------
GivenUp == row.status = "failed" /\ row.attempts >= MaxRetryAttempts

\* However many senders race with stale counts, a notification is given up only after
\* MaxRetryAttempts passes over it, and reads "sent" only if the server took it.
OutcomeIsEarned ==
    /\ GivenUp => tries >= MaxRetryAttempts
    /\ row.status = "sent" => accepted

\* Every notification is in the end sent or given up, although a sender that fails may
\* put a "sent" one back and stale counts may lower the attempts.
Settles == row.status # "none" ~> [](row.status = "sent" \/ GivenUp)
=============================================================================
