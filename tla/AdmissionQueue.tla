--------------------------- MODULE AdmissionQueue ---------------------------
(***************************************************************************)
(* The waiting room of ONE event: participants join a line, the release    *)
(* job of the workers lets the first ones through for the length of a      *)
(* checkout window, the expiry job sends those whose window passes back to *)
(* the line, and a checkout that commits uses its window up.               *)
(*                                                                         *)
(* Both jobs read a list of rows in one statement and change the rows one  *)
(* by one in transactions of their own, and the hook after a checkout is   *)
(* three statements in none, so all of them may act on what has changed.   *)
(* A worker or a request that dies is one that takes no further step.      *)
(***************************************************************************)
EXTENDS Naturals, SequencesExt

CONSTANTS
    Participants,
    Workers,        \* worker processes; each runs both jobs in goroutines
    Checkouts,      \* Checkout calls
    Buyer,          \* Buyer[k]: the participant of the call
    Rates,          \* the release rates the organizer sets
    DefaultRate,    \* QUEUE_DEFAULT_RELEASE_RATE
    HasPresale,     \* RANDOMIZED_QUEUE or HYBRID_QUEUE
    MaxWindows      \* windows of a participant anyone still names (bound)

ASSUME BuyerAssumption == Buyer \in [Checkouts -> Participants]
ASSUME RatesAssumption == Rates \subseteq Nat /\ DefaultRate \in Rates
ASSUME HasPresaleAssumption == HasPresale \in BOOLEAN
ASSUME MaxWindowsAssumption == MaxWindows \in Nat

VARIABLES
    presale,        \* sale_start_at is set and still to come
    state,          \* queue_control.state, "NONE" before the row exists
    rate,           \* queue_control.release_rate
    draft,          \* the state and rate an upsert under way will write
    status,         \* queue_tokens.status
    band,           \* what pool and score say of the token's place (see Bands)
    line,           \* WAITING tokens, ORDER BY pool DESC, score ASC
    window,         \* the participant's ACTIVE row of queue_admissions, 0 for none
    overdue,        \* participants whose ACTIVE row's checkout_expires_at has passed
    batch,          \* tokens each release job has read and not yet handled
    due,            \* rows each expiry job has read and not yet handled
    pc,             \* where each Checkout call is
    held,           \* the row its hook has read
    ordered         \* participants who have made an order

controlVars == <<presale, state, rate, draft>>
tokenVars == <<status, band, line>>
windowVars == <<window, overdue>>
workerVars == <<batch, due>>
checkoutVars == <<pc, held, ordered>>
vars == <<presale, state, rate, draft, status, band, line, window, overdue,
          batch, due, pc, held, ordered>>

(***************************************************************************)
(* A FIFO score is the wall clock in nanoseconds, and so is the score of   *)
(* every requeued token; a presale score is a hash over five times that.   *)
(* PRESALE sorts before FIFO and a requeued token keeps its pool, so a     *)
(* token is in one of four bands, in this order: presale with a hash below *)
(* the clock, requeued presale, presale with a hash above it, FIFO.        *)
(***************************************************************************)
Early == 1
Requeued == 2
Late == 3
Fifo == 4

NoDraft == <<"NONE", 0>>

\* The windows of p that a job or a hook has read.
Named(p) ==
    {a \in 1..MaxWindows :
        \/ \E w \in Workers : <<p, a>> \in due[w]
        \/ \E k \in Checkouts : Buyer[k] = p /\ held[k] = a}

\* The type of every variable.
TypeOK ==
    /\ presale \in BOOLEAN
    /\ state \in {"NONE", "RUNNING", "PAUSED"}
    /\ rate \in Rates
    /\ draft \in ({"RUNNING", "PAUSED"} \X Rates) \cup {NoDraft}
    /\ status \in [Participants -> {"NONE", "WAITING", "ALLOWED", "COMPLETED"}]
    /\ band \in [Participants -> Early..Fifo]
    /\ line \in Seq(Participants)
    /\ ToSet(line) = {p \in Participants : status[p] = "WAITING"}
    /\ window \in [Participants -> 0..MaxWindows]
    /\ overdue \in SUBSET {p \in Participants : window[p] # 0}
    /\ batch \in [Workers -> Seq(Participants)]
    /\ due \in [Workers -> SUBSET (Participants \X (1..MaxWindows))]
    /\ pc \in [Checkouts -> {"idle", "admitted", "ordered", "read", "consumed"}]
    /\ held \in [Checkouts -> 0..MaxWindows]
    /\ ordered \in SUBSET Participants

Init ==
    /\ presale = FALSE
    /\ state = "NONE"
    /\ rate = DefaultRate
    /\ draft = NoDraft
    /\ status = [p \in Participants |-> "NONE"]
    /\ band = [p \in Participants |-> Fifo]
    /\ line = <<>>
    /\ window = [p \in Participants |-> 0]
    /\ overdue = {}
    /\ batch = [w \in Workers |-> <<>>]
    /\ due = [w \in Workers |-> {}]
    /\ pc = [k \in Checkouts |-> "idle"]
    /\ held = [k \in Checkouts |-> 0]
    /\ ordered = {}

-----------------------------------------------------------------------------
(***************************************************************************)
(* The organizer's control of the queue.                                   *)
(***************************************************************************)

\* Pause and Resume, once the row exists.
SetState(s) ==
    /\ state # "NONE"
    /\ state' = s
    /\ UNCHANGED <<presale, rate, draft, tokenVars, windowVars, workerVars, checkoutVars>>

SetRate(r) ==
    /\ state # "NONE"
    /\ rate' = r
    /\ UNCHANGED <<presale, state, draft, tokenVars, windowVars, workerVars, checkoutVars>>

\* SetSchedule reads the row to preserve its state and rate; ensureControl, the
\* first step of the others, goes on from here only when there is no row.
ReadControl ==
    /\ draft = NoDraft
    /\ draft' = IF state = "NONE" THEN <<"RUNNING", DefaultRate>> ELSE <<state, rate>>
    /\ UNCHANGED <<presale, state, rate, tokenVars, windowVars, workerVars, checkoutVars>>

\* The upsert: every column, whatever has become of the row since.
WriteControl ==
    /\ draft # NoDraft
    /\ state' = draft[1]
    /\ rate' = draft[2]
    /\ draft' = NoDraft
    /\ presale' \in {FALSE, HasPresale}
    /\ UNCHANGED <<tokenVars, windowVars, workerVars, checkoutVars>>

\* The clock passes sale_start_at.
SaleStarts ==
    /\ presale
    /\ presale' = FALSE
    /\ UNCHANGED <<state, rate, draft, tokenVars, windowVars, workerVars, checkoutVars>>

-----------------------------------------------------------------------------
(***************************************************************************)
(* The line.                                                               *)
(***************************************************************************)

\* The lines that have p, with a score of band b, where the index puts it: a
\* hash may fall anywhere in its band, the clock is always the latest.
WithAt(p, b) ==
    {InsertAt(line, i, p) : i \in {j \in 1..Len(line) + 1 :
        /\ \A h \in 1..(j - 1) : band[line[h]] <= b
        /\ \A h \in j..Len(line) :
            \/ band[line[h]] > b
            \/ band[line[h]] = b /\ b \in {Early, Late}}}

\* Join of a participant who has no token yet.  (Joining again returns the token
\* there is, whatever its status.)
Join(p) ==
    /\ status[p] = "NONE"
    /\ \E b \in IF presale THEN {Early, Late} ELSE {Fifo} :
        /\ band' = [band EXCEPT ![p] = b]
        /\ line' \in WithAt(p, b)
    /\ status' = [status EXCEPT ![p] = "WAITING"]
    /\ UNCHANGED <<controlVars, windowVars, workerVars, checkoutVars>>

-----------------------------------------------------------------------------
(***************************************************************************)
(* The release job.                                                        *)
(***************************************************************************)

\* One tick: the first tokens of the line of a running queue, as they are now.
\* (The control row is read a statement earlier; a Pause in between lets the batch
\* through like one that comes right after.)
StartRelease(w) ==
    /\ batch[w] = <<>>
    /\ state = "RUNNING"
    /\ rate > 0 /\ line # <<>>
    /\ batch' = [batch EXCEPT ![w] =
                    SubSeq(line, 1, IF rate < Len(line) THEN rate ELSE Len(line))]
    /\ UNCHANGED <<controlVars, tokenVars, windowVars, due, checkoutVars>>

\* A row no one names any more is as good as a new one.
NewWindow(p) ==
    \E a \in 1..MaxWindows \ Named(p) :
        /\ \A b \in 1..(a - 1) : b \in Named(p)
        /\ window' = [window EXCEPT ![p] = a]

\* MarkAllowed and CreateAdmission in one transaction.  The unique index on a
\* token's ACTIVE row refuses a second one.
LetThrough(p) ==
    /\ status[p] = "WAITING" /\ window[p] = 0
    /\ status' = [status EXCEPT ![p] = "ALLOWED"]
    /\ \E i \in 1..Len(line) : line[i] = p /\ line' = RemoveAt(line, i)
    /\ NewWindow(p)
    /\ UNCHANGED <<band, overdue>>

\* The next token of the batch.  It stays as it is when it is no longer WAITING
\* (another worker was faster) or its transaction rolls back.
Promote(w) ==
    /\ batch[w] # <<>>
    /\ LET p == Head(batch[w])
       IN  \/ LetThrough(p)
           \/ /\ status[p] # "WAITING" \/ window[p] # 0
              /\ UNCHANGED <<tokenVars, windowVars>>
    /\ batch' = [batch EXCEPT ![w] = Tail(@)]
    /\ UNCHANGED <<controlVars, due, checkoutVars>>

-----------------------------------------------------------------------------
(***************************************************************************)
(* The expiry job.                                                         *)
(***************************************************************************)

WindowPasses(p) ==
    /\ window[p] # 0 /\ p \notin overdue
    /\ overdue' = overdue \cup {p}
    /\ UNCHANGED <<controlVars, tokenVars, window, workerVars, checkoutVars>>

\* One tick: the ACTIVE rows past their time.  The FOR UPDATE SKIP LOCKED is
\* outside a transaction, so its locks are gone with the statement.
StartExpiry(w) ==
    /\ due[w] = {} /\ overdue # {}
    /\ due' = [due EXCEPT ![w] = {<<p, window[p]>> : p \in overdue}]
    /\ UNCHANGED <<controlVars, tokenVars, windowVars, batch, checkoutVars>>

\* ExpireAdmission and ConsumeAdmission: guarded by status = 'ACTIVE'.
CloseWindow(p, a) ==
    IF window[p] = a
    THEN window' = [window EXCEPT ![p] = 0] /\ overdue' = overdue \ {p}
    ELSE UNCHANGED windowVars

MutRequeue(p) ==
    IF status[p] = "ALLOWED"
    THEN status' = [status EXCEPT ![p] = "EXPIRED"] /\ UNCHANGED <<band, line>>
    ELSE UNCHANGED tokenVars
MutRequeueFirst(p) ==
    IF status[p] = "ALLOWED"
    THEN /\ status' = [status EXCEPT ![p] = "WAITING"]
         /\ line' = <<p>> \o line
         /\ UNCHANGED band
    ELSE UNCHANGED tokenVars
\* RequeueToken: an ALLOWED token gets the clock as its score and keeps its pool.
Requeue(p) ==
    IF status[p] = "ALLOWED"
    THEN LET b == IF band[p] = Fifo THEN Fifo ELSE Requeued
         IN  /\ status' = [status EXCEPT ![p] = "WAITING"]
             /\ band' = [band EXCEPT ![p] = b]
             /\ line' \in WithAt(p, b)
    ELSE UNCHANGED tokenVars

MutExpireOne(w, p, a) ==
    /\ <<p, a>> \in due[w]
    /\ CloseWindow(p, a)
    /\ due' = [due EXCEPT ![w] = @ \ {<<p, a>>}]
    /\ UNCHANGED <<controlVars, tokenVars, batch, checkoutVars>>
\* One row of the list, in one transaction.  The token is requeued even when the
\* row is no longer ACTIVE.
ExpireOne(w, p, a) ==
    /\ <<p, a>> \in due[w]
    /\ CloseWindow(p, a)
    /\ Requeue(p)
    /\ due' = [due EXCEPT ![w] = @ \ {<<p, a>>}]
    /\ UNCHANGED <<controlVars, batch, checkoutVars>>

-----------------------------------------------------------------------------
(***************************************************************************)
(* Checkout, as far as the waiting room is concerned.                      *)
(***************************************************************************)

\* CheckAdmission, before the checkout's transaction: the token presented is the
\* ACTIVE row and its time has not passed.
CheckAdmission(k) ==
    /\ pc[k] = "idle"
    /\ window[Buyer[k]] # 0 /\ Buyer[k] \notin overdue
    /\ pc' = [pc EXCEPT ![k] = "admitted"]
    /\ UNCHANGED <<controlVars, tokenVars, windowVars, workerVars, held, ordered>>

\* The transaction commits, or rolls back (sold out, over the limit, ...).
PlaceOrder(k) ==
    /\ pc[k] = "admitted"
    /\ \/ /\ pc' = [pc EXCEPT ![k] = "ordered"]
          /\ ordered' = ordered \cup {Buyer[k]}
       \/ /\ pc' = [pc EXCEPT ![k] = "idle"]
          /\ UNCHANGED ordered
    /\ UNCHANGED <<controlVars, tokenVars, windowVars, workerVars, held>>

\* ConsumeOnCheckout: look the row up again (there may be none, or another),
ReadWindow(k) ==
    /\ pc[k] = "ordered"
    /\ pc' = [pc EXCEPT ![k] = IF window[Buyer[k]] = 0 THEN "idle" ELSE "read"]
    /\ held' = [held EXCEPT ![k] = window[Buyer[k]]]
    /\ UNCHANGED <<controlVars, tokenVars, windowVars, workerVars, ordered>>

\* consume it if it is still ACTIVE,
ConsumeWindow(k) ==
    /\ pc[k] = "read"
    /\ CloseWindow(Buyer[k], held[k])
    /\ pc' = [pc EXCEPT ![k] = "consumed"]
    /\ held' = [held EXCEPT ![k] = 0]
    /\ UNCHANGED <<controlVars, tokenVars, workerVars, ordered>>

MutCompleteToken(k) ==
    /\ pc[k] = "consumed"
    /\ status' = [status EXCEPT ![Buyer[k]] = "COMPLETED"]
    /\ line' = Remove(line, Buyer[k])
    /\ pc' = [pc EXCEPT ![k] = "idle"]
    /\ UNCHANGED <<controlVars, band, windowVars, workerVars, held, ordered>>
\* and complete the token if it is still ALLOWED.
CompleteToken(k) ==
    /\ pc[k] = "consumed"
    /\ status' = [status EXCEPT ![Buyer[k]] = IF @ = "ALLOWED" THEN "COMPLETED" ELSE @]
    /\ pc' = [pc EXCEPT ![k] = "idle"]
    /\ UNCHANGED <<controlVars, band, line, windowVars, workerVars, held, ordered>>

\* The hook fails between two of its statements; its error is ignored.
HookFails(k) ==
    /\ pc[k] \in {"ordered", "read", "consumed"}
    /\ pc' = [pc EXCEPT ![k] = "idle"]
    /\ held' = [held EXCEPT ![k] = 0]
    /\ UNCHANGED <<controlVars, tokenVars, windowVars, workerVars, ordered>>

-----------------------------------------------------------------------------
Next ==
    \/ \E s \in {"RUNNING", "PAUSED"} : SetState(s)
    \/ \E r \in Rates : SetRate(r)
    \/ ReadControl
    \/ WriteControl
    \/ SaleStarts
    \/ \E p \in Participants : Join(p) \/ WindowPasses(p)
    \/ \E w \in Workers :
        \/ StartRelease(w)
        \/ Promote(w)
        \/ StartExpiry(w)
        \/ \E d \in due[w] : ExpireOne(w, d[1], d[2])
    \/ \E k \in Checkouts :
        \/ CheckAdmission(k)
        \/ PlaceOrder(k)
        \/ ReadWindow(k)
        \/ ConsumeWindow(k)
        \/ CompleteToken(k)
        \/ HookFails(k)

Spec == Init /\ [][Next]_vars

(***************************************************************************)
(* The tickers of the workers go on, a job goes through its list, windows  *)
(* pass, and a request that has begun ends.  Nobody is bound to join, to   *)
(* check out or to resume a paused queue.                                  *)
(***************************************************************************)
Fairness ==
    /\ \A w \in Workers :
        /\ WF_vars(StartRelease(w))
        /\ WF_vars(Promote(w))
        /\ WF_vars(StartExpiry(w))
        /\ WF_vars(\E d \in due[w] : ExpireOne(w, d[1], d[2]))
    /\ \A p \in Participants : WF_vars(WindowPasses(p))
    /\ \A k \in Checkouts :
        WF_vars(PlaceOrder(k) \/ ReadWindow(k) \/ ConsumeWindow(k) \/ CompleteToken(k))

FairSpec == Spec /\ Fairness

-----------------------------------------------------------------------------
(***************************************************************************)
(* Properties.                                                             *)
(***************************************************************************)

\* Only someone who has ordered can be through the gate without a window: the
\* expiry of a window always puts its participant back in the line.
NobodyStranded ==
    \A p \in Participants : status[p] = "ALLOWED" /\ window[p] = 0 => p \in ordered

\* A token moves only from WAITING to ALLOWED and from there to WAITING or
\* COMPLETED, and is COMPLETED only for someone who has ordered, although expiry,
\* release and the hook act on rows they read earlier.
TokenLifecycle ==
    [][\A p \in Participants : status'[p] # status[p] =>
        CASE status[p] = "NONE"      -> status'[p] = "WAITING"
          [] status[p] = "WAITING"   -> status'[p] = "ALLOWED"
          [] status[p] = "ALLOWED"   -> \/ status'[p] = "WAITING"
                                        \/ status'[p] = "COMPLETED" /\ p \in ordered
          [] status[p] = "COMPLETED" -> FALSE]_vars

\* Everybody in the line gets through, if the queue runs and no presale token
\* keeps coming back ahead of the others.
WaitingIsAdmitted ==
    (/\ <>[](state = "RUNNING" /\ rate > 0)
     /\ <>[](\A p \in Participants :
                status[p] \in {"NONE", "COMPLETED"} \/ band[p] = Fifo))
        => \A p \in Participants : status[p] = "WAITING" ~> status[p] # "WAITING"

-----------------------------------------------------------------------------
(***************************************************************************)
(* What the repository says and the code does not do (see README.md).      *)
(***************************************************************************)

\* A participant whose window passes goes to the back of the line.
RequeuedToTheBack ==
    [][\A p \in Participants : status[p] = "ALLOWED" /\ status'[p] = "WAITING"
            => line' = Append(line, p)]_vars

\* A paused queue runs again only when somebody resumes it.
PausedUntilResumed ==
    [][state = "PAUSED" /\ state' # "PAUSED" => SetState("RUNNING")]_vars
=============================================================================
