----------------------- MODULE AdmissionQueue_proofs -----------------------
(***************************************************************************)
(* Theorems about AdmissionQueue, for any participants, workers, checkout  *)
(* calls and rates.                                                        *)
(*                                                                         *)
(* The argument: a token leaves the line only together with the opening of *)
(* a window, and a window closes either with the token going back to the   *)
(* line or by a hook, which runs only for someone whose order is made.  So *)
(* whatever the jobs and the hook have read before, nobody is left through *)
(* the gate with neither a window nor an order.                            *)
(***************************************************************************)
EXTENDS AdmissionQueue, SequenceTheorems, TLAPS

-----------------------------------------------------------------------------
(***************************************************************************)
(* The line.                                                               *)
(***************************************************************************)

\* No token is in the sequence twice.
EachOnce(s) == \A i, j \in 1..Len(s) : s[i] = s[j] => i = j

\* Inserting an element that is not there yet, at any place.
LEMMA InsertInLine ==
    ASSUME NEW S, NEW s \in Seq(S), NEW e \in S, NEW i \in 1..Len(s) + 1
    PROVE  /\ InsertAt(s, i, e) \in Seq(S)
           /\ ToSet(InsertAt(s, i, e)) = ToSet(s) \cup {e}
           /\ EachOnce(s) /\ e \notin ToSet(s) => EachOnce(InsertAt(s, i, e))
<1> DEFINE a == SubSeq(s, 1, i - 1)
           b == SubSeq(s, i, Len(s))
           t == InsertAt(s, i, e)
<1>1. /\ Len(s) \in Nat /\ DOMAIN s = 1..Len(s)
      /\ \A j \in 1..Len(s) : s[j] \in S
  BY LenProperties, ElementOfSeq
<1>2. /\ a \in Seq(S) /\ Len(a) = i - 1
      /\ \A j \in 1..(i - 1) : a[j] = s[j]
  BY <1>1, SubSeqProperties
<1>3. /\ b \in Seq(S) /\ Len(b) = Len(s) - i + 1
      /\ \A j \in 1..(Len(s) - i + 1) : b[j] = s[i + j - 1]
  BY <1>1, SubSeqProperties
<1>4. /\ a \o <<e>> \in Seq(S) /\ Len(a \o <<e>>) = i
      /\ \A j \in 1..i : (a \o <<e>>)[j] = IF j < i THEN s[j] ELSE e
  <2>1. <<e>> \in Seq(S) /\ Len(<<e>>) = 1 /\ <<e>>[1] = e
    OBVIOUS
  <2> HIDE DEF a
  <2> QED
    BY <1>1, <1>2, <2>1, ConcatProperties
<1>5. /\ t \in Seq(S) /\ Len(t) = Len(s) + 1
      /\ \A j \in 1..Len(s) + 1 :
            t[j] = IF j < i THEN s[j] ELSE IF j = i THEN e ELSE s[j - 1]
  <2>1. t = (a \o <<e>>) \o b
    BY DEF InsertAt
  <2> DEFINE c == a \o <<e>>
  <2>2. c \in Seq(S) /\ Len(c) = i
        /\ \A j \in 1..i : c[j] = IF j < i THEN s[j] ELSE e
    BY <1>4
  <2>3. t = c \o b
    BY <2>1
  <2> HIDE DEF a, b, t, c
  <2>4. /\ t \in Seq(S) /\ Len(t) = i + (Len(s) - i + 1)
        /\ \A j \in 1..i + (Len(s) - i + 1) :
              t[j] = IF j <= i THEN c[j] ELSE b[j - i]
    BY <1>3, <2>2, <2>3, ConcatProperties
  <2>5. i + (Len(s) - i + 1) = Len(s) + 1
    BY <1>1
  <2>6. ASSUME NEW j \in 1..Len(s) + 1
        PROVE  t[j] = IF j < i THEN s[j] ELSE IF j = i THEN e ELSE s[j - 1]
    <3>1. CASE j <= i
      BY <1>1, <2>2, <2>4, <2>5, <3>1
    <3>2. CASE i < j
      <4>1. j - i \in 1..(Len(s) - i + 1) /\ i + (j - i) - 1 = j - 1
        BY <1>1, <3>2
      <4>2. t[j] = b[j - i]
        BY <1>1, <2>4, <2>5, <3>2
      <4> QED
        BY <1>1, <1>3, <3>2, <4>1, <4>2
    <3> QED
      BY <1>1, <3>1, <3>2
  <2> QED
    BY <2>4, <2>5, <2>6
<1> HIDE DEF t
<1>6. DOMAIN t = 1..Len(s) + 1
  BY <1>5, LenProperties
<1>7. ToSet(t) = ToSet(s) \cup {e}
  <2>1. ASSUME NEW x \in ToSet(t) PROVE x \in ToSet(s) \cup {e}
    <3>1. PICK j \in 1..Len(s) + 1 : x = t[j]
      BY <1>6, <2>1 DEF ToSet
    <3>2. CASE j < i
      BY <1>1, <1>5, <3>1, <3>2 DEF ToSet
    <3>3. CASE j = i
      BY <1>1, <1>5, <3>1, <3>3
    <3>4. CASE i < j
      <4>1. x = s[j - 1] /\ j - 1 \in 1..Len(s)
        BY <1>1, <1>5, <3>1, <3>4
      <4> QED
        BY <1>1, <4>1 DEF ToSet
    <3> QED
      BY <1>1, <3>2, <3>3, <3>4
  <2>2. e \in ToSet(t)
    BY <1>1, <1>5, <1>6 DEF ToSet
  <2>3. ASSUME NEW j \in 1..Len(s) PROVE s[j] \in ToSet(t)
    <3>1. CASE j < i
      BY <1>1, <1>5, <1>6, <3>1 DEF ToSet
    <3>2. CASE i <= j
      <4>1. j + 1 \in 1..Len(s) + 1 /\ t[j + 1] = s[j]
        BY <1>1, <1>5, <3>2
      <4> QED
        BY <1>6, <4>1 DEF ToSet
    <3> QED
      BY <1>1, <3>1, <3>2
  <2> QED
    BY <1>1, <2>1, <2>2, <2>3 DEF ToSet
<1>8. ASSUME EachOnce(s), e \notin ToSet(s) PROVE EachOnce(t)
  <2>1. \A j \in 1..Len(s) : s[j] # e
    BY <1>1, <1>8 DEF ToSet
  <2> QED
    BY <1>1, <1>5, <1>8, <2>1 DEF EachOnce
<1> QED
  BY <1>5, <1>7, <1>8 DEF t

\* Removing the element at a place.
LEMMA RemoveFromLine ==
    ASSUME NEW S, NEW s \in Seq(S), NEW i \in 1..Len(s), EachOnce(s)
    PROVE  /\ RemoveAt(s, i) \in Seq(S)
           /\ ToSet(RemoveAt(s, i)) = ToSet(s) \ {s[i]}
           /\ EachOnce(RemoveAt(s, i))
<1> DEFINE a == SubSeq(s, 1, i - 1)
           b == SubSeq(s, i + 1, Len(s))
           t == RemoveAt(s, i)
<1>1. /\ Len(s) \in Nat /\ DOMAIN s = 1..Len(s)
      /\ \A j \in 1..Len(s) : s[j] \in S
  BY LenProperties, ElementOfSeq
<1>a. Len(s) \in Nat /\ i \in Nat /\ i <= Len(s)
  <2> Len(s) \in Nat
    BY <1>1
  <2> QED
    OBVIOUS
<1>2. /\ a \in Seq(S) /\ Len(a) = i - 1
      /\ \A j \in 1..(i - 1) : a[j] = s[j]
  BY <1>1, SubSeqProperties
<1>3. /\ b \in Seq(S) /\ Len(b) = Len(s) - i
      /\ \A j \in 1..(Len(s) - i) : b[j] = s[i + j]
  <2>1. \A j \in (i + 1)..Len(s) : s[j] \in S
    BY <1>1
  <2>2. /\ b \in Seq(S) /\ Len(b) = IF i + 1 <= Len(s) THEN Len(s) - (i + 1) + 1 ELSE 0
        /\ \A j \in 1..(Len(s) - (i + 1) + 1) : b[j] = s[(i + 1) + j - 1]
    <3> i + 1 \in Int /\ Len(s) \in Int
      BY <1>1
    <3> QED
      BY <2>1, SubSeqProperties
  <2> HIDE DEF a, b, t
  <2>3. Len(b) = Len(s) - i
    <3>1. CASE i = Len(s)
      BY <1>1, <2>2, <3>1
    <3>2. CASE i # Len(s)
      <4>1. Len(s) \in Nat /\ i \in Nat /\ i < Len(s)
        BY <1>a, <3>2
      <4>2. i + 1 <= Len(s)
        BY <4>1
      <4>3. Len(s) - (i + 1) + 1 = Len(s) - i
        BY <4>1
      <4> QED
        BY <2>2, <4>2, <4>3
    <3> QED
      BY <3>1, <3>2
  <2>4. ASSUME NEW j \in 1..(Len(s) - i) PROVE b[j] = s[i + j]
    <3>1. j \in 1..(Len(s) - (i + 1) + 1) /\ (i + 1) + j - 1 = i + j
      BY <1>1
    <3> QED
      BY <2>2, <3>1
  <2> QED
    BY <2>2, <2>3, <2>4
<1>4. t = a \o b
  BY DEF RemoveAt
<1> HIDE DEF a, b, t
<1>5. /\ t \in Seq(S) /\ Len(t) = Len(s) - 1
      /\ \A j \in 1..(Len(s) - 1) : t[j] = IF j < i THEN s[j] ELSE s[j + 1]
  <2>1. /\ t \in Seq(S) /\ Len(t) = Len(a) + Len(b)
        /\ \A j \in 1..Len(a) + Len(b) :
              t[j] = IF j <= Len(a) THEN a[j] ELSE b[j - Len(a)]
    BY <1>2, <1>3, <1>4, ConcatProperties
  <2>2. Len(a) + Len(b) = Len(s) - 1
    BY <1>1, <1>2, <1>3
  <2>3. ASSUME NEW j \in 1..(Len(s) - 1), j < i PROVE t[j] = s[j]
    <3>1. j \in 1..Len(a) + Len(b) /\ j <= Len(a) /\ j \in 1..(i - 1)
      BY <1>1, <1>2, <2>2, <2>3
    <3> QED
      BY <1>2, <2>1, <3>1
  <2>4. ASSUME NEW j \in 1..(Len(s) - 1), ~(j < i) PROVE t[j] = s[j + 1]
    <3>1. /\ j \in 1..Len(a) + Len(b) /\ ~(j <= Len(a)) /\ j - Len(a) \in 1..(Len(s) - i)
          /\ i + (j - Len(a)) = j + 1
      BY <1>1, <1>2, <2>2, <2>4
    <3>2. t[j] = b[j - Len(a)]
      BY <2>1, <3>1
    <3> QED
      BY <1>3, <3>1, <3>2
  <2> QED
    BY <2>1, <2>2, <2>3, <2>4
<1>6. DOMAIN t = 1..(Len(s) - 1)
  BY <1>5, LenProperties
<1>7. ToSet(t) = ToSet(s) \ {s[i]}
  <2>1. ASSUME NEW j \in 1..(Len(s) - 1) PROVE t[j] \in ToSet(s) \ {s[i]}
    BY <1>1, <1>5 DEF ToSet, EachOnce
  <2>2. ASSUME NEW j \in 1..Len(s), s[j] # s[i] PROVE s[j] \in ToSet(t)
    <3>1. CASE j < i
      BY <1>1, <1>5, <1>6, <3>1 DEF ToSet
    <3>2. CASE i < j
      <4>1. j - 1 \in 1..(Len(s) - 1) /\ t[j - 1] = s[j]
        BY <1>1, <1>5, <3>2
      <4> QED
        BY <1>6, <4>1 DEF ToSet
    <3> QED
      BY <1>1, <2>2, <3>1, <3>2
  <2> QED
    BY <1>1, <1>6, <2>1, <2>2 DEF ToSet
<1>8. EachOnce(t)
  BY <1>1, <1>5 DEF EachOnce
<1> QED
  BY <1>5, <1>7, <1>8 DEF t

-----------------------------------------------------------------------------
(***************************************************************************)
(* The line and the tokens.                                                *)
(***************************************************************************)

TokenStatus == {"NONE", "WAITING", "ALLOWED", "COMPLETED"}

\* The line is exactly the WAITING tokens, each of them once.
LineOK ==
    /\ status \in [Participants -> TokenStatus]
    /\ line \in Seq(Participants)
    /\ ToSet(line) = {p \in Participants : status[p] = "WAITING"}
    /\ EachOnce(line)

\* A token that was not in the line enters it.
LEMMA EntersLine ==
    ASSUME LineOK, NEW p \in Participants, NEW b,
           status[p] # "WAITING", line' \in WithAt(p, b),
           status' = [status EXCEPT ![p] = "WAITING"]
    PROVE  LineOK'
<1>1. PICK i \in 1..Len(line) + 1 : line' = InsertAt(line, i, p)
  BY DEF WithAt
<1>2. line \in Seq(Participants) /\ p \notin ToSet(line)
  BY DEF LineOK
<1>3. /\ line' \in Seq(Participants)
      /\ ToSet(line') = ToSet(line) \cup {p}
      /\ EachOnce(line')
  BY <1>1, <1>2, InsertInLine DEF LineOK
<1>4. status' \in [Participants -> TokenStatus]
  BY DEF LineOK, TokenStatus
<1>5. ToSet(line') = {q \in Participants : status'[q] = "WAITING"}
  BY <1>3 DEF LineOK
<1> QED
  BY <1>3, <1>4, <1>5 DEF LineOK

\* A WAITING token is let through.
LEMMA LeavesLine ==
    ASSUME LineOK, NEW p \in Participants, NEW i \in 1..Len(line),
           line[i] = p, line' = RemoveAt(line, i),
           status' = [status EXCEPT ![p] = "ALLOWED"]
    PROVE  LineOK'
<1>1. /\ line' \in Seq(Participants)
      /\ ToSet(line') = ToSet(line) \ {p}
      /\ EachOnce(line')
  BY RemoveFromLine DEF LineOK
<1>2. status' \in [Participants -> TokenStatus]
  BY DEF LineOK, TokenStatus
<1>3. ToSet(line') = {q \in Participants : status'[q] = "WAITING"}
  BY <1>1 DEF LineOK
<1> QED
  BY <1>1, <1>2, <1>3 DEF LineOK

\* The line does not change, and no token enters or leaves the state WAITING.
LEMMA LineStays ==
    ASSUME LineOK, UNCHANGED line, status' \in [Participants -> TokenStatus],
           \A p \in Participants : status'[p] = "WAITING" <=> status[p] = "WAITING"
    PROVE  LineOK'
BY DEF LineOK

-----------------------------------------------------------------------------
(***************************************************************************)
(* Every step respects the types.                                          *)
(***************************************************************************)

\* The organizer's steps touch nothing but the control row.
LEMMA ControlTypes ==
    ASSUME TypeOK, EachOnce(line),
           \/ \E s \in {"RUNNING", "PAUSED"} : SetState(s)
           \/ \E r \in Rates : SetRate(r)
           \/ ReadControl \/ WriteControl \/ SaleStarts
    PROVE  TypeOK' /\ EachOnce(line)'
<1> USE DEF TypeOK, EachOnce, NoDraft, tokenVars, windowVars, workerVars, checkoutVars
<1>1. CASE \E s \in {"RUNNING", "PAUSED"} : SetState(s)
  BY <1>1 DEF SetState
<1>2. CASE \E r \in Rates : SetRate(r)
  BY <1>2 DEF SetRate
<1>3. CASE ReadControl
  BY <1>3, RatesAssumption DEF ReadControl
<1>4. CASE WriteControl
  BY <1>4, HasPresaleAssumption DEF WriteControl
<1>5. CASE SaleStarts
  BY <1>5 DEF SaleStarts
<1> QED
  BY <1>1, <1>2, <1>3, <1>4, <1>5

\* What TypeOK says besides the line.
RestOK ==
    /\ presale \in BOOLEAN
    /\ state \in {"NONE", "RUNNING", "PAUSED"}
    /\ rate \in Rates
    /\ draft \in ({"RUNNING", "PAUSED"} \X Rates) \cup {NoDraft}
    /\ band \in [Participants -> Early..Fifo]
    /\ window \in [Participants -> 0..MaxWindows]
    /\ overdue \in SUBSET {p \in Participants : window[p] # 0}
    /\ batch \in [Workers -> Seq(Participants)]
    /\ due \in [Workers -> SUBSET (Participants \X (1..MaxWindows))]
    /\ pc \in [Checkouts -> {"idle", "admitted", "ordered", "read", "consumed"}]
    /\ held \in [Checkouts -> 0..MaxWindows]
    /\ ordered \in SUBSET Participants

LEMMA TypesSplit ==
    /\ TypeOK /\ EachOnce(line) <=> LineOK /\ RestOK
    /\ (TypeOK /\ EachOnce(line))' <=> LineOK' /\ RestOK'
BY DEF TypeOK, LineOK, RestOK, TokenStatus

LEMMA JoinTypes ==
    ASSUME LineOK, RestOK, NEW p \in Participants, Join(p)
    PROVE  LineOK' /\ RestOK'
<1>1. PICK b \in IF presale THEN {Early, Late} ELSE {Fifo} :
        band' = [band EXCEPT ![p] = b] /\ line' \in WithAt(p, b)
  BY DEF Join
<1>2. LineOK'
  BY <1>1, EntersLine DEF Join
<1>3. b \in Early..Fifo
  BY DEF Early, Late, Fifo
<1>4. RestOK'
  BY <1>1, <1>3 DEF Join, RestOK, controlVars, windowVars, workerVars, checkoutVars
<1> QED
  BY <1>2, <1>4

\* The first tokens of the line are participants.
LEMMA StartReleaseTypes ==
    ASSUME LineOK, RestOK, NEW w \in Workers, StartRelease(w)
    PROVE  LineOK' /\ RestOK'
<1> DEFINE n == IF rate < Len(line) THEN rate ELSE Len(line)
<1>1. line \in Seq(Participants) /\ Len(line) \in Nat /\ rate \in Nat
  BY LenProperties, RatesAssumption DEF LineOK, RestOK
<1>2. n \in Int /\ n <= Len(line)
  BY <1>1
<1> HIDE DEF n
<1>3. \A j \in 1..n : line[j] \in Participants
  BY <1>1, <1>2, ElementOfSeq
<1>4. SubSeq(line, 1, n) \in Seq(Participants)
  BY <1>2, <1>3, SubSeqProperties
<1>5. batch' = [batch EXCEPT ![w] = SubSeq(line, 1, n)]
  BY DEF StartRelease, n
<1>6. RestOK'
  BY <1>4, <1>5 DEF RestOK, StartRelease, controlVars, tokenVars, windowVars, checkoutVars
<1>7. LineOK'
  BY DEF StartRelease, LineOK, tokenVars, EachOnce
<1> QED
  BY <1>6, <1>7

LEMMA PromoteTypes ==
    ASSUME LineOK, RestOK, NEW w \in Workers, Promote(w)
    PROVE  LineOK' /\ RestOK'
<1> DEFINE p == Head(batch[w])
<1>1. p \in Participants /\ Tail(batch[w]) \in Seq(Participants)
  <2>1. batch[w] \in Seq(Participants) /\ batch[w] # <<>>
    BY DEF RestOK, Promote
  <2> QED
    BY <2>1, HeadTailProperties
<1>2. \/ LetThrough(p)
      \/ UNCHANGED <<tokenVars, windowVars>>
  BY DEF Promote
<1> HIDE DEF p
<1>3. batch' \in [Workers -> Seq(Participants)]
  BY <1>1 DEF Promote, RestOK
<1>4. CASE LetThrough(p)
  <2>1. PICK i \in 1..Len(line) : line[i] = p /\ line' = RemoveAt(line, i)
    BY <1>4 DEF LetThrough
  <2>2. LineOK'
    BY <1>1, <1>4, <2>1, LeavesLine DEF LetThrough
  <2>3. PICK a \in 1..MaxWindows \ Named(p) : window' = [window EXCEPT ![p] = a]
    BY <1>4 DEF LetThrough, NewWindow
  <2>4. window' \in [Participants -> 0..MaxWindows]
    <3>1. a \in 0..MaxWindows
      BY MaxWindowsAssumption
    <3> QED
      BY <2>3, <3>1 DEF RestOK
  <2>5. overdue' \in SUBSET {q \in Participants : window'[q] # 0}
    BY <1>4, <2>3 DEF LetThrough, RestOK
  <2>6. RestOK'
    BY <1>3, <1>4, <2>4, <2>5
    DEF RestOK, Promote, LetThrough, controlVars, checkoutVars
  <2> QED
    BY <2>2, <2>6
<1>5. CASE UNCHANGED <<tokenVars, windowVars>>
  <2>1. LineOK'
    BY <1>5 DEF LineOK, EachOnce, tokenVars
  <2>2. RestOK'
    BY <1>3, <1>5 DEF RestOK, Promote, controlVars, tokenVars, windowVars, checkoutVars
  <2> QED
    BY <2>1, <2>2
<1> QED
  BY <1>2, <1>4, <1>5

LEMMA WindowTypes ==
    ASSUME LineOK, RestOK,
           \/ \E p \in Participants : WindowPasses(p)
           \/ \E w \in Workers : StartExpiry(w)
    PROVE  LineOK' /\ RestOK'
<1> USE DEF RestOK, LineOK, EachOnce, controlVars, tokenVars, windowVars, workerVars,
            checkoutVars
<1>1. CASE \E p \in Participants : WindowPasses(p)
  BY <1>1 DEF WindowPasses
<1>2. ASSUME NEW w \in Workers, StartExpiry(w)
      PROVE  LineOK' /\ RestOK'
  <2>1. \A p \in overdue : window[p] \in 1..MaxWindows
    BY MaxWindowsAssumption
  <2> QED
    BY <1>2, <2>1 DEF StartExpiry
<1> QED
  BY <1>1, <1>2

LEMMA CloseWindowTypes ==
    ASSUME RestOK, NEW p \in Participants, NEW a, CloseWindow(p, a)
    PROVE  /\ window' \in [Participants -> 0..MaxWindows]
           /\ overdue' \in SUBSET {q \in Participants : window'[q] # 0}
<1>1. CASE window[p] = a
  BY <1>1, MaxWindowsAssumption DEF CloseWindow, RestOK
<1>2. CASE window[p] # a
  BY <1>2 DEF CloseWindow, RestOK, windowVars
<1> QED
  BY <1>1, <1>2

LEMMA ExpireOneTypes ==
    ASSUME LineOK, RestOK, NEW w \in Workers, NEW d \in due[w],
           ExpireOne(w, d[1], d[2])
    PROVE  LineOK' /\ RestOK'
<1> DEFINE p == d[1]
<1>1. p \in Participants
  BY DEF RestOK
<1>2. /\ window' \in [Participants -> 0..MaxWindows]
      /\ overdue' \in SUBSET {q \in Participants : window'[q] # 0}
  BY <1>1, CloseWindowTypes DEF ExpireOne
<1>3. Requeue(p)
  BY DEF ExpireOne
<1>4. LineOK' /\ band' \in [Participants -> Early..Fifo]
  <2> HIDE DEF p
  <2>1. CASE status[p] = "ALLOWED"
    <3> DEFINE b == IF band[p] = Fifo THEN Fifo ELSE Requeued
    <3>1. /\ status' = [status EXCEPT ![p] = "WAITING"]
          /\ band' = [band EXCEPT ![p] = b]
          /\ line' \in WithAt(p, b)
      BY <1>3, <2>1 DEF Requeue
    <3>2. b \in Early..Fifo
      BY DEF Early, Fifo, Requeued
    <3> HIDE DEF b
    <3>3. LineOK'
      BY <1>1, <2>1, <3>1, EntersLine
    <3> QED
      BY <3>1, <3>2, <3>3 DEF RestOK
  <2>2. CASE status[p] # "ALLOWED"
    BY <1>3, <2>2 DEF Requeue, LineOK, RestOK, EachOnce, tokenVars
  <2> QED
    BY <2>1, <2>2
<1>5. due' \in [Workers -> SUBSET (Participants \X (1..MaxWindows))]
  BY DEF ExpireOne, RestOK
<1>6. RestOK'
  BY <1>2, <1>4, <1>5 DEF RestOK, ExpireOne, controlVars, checkoutVars
<1> QED
  BY <1>4, <1>6

\* A step of a checkout call.
CheckoutStep(k) ==
    \/ CheckAdmission(k)
    \/ PlaceOrder(k)
    \/ ReadWindow(k)
    \/ ConsumeWindow(k)
    \/ CompleteToken(k)
    \/ HookFails(k)

LEMMA CheckoutTypes ==
    ASSUME LineOK, RestOK, NEW k \in Checkouts, CheckoutStep(k)
    PROVE  LineOK' /\ RestOK'
<1>1. Buyer[k] \in Participants
  BY BuyerAssumption
<1>2. CASE CheckAdmission(k)
  BY <1>2 DEF CheckAdmission, LineOK, RestOK, EachOnce, controlVars, tokenVars,
              windowVars, workerVars
<1>3. CASE PlaceOrder(k)
  BY <1>1, <1>3 DEF PlaceOrder, LineOK, RestOK, EachOnce, controlVars, tokenVars,
                    windowVars, workerVars
<1>4. CASE ReadWindow(k)
  BY <1>1, <1>4 DEF ReadWindow, LineOK, RestOK, EachOnce, controlVars, tokenVars,
                    windowVars, workerVars
<1>5. CASE ConsumeWindow(k)
  <2>1. /\ window' \in [Participants -> 0..MaxWindows]
        /\ overdue' \in SUBSET {q \in Participants : window'[q] # 0}
    BY <1>1, <1>5, CloseWindowTypes DEF ConsumeWindow
  <2>2. held' \in [Checkouts -> 0..MaxWindows]
    <3>1. 0 \in 0..MaxWindows
      BY MaxWindowsAssumption
    <3> QED
      BY <1>5, <3>1 DEF ConsumeWindow, RestOK
  <2>3. RestOK'
    BY <1>5, <2>1, <2>2 DEF ConsumeWindow, RestOK, controlVars, tokenVars, workerVars
  <2>4. LineOK'
    BY <1>5 DEF ConsumeWindow, LineOK, EachOnce, tokenVars
  <2> QED
    BY <2>3, <2>4
<1>6. CASE CompleteToken(k)
  <2>1. LineOK'
    <3>1. UNCHANGED line
      BY <1>6 DEF CompleteToken
    <3>2. status' \in [Participants -> TokenStatus]
      BY <1>6 DEF CompleteToken, LineOK, TokenStatus
    <3>3. \A p \in Participants : status'[p] = "WAITING" <=> status[p] = "WAITING"
      BY <1>6 DEF CompleteToken, LineOK
    <3> QED
      BY <3>1, <3>2, <3>3, LineStays
  <2>2. RestOK'
    BY <1>6 DEF CompleteToken, RestOK, controlVars, windowVars, workerVars
  <2> QED
    BY <2>1, <2>2
<1>7. CASE HookFails(k)
  BY <1>7, MaxWindowsAssumption
  DEF HookFails, LineOK, RestOK, EachOnce, controlVars, tokenVars, windowVars, workerVars
<1> QED
  BY <1>2, <1>3, <1>4, <1>5, <1>6, <1>7 DEF CheckoutStep

-----------------------------------------------------------------------------
(***************************************************************************)
(* The invariant.                                                          *)
(***************************************************************************)

\* The hook runs only for someone whose order is made.
HookAfterOrder ==
    \A k \in Checkouts : pc[k] \in {"ordered", "read", "consumed"} => Buyer[k] \in ordered

IInv ==
    /\ TypeOK
    /\ EachOnce(line)
    /\ HookAfterOrder
    /\ NobodyStranded

LEMMA InitIInv == Init => IInv
<1> SUFFICES ASSUME Init PROVE IInv
  OBVIOUS
<1>1. /\ line = <<>> /\ Len(line) = 0 /\ line \in Seq(Participants)
      /\ DOMAIN line = {}
  BY EmptySeq, LenProperties DEF Init
<1>2. ToSet(line) = {p \in Participants : status[p] = "WAITING"} /\ EachOnce(line)
  BY <1>1 DEF Init, ToSet, EachOnce
<1>3. \A w \in Workers : batch[w] \in Seq(Participants)
  BY EmptySeq DEF Init
<1>4. 0 \in 0..MaxWindows /\ Fifo \in Early..Fifo /\ DefaultRate \in Rates
  BY RatesAssumption, MaxWindowsAssumption DEF Early, Fifo
<1>5. TypeOK
  <2>1. /\ band \in [Participants -> Early..Fifo]
        /\ window \in [Participants -> 0..MaxWindows]
        /\ held \in [Checkouts -> 0..MaxWindows]
        /\ batch \in [Workers -> Seq(Participants)]
    BY <1>3, <1>4 DEF Init
  <2>2. /\ overdue \in SUBSET {p \in Participants : window[p] # 0}
        /\ due \in [Workers -> SUBSET (Participants \X (1..MaxWindows))]
    BY DEF Init
  <2>3. /\ status \in [Participants -> {"NONE", "WAITING", "ALLOWED", "COMPLETED"}]
        /\ pc \in [Checkouts -> {"idle", "admitted", "ordered", "read", "consumed"}]
    BY DEF Init
  <2>4. /\ presale \in BOOLEAN /\ state \in {"NONE", "RUNNING", "PAUSED"} /\ rate \in Rates
        /\ draft \in ({"RUNNING", "PAUSED"} \X Rates) \cup {NoDraft}
        /\ ordered \in SUBSET Participants
    BY <1>4 DEF Init
  <2> QED
    BY <1>1, <1>2, <2>1, <2>2, <2>3, <2>4 DEF TypeOK
<1> QED
  BY <1>2, <1>5 DEF Init, IInv, HookAfterOrder, NobodyStranded

LEMMA StepTypes ==
    ASSUME TypeOK, EachOnce(line), [Next]_vars
    PROVE  TypeOK' /\ EachOnce(line)'
<1>1. LineOK /\ RestOK
  BY TypesSplit
<1>2. CASE \/ \E s \in {"RUNNING", "PAUSED"} : SetState(s)
           \/ \E r \in Rates : SetRate(r)
           \/ ReadControl \/ WriteControl \/ SaleStarts
  BY <1>2, ControlTypes
<1>3. CASE \E p \in Participants : Join(p) \/ WindowPasses(p)
  BY <1>1, <1>3, JoinTypes, WindowTypes, TypesSplit
<1>4. CASE \E w \in Workers : \/ StartRelease(w)
                              \/ Promote(w)
                              \/ StartExpiry(w)
                              \/ \E d \in due[w] : ExpireOne(w, d[1], d[2])
  BY <1>1, <1>4, StartReleaseTypes, PromoteTypes, WindowTypes, ExpireOneTypes, TypesSplit
<1>5. CASE \E k \in Checkouts : CheckoutStep(k)
  BY <1>1, <1>5, CheckoutTypes, TypesSplit
<1>6. CASE UNCHANGED vars
  BY <1>6 DEF vars, TypeOK, EachOnce
<1> QED
  BY <1>2, <1>3, <1>4, <1>5, <1>6 DEF Next, CheckoutStep

\* Only a checkout call changes where a call is, and orders are never undone.
LEMMA HookStep ==
    ASSUME TypeOK, HookAfterOrder, [Next]_vars
    PROVE  HookAfterOrder' /\ ordered \subseteq ordered'
<1>1. CASE UNCHANGED checkoutVars
  BY <1>1 DEF HookAfterOrder, checkoutVars
<1>2. ASSUME NEW k \in Checkouts, CheckoutStep(k)
      PROVE  HookAfterOrder' /\ ordered \subseteq ordered'
  <2> USE DEF TypeOK, HookAfterOrder
  <2>1. CASE CheckAdmission(k)
    BY <2>1 DEF CheckAdmission
  <2>2. CASE PlaceOrder(k)
    BY <2>2 DEF PlaceOrder
  <2>3. CASE ReadWindow(k)
    BY <2>3 DEF ReadWindow
  <2>4. CASE ConsumeWindow(k)
    BY <2>4 DEF ConsumeWindow
  <2>5. CASE CompleteToken(k)
    BY <2>5 DEF CompleteToken
  <2>6. CASE HookFails(k)
    BY <2>6 DEF HookFails
  <2> QED
    BY <1>2, <2>1, <2>2, <2>3, <2>4, <2>5, <2>6 DEF CheckoutStep
<1>3. UNCHANGED checkoutVars \/ \E k \in Checkouts : CheckoutStep(k)
  BY DEF Next, CheckoutStep, SetState, SetRate, ReadControl, WriteControl, SaleStarts,
         Join, WindowPasses, StartRelease, Promote, StartExpiry, ExpireOne, vars, checkoutVars
<1> QED
  BY <1>1, <1>2, <1>3

\* A window opens with its token let through, and closes with its token put back
\* in the line or for someone who has ordered.
LEMMA StrandedStep ==
    ASSUME TypeOK, TypeOK', HookAfterOrder, NobodyStranded, [Next]_vars
    PROVE  NobodyStranded'
<1>1. ordered \subseteq ordered'
  BY HookStep
<1>2. CASE UNCHANGED <<status, window>>
  BY <1>1, <1>2 DEF NobodyStranded
<1>3. ASSUME NEW p \in Participants, Join(p)
      PROVE  NobodyStranded'
  BY <1>1, <1>3 DEF Join, NobodyStranded, TypeOK, windowVars
<1>4. ASSUME NEW w \in Workers, Promote(w)
      PROVE  NobodyStranded'
  <2> DEFINE p == Head(batch[w])
  <2>1. LetThrough(p) \/ UNCHANGED <<status, window>>
    BY <1>4 DEF Promote, tokenVars, windowVars
  <2> HIDE DEF p
  <2>2. CASE LetThrough(p)
    <3>1. PICK a \in 1..MaxWindows \ Named(p) : window' = [window EXCEPT ![p] = a]
      BY <2>2 DEF LetThrough, NewWindow
    <3>2. a # 0 /\ status' = [status EXCEPT ![p] = "ALLOWED"]
      BY <2>2, MaxWindowsAssumption DEF LetThrough
    <3> QED
      BY <1>1, <3>1, <3>2 DEF NobodyStranded, TypeOK
  <2> QED
    BY <1>2, <2>1, <2>2
<1>5. ASSUME NEW w \in Workers, NEW d \in due[w], ExpireOne(w, d[1], d[2])
      PROVE  NobodyStranded'
  <2> DEFINE p == d[1]
  <2>1. p \in Participants
    BY DEF TypeOK
  <2>2. /\ Requeue(p)
        /\ window' = [window EXCEPT ![p] = 0] \/ window' = window
    BY <1>5 DEF ExpireOne, CloseWindow, windowVars
  <2> HIDE DEF p
  <2>3. /\ status'[p] # "ALLOWED"
        /\ \A q \in Participants : q # p => status'[q] = status[q] /\ window'[q] = window[q]
    <3>1. CASE status[p] = "ALLOWED"
      BY <2>1, <2>2, <3>1 DEF Requeue, TypeOK
    <3>2. CASE status[p] # "ALLOWED"
      BY <2>1, <2>2, <3>2 DEF Requeue, TypeOK, tokenVars
    <3> QED
      BY <3>1, <3>2
  <2> QED
    BY <1>1, <2>1, <2>3 DEF NobodyStranded
<1>6. ASSUME NEW k \in Checkouts, ConsumeWindow(k)
      PROVE  NobodyStranded'
  <2>1. Buyer[k] \in ordered
    BY <1>6 DEF ConsumeWindow, HookAfterOrder
  <2>2. /\ status' = status
        /\ \A q \in Participants : q # Buyer[k] => window'[q] = window[q]
    BY <1>6, BuyerAssumption DEF ConsumeWindow, CloseWindow, TypeOK, windowVars, tokenVars
  <2> QED
    BY <1>1, <2>1, <2>2 DEF NobodyStranded
<1>7. ASSUME NEW k \in Checkouts, CompleteToken(k)
      PROVE  NobodyStranded'
  BY <1>1, <1>7 DEF CompleteToken, NobodyStranded, TypeOK, windowVars
<1>8. \/ UNCHANGED <<status, window>>
      \/ \E p \in Participants : Join(p)
      \/ \E w \in Workers : Promote(w) \/ \E d \in due[w] : ExpireOne(w, d[1], d[2])
      \/ \E k \in Checkouts : ConsumeWindow(k) \/ CompleteToken(k)
  BY DEF Next, SetState, SetRate, ReadControl, WriteControl, SaleStarts, WindowPasses,
         StartRelease, StartExpiry, CheckAdmission, PlaceOrder, ReadWindow, HookFails,
         vars, tokenVars, windowVars
<1> QED
  BY <1>2, <1>3, <1>4, <1>5, <1>6, <1>7, <1>8

\* The invariant the theorems below rest on.
THEOREM InductiveInvariant == Spec => []IInv
<1>1. IInv /\ [Next]_vars => IInv'
  BY StepTypes, HookStep, StrandedStep DEF IInv
<1> QED
  BY <1>1, InitIInv, PTL DEF Spec

\* TypeOK, whatever the number of workers: in particular the line holds exactly
\* the WAITING tokens after any mix of stale releases, expiries and hooks.
THEOREM TypeCorrect == Spec => []TypeOK
BY InductiveInvariant, PTL DEF IInv

\* ProcessExpired never leaves a participant through the gate without a window.
THEOREM NeverStranded == Spec => []NobodyStranded
BY InductiveInvariant, PTL DEF IInv

\* MarkAllowed, RequeueToken and CompleteToken move a token only along its life cycle.
THEOREM LifecycleRespected == Spec => TokenLifecycle
<1> DEFINE Moves == \A p \in Participants : status'[p] # status[p] =>
        CASE status[p] = "NONE"      -> status'[p] = "WAITING"
          [] status[p] = "WAITING"   -> status'[p] = "ALLOWED"
          [] status[p] = "ALLOWED"   -> \/ status'[p] = "WAITING"
                                        \/ status'[p] = "COMPLETED" /\ p \in ordered
          [] status[p] = "COMPLETED" -> FALSE
<1>1. ASSUME IInv, Next PROVE Moves
  <2> USE DEF IInv, TypeOK
  <2>1. CASE UNCHANGED status
    BY <2>1
  <2>2. ASSUME NEW p \in Participants, Join(p) PROVE Moves
    BY <1>1, <2>2 DEF Join
  <2>3. ASSUME NEW w \in Workers, Promote(w) PROVE Moves
    BY <1>1, <2>3 DEF Promote, LetThrough, tokenVars
  <2>4. ASSUME NEW w \in Workers, NEW d \in due[w], ExpireOne(w, d[1], d[2]) PROVE Moves
    BY <1>1, <2>4 DEF ExpireOne, Requeue, tokenVars
  <2>5. ASSUME NEW k \in Checkouts, CompleteToken(k) PROVE Moves
    <3>1. Buyer[k] \in ordered
      BY <1>1, <2>5 DEF CompleteToken, HookAfterOrder
    <3> QED
      BY <1>1, <2>5, <3>1 DEF CompleteToken
  <2>6. \/ UNCHANGED status
        \/ \E p \in Participants : Join(p)
        \/ \E w \in Workers : Promote(w) \/ \E d \in due[w] : ExpireOne(w, d[1], d[2])
        \/ \E k \in Checkouts : CompleteToken(k)
    BY <1>1 DEF Next, SetState, SetRate, ReadControl, WriteControl, SaleStarts,
         WindowPasses, StartRelease, StartExpiry, CheckAdmission, PlaceOrder, ReadWindow,
         ConsumeWindow, HookFails, tokenVars
  <2> QED
    BY <2>1, <2>2, <2>3, <2>4, <2>5, <2>6
<1>2. IInv /\ [Next]_vars => [Moves]_vars
  BY <1>1
<1> QED
  BY <1>2, InductiveInvariant, PTL DEF Spec, TokenLifecycle
=============================================================================
