----------------------- MODULE ExecutionEngineProofs -----------------------
(***************************************************************************)
(* Theorems about ExecutionEngine, for any orders, any window and limit of *)
(* the throttle, and any crashes and lost or torn appends.                 *)
(***************************************************************************)
EXTENDS ExecutionEngine, WellFoundedInduction, TLAPS

\* A set of naturals that is not empty has a least element.
LEMMA LeastElement ==
  ASSUME NEW S, S \subseteq Nat, S # {}
  PROVE  \E m \in S : \A k \in S : m <= k
<1>1. PICK m \in S : \A k \in S : <<k, m>> \notin OpToRel(<, Nat)
  BY NatLessThanWellFounded, WFMin
<1>2. \A k \in S : ~ (k < m)
  BY <1>1 DEF OpToRel
<1> QED BY <1>2

-----------------------------------------------------------------------------
(* The rolling window *)

\* Dropping the leading old elements leaves a suffix, and all that went was old.
LEMMA DroppedIsSuffix ==
  ASSUME NEW S, NEW q \in Seq(S), NEW Old
  PROVE  \E k \in 0 .. Len(q) :
           /\ Dropped(q, Old) = SubSeq(q, k + 1, Len(q))
           /\ \A i \in 1 .. k : q[i] \in Old
<1> DEFINE Keep == {i \in 1 .. Len(q) : q[i] \notin Old}
<1>1. \E k \in 0 .. Len(q) : IsLeading(q, Old, k)
  <2>1. CASE Keep = {}
    BY <2>1 DEF IsLeading
  <2>2. CASE Keep # {}
    <3>1. PICK m \in Keep : \A k \in Keep : m <= k
      <4> Keep \subseteq Nat
        OBVIOUS
      <4> HIDE DEF Keep
      <4> QED BY <2>2, LeastElement
    <3>2. m - 1 \in 0 .. Len(q) /\ (m - 1) + 1 = m /\ \A i \in 1 .. m - 1 : i \notin Keep /\ i \in 1 .. Len(q)
      BY <3>1
    <3> QED BY <3>1, <3>2 DEF IsLeading
  <2> QED BY <2>1, <2>2
<1>2. Leading(q, Old) \in 0 .. Len(q) /\ IsLeading(q, Old, Leading(q, Old))
  BY <1>1 DEF Leading
<1> QED BY <1>2 DEF Dropped, IsLeading

\* The timestamps the throttle holds are the last grants; those it let go are
\* older than the window.
ThrottleOK ==
  /\ cancels \in Seq(Nat) /\ granted \in Seq(Nat)
  /\ Len(cancels) <= Len(granted)
  /\ \A i \in 1 .. Len(cancels) : cancels[i] = granted[Len(granted) - Len(cancels) + i]
  /\ \A i \in 1 .. Len(granted) - Len(cancels) : granted[i] < now - Window

\* Evicting keeps this.
LEMMA EvictedIsSuffix ==
  ASSUME ThrottleOK, now \in Nat, NEW q, q = _evict_expired(cancels)
  PROVE  /\ q \in Seq(Nat) /\ Len(q) <= Len(cancels)
         /\ \A i \in 1 .. Len(q) : q[i] = granted[Len(granted) - Len(q) + i]
         /\ \A i \in 1 .. Len(granted) - Len(q) : granted[i] < now - Window
<1> DEFINE Old == {t \in 0 .. now : t < now - Window}
           n == Len(granted)
           m == Len(cancels)
<1>1. PICK k \in 0 .. m : q = SubSeq(cancels, k + 1, m) /\ \A i \in 1 .. k : cancels[i] \in Old
  <2> HIDE DEF Old
  <2>1. cancels \in Seq(Nat)
    BY DEF ThrottleOK
  <2> QED BY <2>1, DroppedIsSuffix DEF _evict_expired, Old
<1>2. cancels \in Seq(Nat) /\ n \in Nat /\ m \in Nat /\ m <= n
  BY DEF ThrottleOK
<1>3. q \in Seq(Nat) /\ Len(q) = m - k /\ \A i \in 1 .. m - k : q[i] = cancels[k + i]
  BY <1>1, <1>2
<1>4. ASSUME NEW i \in 1 .. m - k PROVE q[i] = granted[n - (m - k) + i]
  <2>1. k + i \in 1 .. m /\ n - m + (k + i) = n - (m - k) + i
    BY <1>2
  <2> QED BY <1>3, <2>1 DEF ThrottleOK
<1>5. ASSUME NEW i \in 1 .. n - (m - k) PROVE granted[i] < now - Window
  <2>1. CASE i \in 1 .. n - m
    BY <2>1 DEF ThrottleOK
  <2>2. CASE i \notin 1 .. n - m
    <3>1. PICK j : j = i - (n - m)
      OBVIOUS
    <3>2. j \in 1 .. k /\ j \in 1 .. m /\ n - m + j = i
      BY <1>2, <2>2, <3>1
    <3>3. granted[i] = cancels[j] /\ cancels[j] \in Old
      BY <1>1, <3>2 DEF ThrottleOK
    <3> QED BY <3>3
  <2> QED BY <2>1, <2>2
<1> QED BY <1>2, <1>3, <1>4, <1>5

-----------------------------------------------------------------------------
(* The log *)

Bad == {Torn, Broken}
Line == Event \cup Bad

Whole(w) == \A i \in 1 .. Len(w) : w[i] \notin Bad

\* The lines before the first that cannot be read.
Readable(w) == {i \in 1 .. Len(w) : \A j \in 1 .. i : w[j] \notin Bad}

\* The orders whose order_new can be read.
Logged(w) == UNION {Tracks(w[i]) : i \in Readable(w)}

LEMMA ReplayReads ==
  ASSUME NEW w \in Seq(Line)
  PROVE  UNION {Tracks(replay_events(w)[i]) : i \in DOMAIN replay_events(w)} = Logged(w)
<1> DEFINE bad == {i \in DOMAIN w : w[i] \in Bad}
           r == replay_events(w)
<1>1. DOMAIN w = 1 .. Len(w) /\ Len(w) \in Nat
  OBVIOUS
<1>2. DOMAIN r = Readable(w) /\ \A i \in DOMAIN r : r[i] = w[i]
  <2>1. CASE bad = {}
    <3>1. r = w
      BY <2>1 DEF replay_events, Bad
    <3> QED BY <1>1, <2>1, <3>1 DEF Readable
  <2>2. CASE bad # {}
    <3>1. \E m \in bad : \A k \in bad : m <= k
      <4>1. bad \subseteq Nat
        BY <1>1
      <4> HIDE DEF bad
      <4> QED BY <2>2, <4>1, LeastElement
    <3>2. PICK m \in bad : (\A k \in bad : m <= k) /\ r = SubSeq(w, 1, m - 1)
      <4>1. r = SubSeq(w, 1, (CHOOSE i \in bad : \A j \in bad : i <= j) - 1)
        BY <2>2 DEF replay_events, Bad
      <4> HIDE DEF bad, r
      <4> QED BY <3>1, <4>1
    <3>3. m \in 1 .. Len(w) /\ w[m] \in Bad
      BY <1>1, <3>2
    <3>4. DOMAIN r = 1 .. m - 1 /\ \A i \in 1 .. m - 1 : r[i] = w[i]
      <4> HIDE DEF r, bad
      <4> QED BY <3>2, <3>3
    <3>5. \A i \in 1 .. m - 1 : i \in 1 .. Len(w) /\ w[i] \notin Bad
      <4>1. \A i \in 1 .. m - 1 : i \in 1 .. Len(w) /\ ~ (m <= i)
        BY <3>3
      <4> QED BY <1>1, <3>2, <4>1
    <3>6. Readable(w) = 1 .. m - 1
      <4>1. ASSUME NEW i \in 1 .. m - 1 PROVE i \in Readable(w)
        <5>1. \A j \in 1 .. i : j \in 1 .. m - 1
          BY <3>3
        <5> QED BY <3>5, <5>1 DEF Readable
      <4>2. ASSUME NEW i \in Readable(w) PROVE i \in 1 .. m - 1
        BY <3>3 DEF Readable
      <4> QED BY <4>1, <4>2
    <3> HIDE DEF r
    <3> QED BY <3>4, <3>6
  <2> QED BY <2>1, <2>2
<1> HIDE DEF r
<1>3. UNION {Tracks(r[i]) : i \in DOMAIN r} = Logged(w)
  BY <1>2 DEF Logged
<1> QED BY <1>3 DEF r

LEMMA LinesDiffer ==
  /\ Torn \notin Event /\ Broken \notin Event /\ Torn # Broken
  /\ Tracks(Torn) = {} /\ Tracks(Broken) = {}
<1>1. Torn.type = "torn" /\ Broken.type = "broken"
  BY DEF Torn, Broken
<1>2. \A e \in Event : e.type \in {"order_new", "order_report"}
  BY DEF Event
<1> QED BY <1>1, <1>2 DEF Tracks

\* What is readable stays readable; an append adds at most its event, and does
\* add it to a log that is whole.
LEMMA AppendLogs ==
  ASSUME NEW w \in Seq(Line), NEW e \in Event \cup {Torn}, NEW x, x = append_event(w, e)
  PROVE  /\ x \in Seq(Line) /\ x # <<>> /\ Len(x) <= Len(w) + 1
         /\ Logged(w) \subseteq Logged(x) /\ Logged(x) \subseteq Logged(w) \cup Tracks(e)
         /\ Whole(w) /\ e \in Event => Whole(x) /\ Logged(x) = Logged(w) \cup Tracks(e)
<1> DEFINE n == Len(w)
<1>1. n \in Nat
  OBVIOUS
<1>2. CASE w = <<>> \/ Last(w) # Torn
  <2>1. x = Append(w, e) /\ e \in Line
    BY <1>2 DEF append_event, Line, Bad
  <2>2. x \in Seq(Line) /\ Len(x) = n + 1 /\ x[n + 1] = e /\ \A i \in 1 .. n : x[i] = w[i] /\ i \in 1 .. n + 1
    BY <2>1
  <2>3. Readable(w) \subseteq Readable(x)
    <3>1. SUFFICES ASSUME NEW i \in Readable(w) PROVE i \in Readable(x)
      OBVIOUS
    <3>2. i \in 1 .. n /\ \A j \in 1 .. i : j \in 1 .. n /\ w[j] \notin Bad
      BY DEF Readable
    <3> QED BY <2>2, <3>2 DEF Readable
  <2>4. Readable(x) \subseteq Readable(w) \cup {n + 1}
    <3>1. SUFFICES ASSUME NEW i \in Readable(x), i # n + 1 PROVE i \in Readable(w)
      OBVIOUS
    <3>2. i \in 1 .. n + 1 /\ \A j \in 1 .. i : x[j] \notin Bad
      BY <2>2 DEF Readable
    <3>3. i \in 1 .. n /\ \A j \in 1 .. i : j \in 1 .. n
      BY <1>1, <3>1, <3>2
    <3> QED BY <2>2, <3>2, <3>3 DEF Readable
  <2>5. \A i \in Readable(w) : x[i] = w[i]
    BY <2>2 DEF Readable
  <2>6. Logged(w) \subseteq Logged(x) /\ Logged(x) \subseteq Logged(w) \cup Tracks(e)
    BY <2>2, <2>3, <2>4, <2>5 DEF Logged
  <2>7. ASSUME Whole(w), e \in Event PROVE Whole(x) /\ Logged(x) = Logged(w) \cup Tracks(e)
    <3>1. e \notin Bad
      BY <2>7, LinesDiffer DEF Bad
    <3>2. \A i \in 1 .. n + 1 : i \in 1 .. n \/ i = n + 1
      BY <1>1
    <3>3. \A i \in 1 .. n + 1 : x[i] \notin Bad
      BY <2>2, <2>7, <3>1, <3>2 DEF Whole
    <3>4. n + 1 \in Readable(x)
      BY <1>1, <2>2, <3>3 DEF Readable
    <3> QED BY <2>2, <2>6, <3>3, <3>4 DEF Whole, Logged
  <2>8. x # <<>>
    BY <1>1, <2>2
  <2> QED BY <2>2, <2>6, <2>7, <2>8
<1>3. CASE w # <<>> /\ Last(w) = Torn
  <2>1. PICK b \in Bad : x = Append(Front(w), b)
    BY <1>3 DEF append_event, Bad
  <2>2. n > 0 /\ w[n] \in Bad /\ Front(w) = SubSeq(w, 1, n - 1)
    BY <1>3 DEF Last, Front, Bad
  <2>3. Front(w) \in Seq(Line) /\ Len(Front(w)) = n - 1 /\ \A i \in 1 .. n - 1 : Front(w)[i] = w[i]
    <3>1. PICK f : f = Front(w)
      OBVIOUS
    <3>2. n > 0 /\ f = SubSeq(w, 1, n - 1)
      BY <2>2, <3>1
    <3>3. f \in Seq(Line) /\ Len(f) = n - 1 /\ \A i \in 1 .. n - 1 : f[i] = w[i]
      <4>1. PICK k \in 0 .. n : k = n - 1 /\ f = SubSeq(w, 1, k)
        BY <1>1, <3>2
      <4>2. \A i \in 1 .. k : w[i] \in Line
        BY <1>1
      <4>3. f \in Seq(Line)
        BY <4>1, <4>2
      <4>4. Len(f) = k /\ \A i \in 1 .. k : f[i] = w[i]
        BY <4>1
      <4> QED BY <4>1, <4>3, <4>4
    <3> QED BY <3>1, <3>3
  <2>4. x \in Seq(Line) /\ Len(x) = n /\ x[n] = b /\ \A i \in 1 .. n - 1 : x[i] = w[i]
    <3>1. b \in Line
      BY DEF Line
    <3> HIDE DEF n
    <3> QED BY <1>1, <2>1, <2>3, <3>1
  <2>5. Readable(x) = Readable(w) /\ \A i \in Readable(w) : x[i] = w[i]
    <3>1. ASSUME NEW i \in 1 .. n PROVE i = n \/ (i \in 1 .. n - 1 /\ \A j \in 1 .. i : x[j] = w[j])
      <4>1. i # n => i \in 1 .. n - 1 /\ \A j \in 1 .. i : j \in 1 .. n - 1
        BY <1>1
      <4> QED BY <2>4, <4>1
    <3>2. n \notin Readable(w) /\ n \notin Readable(x)
      BY <1>1, <2>2, <2>4 DEF Readable
    <3> QED BY <2>4, <3>1, <3>2 DEF Readable
  <2>6. Logged(x) = Logged(w)
    BY <2>5 DEF Logged
  <2>7. ~ Whole(w) /\ x # <<>>
    BY <1>1, <2>2, <2>4 DEF Whole
  <2> QED BY <1>1, <2>4, <2>6, <2>7
<1> QED BY <1>2, <1>3

-----------------------------------------------------------------------------
(* The invariant *)

Known(t) == t.open \cup t.closed

\* The tracker knows what the log tells, and of the event still to be appended;
\* while no append was lost, the log tells all that was ever appended.
LogOK ==
  /\ wal \in Seq(Line)
  /\ pending # None => Len(wal) < MaxWal /\ Tracks(pending) \subseteq Known(tracker)
  /\ Logged(wal) \subseteq Known(tracker)
  /\ ~ missed => Whole(wal) /\ ever \subseteq Logged(wal)

\* The inductive invariant.
IInv == TypeOK /\ LogOK /\ ThrottleOK /\ CancelWindow

\* Its part about the engine and its log, and its part about the throttle.
EngineOK ==
  /\ tracker \in T!Tracker /\ pending \in Event \cup {None}
  /\ Len(wal) <= MaxWal /\ ever \subseteq Cid /\ missed \in BOOLEAN
  /\ LogOK

WindowOK ==
  /\ now \in 0 .. MaxTime /\ Len(cancels) <= MaxCancels
  /\ \A i \in 1 .. Len(granted) : granted[i] \in 0 .. now
  /\ ThrottleOK /\ CancelWindow

LEMMA TwoParts == IInv <=> EngineOK /\ WindowOK
<1>1. wal \in Seq(Line) => /\ DOMAIN wal = 1 .. Len(wal)
                           /\ \A i \in DOMAIN wal : wal[i] \in Event \cup {Torn, Broken}
  BY DEF Line, Bad
<1>2. ThrottleOK => DOMAIN cancels = 1 .. Len(cancels) /\ DOMAIN granted = 1 .. Len(granted)
  BY DEF ThrottleOK
<1>3. ASSUME ThrottleOK, \A i \in 1 .. Len(granted) : granted[i] \in 0 .. now
      PROVE  \A i \in 1 .. Len(cancels) : cancels[i] \in 0 .. now
  <2>1. SUFFICES ASSUME NEW i \in 1 .. Len(cancels) PROVE cancels[i] \in 0 .. now
    OBVIOUS
  <2>2. Len(granted) - Len(cancels) + i \in 1 .. Len(granted)
    BY <1>3 DEF ThrottleOK
  <2> QED BY <1>3, <2>2 DEF ThrottleOK
<1>4. LogOK => wal \in Seq(Line)
  BY DEF LogOK
<1>5. IInv => EngineOK
  BY DEF IInv, TypeOK, EngineOK
<1>6. IInv => WindowOK
  BY <1>2 DEF IInv, TypeOK, WindowOK
<1>7. EngineOK /\ WindowOK => TypeOK
  BY <1>1, <1>2, <1>3, <1>4 DEF EngineOK, WindowOK, TypeOK
<1> QED BY <1>5, <1>6, <1>7 DEF IInv, EngineOK, WindowOK

-----------------------------------------------------------------------------
(* The steps of the engine *)

LEMMA TrackStep ==
  ASSUME EngineOK, NEW c \in Cid, track_order(c)
  PROVE  EngineOK'
<1>1. /\ pending' = [type |-> "order_new", order |-> c] /\ Len(wal) < MaxWal
      /\ tracker' = T!track_order(tracker, c) /\ UNCHANGED <<wal, history>>
  BY DEF track_order
<1>2. /\ tracker' \in T!Tracker /\ Known(tracker') = Known(tracker) \cup {c}
  BY <1>1 DEF EngineOK, T!track_order, T!Tracker, Known
<1>3. pending' \in Event /\ Tracks(pending') = {c}
  BY <1>1 DEF Event, Tracks
<1> QED BY <1>1, <1>2, <1>3 DEF EngineOK, LogOK, history

LEMMA ReportStep ==
  ASSUME EngineOK, NEW c \in Cid, NEW accepted \in BOOLEAN, NEW byExchange \in BOOLEAN,
         NEW f \in 0 .. Qty, on_order_report(c, accepted, byExchange, f)
  PROVE  EngineOK'
<1>1. PICK s \in T!OrderStatus :
        /\ tracker' = IF T!Accepts(tracker, c, TRUE, byExchange, s)
                        THEN T!on_report(tracker, c, byExchange, s, f) ELSE tracker
        /\ pending' = [type |-> "order_report", order |-> c]
        /\ Len(wal) < MaxWal /\ UNCHANGED <<wal, history>>
  <2>1. "NEW" \in T!OrderStatus /\ "REJECTED" \in T!OrderStatus
    BY DEF T!OrderStatus
  <2> QED BY <2>1, Zenon DEF on_order_report
<1>2. /\ tracker.open \in SUBSET Cid /\ tracker.closed \in SUBSET Cid
      /\ tracker.status \in [Cid -> T!OrderStatus] /\ tracker.filled \in [Cid -> 0 .. Qty]
      /\ tracker.bound \in SUBSET Cid /\ tracker.mapped \in SUBSET Cid
  BY DEF EngineOK, T!Tracker
<1>3. tracker' \in T!Tracker /\ Known(tracker) \subseteq Known(tracker')
  <2>1. CASE tracker' = tracker
    BY <2>1 DEF EngineOK
  <2>2. CASE tracker' = T!on_report(tracker, c, byExchange, s, f)
    <3>1. T!LargerFill(tracker, c, f) \in 0 .. Qty
      BY <1>2, EngineAssumption DEF T!LargerFill
    <3>2. /\ tracker'.open \in {tracker.open, tracker.open \ {c}}
          /\ tracker'.closed \in {tracker.closed, tracker.closed \cup {c}}
          /\ Known(tracker) \subseteq Known(tracker')
      BY <2>2 DEF T!on_report, Known
    <3>3. /\ tracker'.status = [tracker.status EXCEPT ![c] = s]
          /\ tracker'.filled = [tracker.filled EXCEPT ![c] = T!LargerFill(tracker, c, f)]
      BY <2>2 DEF T!on_report
    <3>4. /\ tracker'.bound \subseteq tracker.bound \cup {c}
          /\ tracker'.mapped \subseteq tracker.mapped \cup {c}
      BY <2>2 DEF T!on_report
    <3>5. tracker' = [open |-> tracker'.open, closed |-> tracker'.closed,
                      status |-> tracker'.status, filled |-> tracker'.filled,
                      bound |-> tracker'.bound, mapped |-> tracker'.mapped]
      BY <2>2 DEF T!on_report
    <3>6. tracker'.status \in [Cid -> T!OrderStatus] /\ tracker'.filled \in [Cid -> 0 .. Qty]
      BY <1>2, <3>1, <3>3
    <3>7. /\ tracker'.open \in SUBSET Cid /\ tracker'.closed \in SUBSET Cid
          /\ tracker'.bound \in SUBSET Cid /\ tracker'.mapped \in SUBSET Cid
      BY <1>2, <3>2, <3>4
    <3> QED BY <3>2, <3>5, <3>6, <3>7 DEF T!Tracker
  <2> QED BY <1>1, <2>1, <2>2, Zenon
<1>4. pending' \in Event /\ Tracks(pending') = {}
  BY <1>1 DEF Event, Tracks
<1> QED BY <1>1, <1>3, <1>4 DEF EngineOK, LogOK, history

LEMMA AppendDoneStep == ASSUME EngineOK, AppendDone PROVE EngineOK'
<1>1. /\ pending \in Event /\ wal \in Seq(Line) /\ Len(wal) < MaxWal
      /\ Tracks(pending) \subseteq Known(tracker)
  BY DEF EngineOK, LogOK, AppendDone
<1>2. /\ wal' = append_event(wal, pending) /\ pending' = None /\ tracker' = tracker
      /\ ever' = ever \cup Tracks(pending)
      /\ missed' = (missed \/ Last(wal') = Broken)
  BY DEF AppendDone
<1>3. /\ wal' \in Seq(Line) /\ Len(wal') <= Len(wal) + 1
      /\ Logged(wal') \subseteq Logged(wal) \cup Tracks(pending)
      /\ Whole(wal) => Whole(wal') /\ Logged(wal') = Logged(wal) \cup Tracks(pending)
  BY <1>1, <1>2, AppendLogs
<1>4. Len(wal) \in Nat /\ Len(wal') \in Nat /\ Len(wal') <= MaxWal
  BY <1>1, <1>3, EngineAssumption
<1>5. ever' \subseteq Cid
  BY <1>1, <1>2 DEF EngineOK, Tracks, Event
<1>6. ~ missed' => ~ missed
  BY <1>2
<1>7. missed' \in BOOLEAN
  BY <1>2
<1>8. LogOK'
  BY <1>1, <1>2, <1>3, <1>6 DEF EngineOK, LogOK
<1> QED BY <1>2, <1>4, <1>5, <1>7, <1>8 DEF EngineOK

\* An append that fails, or that a crash cuts short, leaves at most a line
\* without its end.
LEMMA TornAppend ==
  ASSUME EngineOK, NEW torn \in BOOLEAN, torn => pending # None,
         wal' = IF torn THEN append_event(wal, Torn) ELSE wal
  PROVE  /\ wal' \in Seq(Line) /\ Len(wal') <= MaxWal /\ Logged(wal') = Logged(wal)
<1>1. wal \in Seq(Line) /\ Len(wal) <= MaxWal
  BY DEF EngineOK, LogOK
<1>2. CASE torn
  <2>1. wal' = append_event(wal, Torn) /\ Len(wal) < MaxWal
    BY <1>2 DEF EngineOK, LogOK
  <2>2. /\ wal' \in Seq(Line) /\ Len(wal') <= Len(wal) + 1
        /\ Logged(wal) \subseteq Logged(wal') /\ Logged(wal') \subseteq Logged(wal) \cup Tracks(Torn)
    BY <1>1, <2>1, AppendLogs
  <2>3. Len(wal) \in Nat /\ Len(wal') \in Nat
    BY <1>1, <2>2
  <2>4. Len(wal') <= MaxWal
    BY <2>1, <2>2, <2>3, EngineAssumption
  <2> QED BY <2>2, <2>4, LinesDiffer
<1>3. CASE ~ torn
  BY <1>1, <1>3
<1> QED BY <1>2, <1>3

LEMMA AppendFailsStep ==
  ASSUME EngineOK, NEW torn \in BOOLEAN, AppendFails(torn)
  PROVE  EngineOK'
<1>1. /\ wal' \in Seq(Line) /\ Len(wal') <= MaxWal /\ Logged(wal') = Logged(wal)
  BY TornAppend DEF AppendFails
<1>2. missed' = TRUE /\ pending' = None /\ UNCHANGED <<tracker, ever>>
  BY DEF AppendFails
<1>3. LogOK'
  BY <1>1, <1>2 DEF EngineOK, LogOK
<1>4. missed' \in BOOLEAN
  BY <1>2
<1> QED BY <1>1, <1>2, <1>3, <1>4 DEF EngineOK

\* What recovery tracks is what the log tells.
LEMMA RecoveredKnows ==
  ASSUME NEW w \in Seq(Line), NEW t, t = Recovered(w)
  PROVE  t \in T!Tracker /\ Known(t) = Logged(w)
<1>1. t = [T!EmptyTracker EXCEPT !.open = Logged(w)]
  BY ReplayReads DEF Recovered
<1>2. Logged(w) \subseteq Cid
  <2>1. ASSUME NEW i \in Readable(w) PROVE Tracks(w[i]) \subseteq Cid
    <3>1. i \in 1 .. Len(w) /\ w[i] \in Line /\ w[i] \notin Bad
      BY DEF Readable
    <3> QED BY <3>1 DEF Line, Tracks, Event
  <2> QED BY <2>1 DEF Logged
<1>3. /\ t = [open |-> Logged(w), closed |-> {}, status |-> [c \in Cid |-> "PENDING"],
              filled |-> [c \in Cid |-> 0], bound |-> {}, mapped |-> {}]
  BY <1>1 DEF T!EmptyTracker
<1>4. t \in T!Tracker
  BY <1>2, <1>3, EngineAssumption DEF T!Tracker, T!OrderStatus
<1> QED BY <1>3, <1>4 DEF Known

LEMMA CrashStep ==
  ASSUME EngineOK, NEW torn \in BOOLEAN, CrashAndRecover(torn)
  PROVE  EngineOK'
<1>1. /\ wal' \in Seq(Line) /\ Len(wal') <= MaxWal /\ Logged(wal') = Logged(wal)
  BY TornAppend DEF CrashAndRecover
<1>2. /\ tracker' = Recovered(wal') /\ pending' = None /\ ever' = ever
      /\ missed' = (missed \/ pending # None)
  BY DEF CrashAndRecover
<1>3. tracker' \in T!Tracker /\ Known(tracker') = Logged(wal')
  BY <1>1, <1>2, RecoveredKnows
<1>4. ~ missed' => ~ missed /\ wal' = wal
  BY <1>2 DEF CrashAndRecover
<1>5. missed' \in BOOLEAN
  BY <1>2
<1>6. LogOK'
  BY <1>1, <1>2, <1>3, <1>4 DEF EngineOK, LogOK
<1> QED BY <1>1, <1>2, <1>3, <1>5, <1>6 DEF EngineOK

-----------------------------------------------------------------------------
(* The steps of the throttle *)

LEMMA GrantStep ==
  ASSUME WindowOK, NEW created, CancelGranted(created)
  PROVE  WindowOK'
<1> DEFINE n == Len(granted)
<1>1. PICK q : q = _evict_expired(cancels)
  OBVIOUS
<1>2. /\ cancels' = Append(q, now) /\ granted' = Append(granted, now) /\ now' = now
      /\ Len(q) < MaxCancels
  BY <1>1 DEF CancelGranted, can_cancel
<1>3. now \in Nat /\ now \in 0 .. MaxTime
  BY EngineAssumption DEF WindowOK
<1>4. /\ q \in Seq(Nat) /\ Len(q) <= Len(cancels)
      /\ \A i \in 1 .. Len(q) : q[i] = granted[n - Len(q) + i]
      /\ \A i \in 1 .. n - Len(q) : granted[i] < now - Window
  BY <1>1, <1>3, EvictedIsSuffix DEF WindowOK
<1>5. /\ granted \in Seq(Nat) /\ cancels \in Seq(Nat) /\ Len(cancels) <= n
      /\ \A i \in 1 .. n : granted[i] \in 0 .. now
  BY DEF WindowOK, ThrottleOK
<1>6. n \in Nat /\ Len(q) \in Nat /\ Len(cancels) \in Nat /\ Len(q) <= n
  BY <1>4, <1>5
<1>7. /\ granted' \in Seq(Nat) /\ Len(granted') = n + 1 /\ granted'[n + 1] = now
      /\ \A i \in 1 .. n : granted'[i] = granted[i]
  BY <1>2, <1>3, <1>5
<1>8. /\ cancels' \in Seq(Nat) /\ Len(cancels') = Len(q) + 1 /\ cancels'[Len(q) + 1] = now
      /\ \A i \in 1 .. Len(q) : cancels'[i] = q[i]
  BY <1>2, <1>3, <1>4
<1> HIDE DEF n
<1>9. \A i \in 1 .. n + 1 : i \in 1 .. n \/ i = n + 1
  BY <1>6
<1>10. ThrottleOK'
  <2>1. Len(granted') - Len(cancels') = n - Len(q)
    BY <1>6, <1>7, <1>8
  <2>2. ASSUME NEW i \in 1 .. Len(q) + 1 PROVE cancels'[i] = granted'[n - Len(q) + i]
    <3>1. CASE i = Len(q) + 1
      BY <1>6, <1>7, <1>8, <3>1
    <3>2. CASE i # Len(q) + 1
      <4>1. i \in 1 .. Len(q) /\ n - Len(q) + i \in 1 .. n
        BY <1>6, <3>2
      <4> QED BY <1>4, <1>7, <1>8, <4>1
    <3> QED BY <3>1, <3>2
  <2>3. ASSUME NEW i \in 1 .. n - Len(q) PROVE granted'[i] < now - Window
    <3>1. i \in 1 .. n
      BY <1>6
    <3> QED BY <1>4, <1>7, <3>1
  <2>4. Len(cancels') <= Len(granted')
    BY <1>6, <1>7, <1>8
  <2> QED BY <1>2, <1>7, <1>8, <2>1, <2>2, <2>3, <2>4 DEF ThrottleOK
<1>11. ASSUME NEW i \in 1 .. n + 1 PROVE granted'[i] \in 0 .. now
  <2>1. CASE i \in 1 .. n
    BY <1>5, <1>7, <2>1
  <2>2. CASE i = n + 1
    BY <1>3, <1>7, <2>2
  <2> QED BY <1>9, <2>1, <2>2
<1>12. Len(cancels') <= MaxCancels
  BY <1>2, <1>6, <1>8, EngineAssumption
<1>13. CancelWindow'
  <2>1. DOMAIN granted = 1 .. n /\ DOMAIN granted' = 1 .. n + 1
    BY <1>5, <1>7 DEF n
  <2>2. SUFFICES ASSUME NEW i \in 1 .. n + 1, i + MaxCancels \in 1 .. n + 1
                 PROVE  granted'[i + MaxCancels] - granted'[i] > Window
    BY <2>1 DEF CancelWindow
  <2>3. i \in 1 .. n
    BY <1>6, <2>2, EngineAssumption
  <2>4. CASE i + MaxCancels \in 1 .. n
    <3>1. granted[i + MaxCancels] - granted[i] > Window
      BY <2>1, <2>3, <2>4 DEF WindowOK, CancelWindow
    <3> QED BY <1>7, <2>3, <2>4, <3>1
  <2>5. CASE i + MaxCancels = n + 1
    <3>1. i \in 1 .. n - Len(q)
      BY <1>2, <1>6, <2>3, <2>5, EngineAssumption
    <3>2. granted[i] < now - Window /\ granted[i] \in Nat
      BY <1>3, <1>4, <1>5, <2>3, <3>1
    <3>3. granted'[i + MaxCancels] = now /\ granted'[i] = granted[i]
      BY <1>7, <2>3, <2>5
    <3>4. now - granted[i] > Window
      BY <1>3, <3>2, EngineAssumption
    <3> QED BY <3>3, <3>4
  <2> QED BY <1>9, <2>2, <2>4, <2>5
<1> QED BY <1>2, <1>3, <1>7, <1>10, <1>11, <1>12, <1>13 DEF WindowOK

LEMMA RefuseStep ==
  ASSUME WindowOK, NEW created, CancelRefused(created)
  PROVE  WindowOK'
<1>1. PICK q : q = _evict_expired(cancels)
  OBVIOUS
<1>2. cancels' = q /\ UNCHANGED <<granted, now>>
  BY <1>1 DEF CancelRefused
<1>3. now \in Nat
  BY EngineAssumption DEF WindowOK
<1>4. /\ q \in Seq(Nat) /\ Len(q) <= Len(cancels)
      /\ \A i \in 1 .. Len(q) : q[i] = granted[Len(granted) - Len(q) + i]
      /\ \A i \in 1 .. Len(granted) - Len(q) : granted[i] < now - Window
  BY <1>1, <1>3, EvictedIsSuffix DEF WindowOK
<1>5. /\ Len(q) \in Nat /\ Len(cancels) \in Nat /\ Len(granted) \in Nat
      /\ Len(cancels) <= Len(granted) /\ Len(cancels) <= MaxCancels
  BY <1>4 DEF WindowOK, ThrottleOK
<1>6. Len(q) <= Len(granted) /\ Len(q) <= MaxCancels
  BY <1>4, <1>5, EngineAssumption
<1>7. ThrottleOK'
  BY <1>2, <1>4, <1>6 DEF WindowOK, ThrottleOK
<1> QED BY <1>2, <1>6, <1>7 DEF WindowOK, CancelWindow

LEMMA TickStep == ASSUME WindowOK, Tick PROVE WindowOK'
<1>1. now' = now + 1 /\ now < MaxTime /\ UNCHANGED <<cancels, granted>>
  BY DEF Tick, throttle
<1>2. now \in Nat /\ now' \in 0 .. MaxTime
  BY <1>1, EngineAssumption DEF WindowOK
<1>3. /\ granted \in Seq(Nat) /\ Len(granted) \in Nat /\ Len(cancels) \in Nat
      /\ \A i \in 1 .. Len(granted) - Len(cancels) : granted[i] < now - Window /\ i \in 1 .. Len(granted)
  BY DEF WindowOK, ThrottleOK
<1>4. PICK m : m = now'
  OBVIOUS
<1>5. ASSUME NEW i \in 1 .. Len(granted) PROVE granted[i] \in 0 .. m
  <2>1. granted[i] \in 0 .. now
    BY DEF WindowOK
  <2> QED BY <1>1, <1>2, <1>4, <2>1
<1>6. ASSUME NEW i \in 1 .. Len(granted) - Len(cancels) PROVE granted[i] < m - Window
  <2>1. granted[i] \in Nat /\ granted[i] < now - Window
    BY <1>3
  <2> QED BY <1>1, <1>2, <1>4, <2>1, EngineAssumption
<1>7. ThrottleOK'
  BY <1>1, <1>4, <1>6 DEF WindowOK, ThrottleOK
<1> QED BY <1>1, <1>2, <1>4, <1>5, <1>7 DEF WindowOK, CancelWindow

\* A new process has granted nothing.
LEMMA NewThrottle ==
  ASSUME now' \in 0 .. MaxTime, cancels' = <<>>, granted' = <<>> PROVE WindowOK'
BY EngineAssumption DEF WindowOK, ThrottleOK, CancelWindow

-----------------------------------------------------------------------------
(* The theorems *)

LEMMA InitInv == Init => IInv
<1> SUFFICES ASSUME Init PROVE IInv
  OBVIOUS
<1>1. /\ tracker = T!EmptyTracker /\ pending = None /\ wal = <<>>
      /\ cancels = <<>> /\ now = 0 /\ granted = <<>> /\ ever = {}
  BY DEF Init
<1>2. missed \in BOOLEAN
  BY DEF Init
<1>3. tracker \in T!Tracker
  BY <1>1, EngineAssumption DEF T!EmptyTracker, T!Tracker, T!OrderStatus
<1>4. wal \in Seq(Line) /\ Len(wal) = 0 /\ Logged(wal) = {} /\ Whole(wal)
  BY <1>1 DEF Logged, Readable, Whole
<1>5. EngineOK
  BY <1>1, <1>2, <1>3, <1>4, EngineAssumption DEF EngineOK, LogOK
<1>6. WindowOK
  BY <1>1, EngineAssumption DEF WindowOK, ThrottleOK, CancelWindow
<1> QED BY <1>5, <1>6, TwoParts

LEMMA NextStep == ASSUME IInv, [Next]_vars PROVE IInv'
<1>1. EngineOK /\ WindowOK
  BY TwoParts
<1>2. ASSUME UNCHANGED <<cancels, granted, now>> PROVE WindowOK'
  BY <1>1, <1>2 DEF WindowOK, ThrottleOK, CancelWindow
<1>3. ASSUME UNCHANGED <<engine, wal, history>> PROVE EngineOK'
  BY <1>1, <1>3 DEF engine, history, EngineOK, LogOK
<1>5. EngineOK' /\ WindowOK'
  <2>1. ASSUME NEW c \in Cid, track_order(c) PROVE EngineOK' /\ WindowOK'
    BY <1>1, <1>2, <2>1, TrackStep DEF track_order, throttle
  <2>2. ASSUME NEW c \in Cid, NEW accepted \in BOOLEAN, NEW byExchange \in BOOLEAN,
               NEW f \in 0 .. Qty, on_order_report(c, accepted, byExchange, f)
        PROVE  EngineOK' /\ WindowOK'
    <3>1. UNCHANGED <<cancels, granted, now>>
      BY <2>2 DEF on_order_report, throttle
    <3> QED BY <1>1, <1>2, <2>2, <3>1, ReportStep
  <2>3. CASE AppendDone
    BY <1>1, <1>2, <2>3, AppendDoneStep DEF AppendDone, throttle
  <2>4. ASSUME NEW torn \in BOOLEAN, AppendFails(torn) PROVE EngineOK' /\ WindowOK'
    BY <1>1, <1>2, <2>4, AppendFailsStep DEF AppendFails, throttle
  <2>5. ASSUME NEW torn \in BOOLEAN, CrashAndRecover(torn) PROVE EngineOK' /\ WindowOK'
    <3>1. now' \in 0 .. MaxTime /\ cancels' = <<>> /\ granted' = <<>>
      BY <1>1, <2>5 DEF CrashAndRecover, WindowOK
    <3> QED BY <1>1, <2>5, <3>1, CrashStep, NewThrottle
  <2>6. ASSUME NEW created \in 0 .. MaxTime, CancelGranted(created) PROVE EngineOK' /\ WindowOK'
    BY <1>1, <1>3, <2>6, GrantStep DEF CancelGranted
  <2>7. ASSUME NEW created \in 0 .. MaxTime, CancelRefused(created) PROVE EngineOK' /\ WindowOK'
    BY <1>1, <1>3, <2>7, RefuseStep DEF CancelRefused
  <2>8. CASE Tick
    BY <1>1, <1>3, <2>8, TickStep DEF Tick
  <2>9. CASE UNCHANGED vars
    BY <1>2, <1>3, <2>9 DEF vars, throttle
  <2> QED BY <2>1, <2>2, <2>3, <2>4, <2>5, <2>6, <2>7, <2>8, <2>9 DEF Next
<1>6. EngineOK' /\ WindowOK' => IInv'
  BY TwoParts, PTL
<1> QED BY <1>5, <1>6

\* The invariant holds across any crashes.
THEOREM Invariance == Spec => []IInv
<1>1. IInv /\ [Next]_vars => IInv'
  BY NextStep
<1> QED BY InitInv, <1>1, PTL DEF Spec

\* Types; the throttle never holds more timestamps than its limit.
THEOREM TypeCorrect == Spec => []TypeOK
<1>1. IInv => TypeOK
  BY DEF IInv
<1> QED BY <1>1, Invariance, PTL

\* Every order whose order_new can be read from the log is known, and all that
\* were ever logged are, unless an append was lost or cut short.
THEOREM RecoveryKnows == Spec => []RecoveryKnowsOrders
<1>1. IInv => RecoveryKnowsOrders
  BY ReplayReads DEF IInv, LogOK, Known, RecoveryKnowsOrders
<1> QED BY <1>1, Invariance, PTL

\* Any MaxCancels + 1 cancellations that one process grants span more than the
\* window.
THEOREM WindowProtects == Spec => []CancelWindow
<1>1. IInv => CancelWindow
  BY DEF IInv
<1> QED BY <1>1, Invariance, PTL
=============================================================================
