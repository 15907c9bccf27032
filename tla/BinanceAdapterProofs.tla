------------------------ MODULE BinanceAdapterProofs ------------------------
(***************************************************************************)
(* Theorems about BinanceAdapter, for any orders, any quantity, any number *)
(* of retries and restarts and a user stream of any length.                *)
(*                                                                         *)
(* The invariant relates the tracker, the venue and the stream.  Its parts *)
(* are operators on the three, so that a step which moves the venue and    *)
(* then the tracker is two lemmas, one after the other.                    *)
(***************************************************************************)
EXTENDS BinanceAdapter, FiniteSetTheorems, TLAPS

Status == T!OrderStatus \cup {"NONE"}

Held(t) == t.open \cup t.closed

\* A tracker as the adapter may hold it: what is closed is what ended, and an
\* order that it does not hold has neither status nor fill.
TrackerOK(t) ==
  /\ t \in T!Tracker
  /\ t.open \cap t.closed = {}
  /\ \A c \in t.open : t.status[c] \notin Terminal
  /\ \A c \in t.closed : t.status[c] \in Terminal
  /\ \A c \in Cid \ Held(t) : t.status[c] = "PENDING" /\ t.filled[c] = 0

\* The venue has done nothing for an order it does not know, and a live order
\* still has something to trade.
VenueOK(v) ==
  /\ v \in [Cid -> Order]
  /\ \A c \in Cid : /\ v[c].status = "NONE" => v[c].filled = 0
                    /\ v[c].status \in LiveStatus => v[c].filled < Qty
                    /\ v[c].status # "REJECTED"

\* A report that was true when it was made: the order may have gone on since.
StillTrue(r, v) ==
  /\ v[r.order].status # "NONE" /\ r.filled <= v[r.order].filled
  /\ r.status \in Terminal => v[r.order].status = r.status
  /\ r.status = "PARTIALLY_FILLED" => v[r.order].status # "NEW"

\* A report that tells what the venue now has.
Current(r, v) == r.status = v[r.order].status /\ r.filled = v[r.order].filled

Pending(st, c) == \E i \in 1 .. Len(st) : st[i].order = c

\* Every report that waits was true, and the last of each order is current.
StreamOK(st, v) ==
  /\ st \in Seq(OrderReport)
  /\ \A i \in 1 .. Len(st) :
       /\ StillTrue(st[i], v)
       /\ (\A j \in 1 .. Len(st) : j > i => st[j].order # st[i].order) => Current(st[i], v)

\* The tracker is behind the venue, never ahead of it.
Behind(t, v) ==
  \A c \in Cid :
    /\ t.filled[c] <= v[c].filled
    /\ t.status[c] = "FILLED" => v[c].status = "FILLED"
    /\ t.status[c] = "PARTIALLY_FILLED" => v[c].status \notin {"NONE", "NEW"}

\* An order that ended here ended so on the venue, or never reached it.
ClosedAsVenue(t, v, excl) ==
  \A c \in Held(t) \ excl : t.status[c] \in Terminal => v[c].status \in {t.status[c], "NONE"}

Agrees(t, v, c) ==
  /\ t.filled[c] = v[c].filled
  /\ v[c].status \in LiveStatus => c \in t.open
  /\ v[c].status \in Terminal => t.status[c] = v[c].status

\* What the tracker does not know yet is on its way.
Settled(t, v, st, excl) ==
  \A c \in Held(t) \ excl : Pending(st, c) \/ Agrees(t, v, c)

\* The tracker, the venue and the stream, but for the orders of excl; l tells
\* whether a report was lost.
Consistent(t, v, st, excl, l) ==
  /\ TrackerOK(t) /\ VenueOK(v) /\ StreamOK(st, v)
  /\ Behind(t, v) /\ ClosedAsVenue(t, v, excl)
  /\ l \/ Settled(t, v, st, excl)

-----------------------------------------------------------------------------
(* The operations of the tracker *)

\* The trackers that a report of c may leave, whichever ids it has.
Told(t, c, s, f) == {T!on_report(t, c, FALSE, s, f), T!on_report(t, c, TRUE, s, f)}

\* What a report that may be accepted does to a tracker.
LEMMA ReportEffect ==
  ASSUME NEW t, TrackerOK(t), NEW c \in Held(t), NEW s \in T!OrderStatus,
         NEW f \in 0 .. Qty, t.status[c] \in Terminal => s = t.status[c],
         NEW u, u \in Told(t, c, s, f)
  PROVE  /\ TrackerOK(u) /\ Held(u) = Held(t)
         /\ s \in Terminal => u.open = t.open \ {c}
         /\ s \notin Terminal => u.open = t.open
         /\ u.status[c] = s /\ u.filled[c] = IF f > t.filled[c] THEN f ELSE t.filled[c]
         /\ \A d \in Cid \ {c} : u.status[d] = t.status[d] /\ u.filled[d] = t.filled[d]
<1>1. /\ t.open \in SUBSET Cid /\ t.closed \in SUBSET Cid
      /\ t.status \in [Cid -> T!OrderStatus] /\ t.filled \in [Cid -> 0 .. Qty]
      /\ t.bound \in SUBSET Cid /\ t.mapped \in SUBSET Cid /\ c \in Cid
  BY DEF TrackerOK, T!Tracker, Held
<1>2. T!LargerFill(t, c, f) = IF f > t.filled[c] THEN f ELSE t.filled[c]
  BY AdapterAssumption DEF T!LargerFill
<1>3. T!LargerFill(t, c, f) \in 0 .. Qty
  BY <1>1, <1>2
<1>4. /\ u.open = IF s \in Terminal THEN t.open \ {c} ELSE t.open
      /\ u.closed = IF s \in Terminal THEN t.closed \cup {c} ELSE t.closed
      /\ u.status = [t.status EXCEPT ![c] = s]
      /\ u.filled = [t.filled EXCEPT ![c] = T!LargerFill(t, c, f)]
      /\ u.bound \in {t.bound, t.bound \cup {c}}
      /\ u.mapped \in {t.mapped, t.mapped \cup {c}, t.mapped \ {c}, (t.mapped \cup {c}) \ {c}}
      /\ u = [open |-> u.open, closed |-> u.closed, status |-> u.status,
              filled |-> u.filled, bound |-> u.bound, mapped |-> u.mapped]
  <2>1. CASE u = T!on_report(t, c, FALSE, s, f)
    BY <2>1 DEF T!on_report, Terminal
  <2>2. CASE u = T!on_report(t, c, TRUE, s, f)
    BY <2>2 DEF T!on_report, Terminal
  <2> QED BY <2>1, <2>2 DEF Told
<1>5. u.status \in [Cid -> T!OrderStatus] /\ u.filled \in [Cid -> 0 .. Qty]
  BY <1>1, <1>3, <1>4
<1>6. /\ u.open \in SUBSET Cid /\ u.closed \in SUBSET Cid
      /\ u.bound \in SUBSET Cid /\ u.mapped \in SUBSET Cid
  BY <1>1, <1>4
<1>7. u \in T!Tracker
  BY <1>4, <1>5, <1>6 DEF T!Tracker
<1>8. /\ u.status[c] = s /\ u.filled[c] = IF f > t.filled[c] THEN f ELSE t.filled[c]
      /\ \A d \in Cid \ {c} : u.status[d] = t.status[d] /\ u.filled[d] = t.filled[d]
  BY <1>1, <1>2, <1>4
<1>9. c \in t.closed => s \in Terminal
  BY DEF TrackerOK
<1>10. Held(u) = Held(t) /\ u.open \cap u.closed = {}
  BY <1>4, <1>9 DEF Held, TrackerOK
<1>11. /\ \A d \in u.open : u.status[d] \notin Terminal
       /\ \A d \in u.closed : u.status[d] \in Terminal
  BY <1>1, <1>4, <1>8, <1>9 DEF TrackerOK
<1>12. \A d \in Cid \ Held(u) : u.status[d] = "PENDING" /\ u.filled[d] = 0
  BY <1>8, <1>10 DEF TrackerOK
<1> QED BY <1>4, <1>7, <1>8, <1>10, <1>11, <1>12 DEF TrackerOK

\* An accepted report does not relabel an order that ended.
LEMMA AcceptedEnds ==
  ASSUME NEW t, TrackerOK(t), NEW c, NEW x \in BOOLEAN, NEW y \in BOOLEAN, NEW s,
         T!Accepts(t, c, x, y, s)
  PROVE  /\ c \in Held(t) /\ c \in Cid /\ s \in T!OrderStatus \ {"PENDING"}
         /\ t.status[c] \in Terminal => s = t.status[c]
<1>1. c \in Held(t) /\ c \in Cid /\ t.status[c] \in T!OrderStatus
  BY DEF T!Accepts, T!_find_state, Held, TrackerOK, T!Tracker
<1>2. s \in T!VALID_TRANSITIONS[t.status[c]]
  BY DEF T!Accepts, T!_is_valid_transition
<1> QED BY <1>1, <1>2 DEF T!VALID_TRANSITIONS, T!OrderStatus, T!TERMINAL_STATUSES, Terminal

\* An open order takes any status that the adapter gives it of its own.
LEMMA OpenAccepts ==
  ASSUME NEW t, TrackerOK(t), NEW c \in t.open, NEW b, NEW s \in T!OrderStatus,
         s \in {"CANCELED", "EXPIRED"} \/ (t.status[c] = "PENDING" /\ s # "PENDING")
  PROVE  T!Accepts(t, c, TRUE, b, s)
<1>1. t.status[c] \in T!OrderStatus \ Terminal
  BY DEF TrackerOK, T!Tracker
<1>2. s \in T!VALID_TRANSITIONS[t.status[c]]
  BY <1>1 DEF T!VALID_TRANSITIONS, T!OrderStatus, T!TERMINAL_STATUSES, Terminal
<1> QED BY <1>2 DEF T!Accepts, T!_find_state, T!_is_valid_transition

-----------------------------------------------------------------------------
(* Steps of the tracker *)

\* A report of c that says no more than the venue keeps the tracker behind it.
LEMMA ReportStaysBehind ==
  ASSUME NEW t, NEW v, TrackerOK(t), VenueOK(v), Behind(t, v), NEW c \in Held(t),
         NEW s \in T!OrderStatus \ {"PENDING"}, NEW f \in 0 .. Qty,
         t.status[c] \in Terminal => s = t.status[c],
         f <= v[c].filled, s = "FILLED" => v[c].status = "FILLED",
         s = "PARTIALLY_FILLED" => v[c].status \notin {"NONE", "NEW"},
         NEW u, u \in Told(t, c, s, f)
  PROVE  Behind(u, v)
<1>1. /\ u.status[c] = s /\ u.filled[c] = IF f > t.filled[c] THEN f ELSE t.filled[c]
      /\ \A d \in Cid \ {c} : u.status[d] = t.status[d] /\ u.filled[d] = t.filled[d]
  BY ReportEffect
<1>2. SUFFICES ASSUME NEW d \in Cid
               PROVE  /\ u.filled[d] <= v[d].filled
                      /\ u.status[d] = "FILLED" => v[d].status = "FILLED"
                      /\ u.status[d] = "PARTIALLY_FILLED" => v[d].status \notin {"NONE", "NEW"}
  BY DEF Behind
<1>3. CASE d = c
  BY <1>1, <1>3 DEF Behind
<1>4. CASE d # c
  BY <1>1, <1>4 DEF Behind
<1> QED BY <1>3, <1>4

\* A report that was true keeps the tracker consistent, accepted or not.
LEMMA TrueReport ==
  ASSUME NEW t, NEW v, NEW st, NEW excl, NEW l \in BOOLEAN, Consistent(t, v, st, excl, l),
         NEW r \in OrderReport, StillTrue(r, v), NEW u, u = Reported(t, r)
  PROVE  /\ Consistent(u, v, st, excl, l) /\ Held(u) = Held(t) /\ u.open \subseteq t.open
         /\ \A c \in t.open \ u.open : c = r.order /\ v[c].status \in Terminal
<1> DEFINE c == r.order
<1>1. CASE ~ T!Accepts(t, c, TRUE, TRUE, r.status)
  BY <1>1 DEF Reported
<1>2. CASE T!Accepts(t, c, TRUE, TRUE, r.status)
  <2>1. u \in Told(t, c, r.status, r.filled)
    BY <1>2 DEF Reported, Told
  <2>2. TrackerOK(t) /\ VenueOK(v) /\ Behind(t, v) /\ ClosedAsVenue(t, v, excl)
    BY DEF Consistent
  <2>3. /\ c \in Held(t) /\ c \in Cid /\ r.status \in T!OrderStatus \ {"PENDING"}
        /\ t.status[c] \in Terminal => r.status = t.status[c]
    BY <1>2, <2>2, AcceptedEnds
  <2>4. r.filled \in 0 .. Qty
    BY DEF OrderReport
  <2>5. /\ TrackerOK(u) /\ Held(u) = Held(t)
        /\ r.status \in Terminal => u.open = t.open \ {c}
        /\ r.status \notin Terminal => u.open = t.open
        /\ u.status[c] = r.status
        /\ u.filled[c] = IF r.filled > t.filled[c] THEN r.filled ELSE t.filled[c]
        /\ \A d \in Cid \ {c} : u.status[d] = t.status[d] /\ u.filled[d] = t.filled[d]
    <3> HIDE DEF c
    <3> QED BY <2>1, <2>2, <2>3, <2>4, ReportEffect
  <2>6. /\ r.filled <= v[c].filled
        /\ r.status \in Terminal => v[c].status = r.status
        /\ r.status = "PARTIALLY_FILLED" => v[c].status \notin {"NONE", "NEW"}
    BY DEF StillTrue
  <2>7. Behind(u, v)
    <3>1. r.status = "FILLED" => v[c].status = "FILLED"
      BY <2>6 DEF Terminal, T!TERMINAL_STATUSES
    <3> HIDE DEF c
    <3> QED BY <2>1, <2>2, <2>3, <2>4, <2>6, <3>1, ReportStaysBehind
  <2>8. ClosedAsVenue(u, v, excl)
    BY <2>2, <2>5, <2>6 DEF ClosedAsVenue, Held, TrackerOK, T!Tracker
  <2>9. ASSUME NEW d \in Held(t) \ excl, Agrees(t, v, d) PROVE Agrees(u, v, d)
    <3>1. CASE d # c
      BY <2>2, <2>5, <2>9, <3>1 DEF Agrees, Held, TrackerOK, T!Tracker
    <3>2. CASE d = c
      <4>1. t.filled[c] = v[c].filled /\ t.filled[c] \in Int
        BY <2>2, <2>3, <2>9, <3>2 DEF Agrees, TrackerOK, T!Tracker
      <4>2. u.filled[c] = v[c].filled
        BY <2>4, <2>5, <2>6, <4>1
      <4>3. v[c].status \in LiveStatus => c \in u.open
        BY <2>5, <2>6, <2>9, <3>2 DEF Agrees, LiveStatus, Terminal, T!TERMINAL_STATUSES
      <4>4. v[c].status \in Terminal => u.status[c] = v[c].status
        BY <2>3, <2>5, <2>9, <3>2 DEF Agrees
      <4> QED BY <3>2, <4>2, <4>3, <4>4 DEF Agrees
    <3> QED BY <3>1, <3>2
  <2>10. l \/ Settled(u, v, st, excl)
    BY <2>5, <2>9 DEF Consistent, Settled
  <2> QED BY <2>5, <2>6, <2>7, <2>8, <2>10 DEF Consistent
<1> QED BY <1>1, <1>2

\* A current report of an order that was not excluded makes them agree.
LEMMA CurrentReport ==
  ASSUME NEW t, NEW v, NEW excl, TrackerOK(t), VenueOK(v), Behind(t, v),
         ClosedAsVenue(t, v, excl), NEW r \in OrderReport, StillTrue(r, v), Current(r, v),
         r.order \in Held(t) \ excl, NEW u, u = Reported(t, r)
  PROVE  Agrees(u, v, r.order)
<1> DEFINE c == r.order
<1>1. /\ r.status \in T!OrderStatus \ {"PENDING", "REJECTED"} /\ r.filled \in 0 .. Qty /\ c \in Cid
      /\ v[c].status = r.status /\ v[c].filled = r.filled
  BY DEF OrderReport, VenueOK, Current, LiveStatus, Terminal, T!TERMINAL_STATUSES, T!OrderStatus
<1>2. t.status[c] \in T!OrderStatus /\ t.filled[c] \in 0 .. Qty /\ t.filled[c] <= r.filled
  BY <1>1 DEF TrackerOK, T!Tracker, Behind
<1>3. t.status[c] \in Terminal => r.status = t.status[c]
  BY <1>1 DEF ClosedAsVenue, T!OrderStatus
<1>4. t.status[c] = "PARTIALLY_FILLED" => r.status # "NEW"
  BY <1>1 DEF Behind
<1>5. T!Accepts(t, c, TRUE, TRUE, r.status)
  <2>1. r.status \in T!VALID_TRANSITIONS[t.status[c]]
    BY <1>1, <1>2, <1>3, <1>4 DEF T!VALID_TRANSITIONS, T!OrderStatus, T!TERMINAL_STATUSES, Terminal
  <2> QED BY <2>1 DEF T!Accepts, T!_find_state, T!_is_valid_transition, Held
<1>6. u \in Told(t, c, r.status, r.filled)
  BY <1>5 DEF Reported, Told
<1>7. /\ r.status \notin Terminal => u.open = t.open
      /\ u.status[c] = r.status
      /\ u.filled[c] = IF r.filled > t.filled[c] THEN r.filled ELSE t.filled[c]
  <2> HIDE DEF c
  <2>1. c \in Held(t)
    BY DEF c
  <2> QED BY <1>1, <1>3, <1>6, <2>1, ReportEffect
<1>8. u.filled[c] = v[c].filled
  BY <1>1, <1>2, <1>7
<1>9. r.status \in LiveStatus => c \in u.open
  BY <1>3, <1>7 DEF TrackerOK, Held, LiveStatus, Terminal, T!TERMINAL_STATUSES
<1> QED BY <1>1, <1>7, <1>8, <1>9 DEF Agrees

\* Consistency asks less when more orders are excluded.
LEMMA ExcludesMore ==
  ASSUME NEW t, NEW v, NEW st, NEW excl, NEW more, NEW l, Consistent(t, v, st, excl, l),
         excl \subseteq more
  PROVE  Consistent(t, v, st, more, l)
BY DEF Consistent, ClosedAsVenue, Settled

\* What the adapter tells its tracker of an open order, without a report of
\* the venue: that it ended, and no fill.  This is what the venue has, or the
\* order is one of those excluded.
LEMMA OwnReport ==
  ASSUME NEW t, NEW v, NEW st, NEW excl, NEW l \in BOOLEAN,
         Consistent(t, v, st, excl, l),
         NEW c \in t.open, NEW s \in {"CANCELED", "EXPIRED", "REJECTED"},
         \/ c \in excl
         \/ v[c].status = "NONE"
         \/ v[c].status = s /\ Pending(st, c),
         NEW u, u \in Told(t, c, s, 0)
  PROVE  /\ Consistent(u, v, st, excl, l) /\ Held(u) = Held(t) /\ u.open = t.open \ {c}
<1>1. TrackerOK(t) /\ VenueOK(v) /\ Behind(t, v) /\ ClosedAsVenue(t, v, excl)
  BY DEF Consistent
<1>2. c \in Held(t) /\ c \in Cid /\ t.status[c] \notin Terminal /\ t.filled[c] \in 0 .. Qty
  BY <1>1 DEF Held, TrackerOK, T!Tracker
<1>3. s \in T!OrderStatus \ {"PENDING"} /\ s \in Terminal /\ 0 \in 0 .. Qty
  BY AdapterAssumption DEF Terminal, T!OrderStatus, T!TERMINAL_STATUSES
<1>4. /\ TrackerOK(u) /\ Held(u) = Held(t) /\ u.open = t.open \ {c} /\ u.status[c] = s
      /\ u.filled[c] = IF 0 > t.filled[c] THEN 0 ELSE t.filled[c]
      /\ \A d \in Cid \ {c} : u.status[d] = t.status[d] /\ u.filled[d] = t.filled[d]
  BY <1>1, <1>2, <1>3, ReportEffect
<1>5. u.filled[c] = t.filled[c]
  BY <1>2, <1>4
<1>6. v[c].filled \in 0 .. Qty
  BY <1>1, <1>2 DEF VenueOK, Order
<1>7. Behind(u, v)
  BY <1>1, <1>2, <1>3, <1>6, ReportStaysBehind
<1>8. ClosedAsVenue(u, v, excl)
  <2>1. SUFFICES ASSUME NEW d \in Held(t) \ excl, u.status[d] \in Terminal
                 PROVE  v[d].status \in {u.status[d], "NONE"}
    BY <1>4 DEF ClosedAsVenue
  <2>2. d \in Cid
    BY <1>1 DEF Held, TrackerOK, T!Tracker
  <2> QED BY <1>1, <1>4, <2>1, <2>2 DEF ClosedAsVenue
<1>9. ASSUME ~ l PROVE Settled(u, v, st, excl)
  <2>1. SUFFICES ASSUME NEW d \in Held(t) \ excl, ~ Pending(st, d) PROVE Agrees(u, v, d)
    BY <1>4 DEF Settled
  <2>2. Agrees(t, v, d) /\ d \in Cid
    BY <1>1, <1>9, <2>1 DEF Consistent, Settled, Held, TrackerOK, T!Tracker
  <2>3. CASE d # c
    BY <1>4, <2>2, <2>3 DEF Agrees
  <2>4. CASE d = c
    <3>1. v[c].status = "NONE"
      BY <2>1, <2>4
    <3> QED BY <1>5, <2>2, <2>4, <3>1 DEF Agrees, LiveStatus, Terminal, T!TERMINAL_STATUSES
  <2> QED BY <2>3, <2>4
<1> QED BY <1>1, <1>4, <1>7, <1>8, <1>9 DEF Consistent

\* A new order that the venue does not know yet is tracked.
LEMMA NewOrder ==
  ASSUME NEW t, NEW v, NEW st, NEW excl, NEW l \in BOOLEAN, Consistent(t, v, st, excl, l),
         NEW c \in Cid, T!CanTrack(t, c), v[c].status = "NONE", NEW u, u = T!track_order(t, c)
  PROVE  /\ Consistent(u, v, st, excl, l) /\ u.open = t.open \cup {c}
         /\ u.status[c] = "PENDING"
<1>1. TrackerOK(t) /\ VenueOK(v) /\ StreamOK(st, v) /\ Behind(t, v) /\ ClosedAsVenue(t, v, excl)
  BY DEF Consistent
<1>2. /\ u.open = t.open \cup {c} /\ u.closed = t.closed /\ u.status = t.status
      /\ u.filled = t.filled /\ u \in T!Tracker
  BY <1>1 DEF T!track_order, TrackerOK, T!Tracker
<1>3. c \notin Held(t) /\ t.status[c] = "PENDING" /\ t.filled[c] = 0
  BY <1>1 DEF T!CanTrack, Held, TrackerOK
<1>4. v[c].filled = 0
  BY <1>1 DEF VenueOK
<1>5. TrackerOK(u)
  BY <1>1, <1>2, <1>3 DEF TrackerOK, Held, Terminal, T!TERMINAL_STATUSES
<1>6. Behind(u, v)
  BY <1>1, <1>2 DEF Behind
<1>7. Held(u) = Held(t) \cup {c}
  BY <1>2 DEF Held
<1>8. ClosedAsVenue(u, v, excl)
  BY <1>1, <1>2, <1>3, <1>7 DEF ClosedAsVenue
<1>9. Agrees(u, v, c)
  BY <1>2, <1>3, <1>4 DEF Agrees, LiveStatus, Terminal, T!TERMINAL_STATUSES
<1>10. \A d \in Held(t) : Agrees(t, v, d) => Agrees(u, v, d)
  BY <1>2 DEF Agrees
<1>11. l \/ Settled(u, v, st, excl)
  BY <1>7, <1>9, <1>10 DEF Consistent, Settled
<1> QED BY <1>1, <1>2, <1>3, <1>5, <1>6, <1>8, <1>11 DEF Consistent

\* A new process knows of no order.
LEMMA EmptyIsConsistent ==
  ASSUME NEW v, NEW st, NEW excl, NEW l \in BOOLEAN, VenueOK(v), StreamOK(st, v)
  PROVE  Consistent(T!EmptyTracker, v, st, excl, l)
<1> DEFINE e == T!EmptyTracker
<1>1. /\ e.open = {} /\ e.closed = {} /\ e.bound = {} /\ e.mapped = {}
      /\ e.status = [c \in Cid |-> "PENDING"] /\ e.filled = [c \in Cid |-> 0]
  BY DEF T!EmptyTracker
<1>2. TrackerOK(e)
  BY AdapterAssumption
     DEF T!EmptyTracker, TrackerOK, T!Tracker, T!OrderStatus, Held
<1>3. Behind(e, v)
  BY <1>1 DEF Behind, VenueOK, Order
<1> HIDE DEF e
<1>4. ClosedAsVenue(e, v, excl) /\ Settled(e, v, st, excl)
  BY <1>1 DEF ClosedAsVenue, Settled, Held
<1> QED BY <1>2, <1>3, <1>4 DEF Consistent, e

-----------------------------------------------------------------------------
(* Steps of the venue and the stream *)

\* How one order of the venue may go on.
Advances(v, w) ==
  \A c \in Cid :
    /\ v[c].filled <= w[c].filled
    /\ \/ w[c] = v[c]
       \/ v[c].status = "NONE"
       \/ v[c].status \in LiveStatus /\ w[c].status \in Terminal \cup {"PARTIALLY_FILLED"}

\* A report that was true stays so.
LEMMA StaysTrue ==
  ASSUME NEW v, NEW w, VenueOK(v), VenueOK(w), Advances(v, w), NEW r \in OrderReport,
         StillTrue(r, v)
  PROVE  StillTrue(r, w)
<1> DEFINE c == r.order
<1>1. c \in Cid /\ r.filled \in Int
  BY DEF OrderReport
<1>2. v[c].filled \in Int /\ w[c].filled \in Int
  BY <1>1 DEF VenueOK, Order
<1>3. r.filled <= v[c].filled /\ v[c].filled <= w[c].filled
  BY <1>1 DEF StillTrue, Advances
<1>4. r.filled <= w[c].filled
  BY <1>1, <1>2, <1>3
<1>5. /\ v[c].status # "NONE"
      /\ r.status \in Terminal => v[c].status = r.status
      /\ r.status = "PARTIALLY_FILLED" => v[c].status # "NEW"
  BY DEF StillTrue
<1>6. \/ w[c] = v[c]
      \/ v[c].status \in LiveStatus /\ w[c].status \in Terminal \cup {"PARTIALLY_FILLED"}
  BY <1>1, <1>5 DEF Advances
<1>7. /\ w[c].status # "NONE"
      /\ r.status \in Terminal => w[c].status = r.status
      /\ r.status = "PARTIALLY_FILLED" => w[c].status # "NEW"
  BY <1>5, <1>6 DEF LiveStatus, Terminal, T!TERMINAL_STATUSES
<1> QED BY <1>4, <1>7 DEF StillTrue

\* A report that is current is true.
LEMMA CurrentIsTrue ==
  ASSUME NEW v, VenueOK(v), NEW r \in OrderReport, Current(r, v)
  PROVE  StillTrue(r, v)
<1>1. r.order \in Cid /\ r.filled \in Int /\ r.status # "NONE"
  BY DEF OrderReport, LiveStatus, Terminal, T!TERMINAL_STATUSES
<1> QED BY <1>1 DEF Current, StillTrue

\* The venue goes on and reports what it changed; the tracker is told nothing.
LEMMA VenueMoves ==
  ASSUME NEW t, NEW v, NEW st, NEW excl, NEW l \in BOOLEAN, Consistent(t, v, st, excl, l),
         NEW w, VenueOK(w), Advances(v, w), NEW new \in Seq(OrderReport),
         \A i \in 1 .. Len(new) : Current(new[i], w),
         \A c \in Cid : w[c] # v[c] =>
           Pending(new, c) /\ (v[c].status = "NONE" => c \in t.open)
  PROVE  Consistent(t, w, st \o new, excl, l)
<1> DEFINE n == Len(st)
           m == Len(new)
           all == st \o new
<1>1. TrackerOK(t) /\ VenueOK(v) /\ StreamOK(st, v) /\ Behind(t, v) /\ ClosedAsVenue(t, v, excl)
  BY DEF Consistent
<1>2. st \in Seq(OrderReport) /\ n \in Nat /\ m \in Nat
  BY <1>1 DEF StreamOK
<1>3. /\ all \in Seq(OrderReport) /\ Len(all) = n + m
      /\ \A i \in 1 .. n : all[i] = st[i] /\ i \in 1 .. n + m
      /\ \A i \in 1 .. m : all[n + i] = new[i] /\ n + i \in 1 .. n + m
  BY <1>2
<1>4. \A i \in 1 .. n + m : i \in 1 .. n \/ \E k \in 1 .. m : i = n + k
  <2>1. SUFFICES ASSUME NEW i \in 1 .. n + m, i \notin 1 .. n PROVE i - n \in 1 .. m /\ i = n + (i - n)
    OBVIOUS
  <2> QED BY <1>2, <2>1
<1>5. StreamOK(all, w)
  <2>1. SUFFICES ASSUME NEW i \in 1 .. n + m
                 PROVE  /\ StillTrue(all[i], w)
                        /\ (\A j \in 1 .. n + m : j > i => all[j].order # all[i].order)
                             => Current(all[i], w)
    BY <1>3 DEF StreamOK
  <2>2. CASE i \in 1 .. n
    <3>1. st[i] \in OrderReport /\ all[i] = st[i]
      BY <1>2, <1>3, <2>2
    <3>2. StillTrue(st[i], w)
      BY <1>1, <2>2, <3>1, StaysTrue DEF StreamOK
    <3>3. ASSUME \A j \in 1 .. n + m : j > i => all[j].order # all[i].order
          PROVE  Current(st[i], w)
      <4>1. \A j \in 1 .. n : j > i => st[j].order # st[i].order
        BY <1>3, <2>2, <3>3
      <4>2. Current(st[i], v)
        BY <1>1, <2>2, <4>1 DEF StreamOK
      <4>3. ~ Pending(new, st[i].order)
        <5>1. ASSUME NEW k \in 1 .. m PROVE new[k].order # st[i].order
          <6>1. n + k > i /\ n + k \in 1 .. n + m /\ all[n + k] = new[k]
            BY <1>2, <1>3, <2>2
          <6> QED BY <3>1, <3>3, <6>1
        <5> QED BY <5>1 DEF Pending
      <4>4. w[st[i].order] = v[st[i].order]
        BY <3>1, <4>3 DEF OrderReport
      <4> QED BY <4>2, <4>4 DEF Current
    <3> QED BY <3>1, <3>2, <3>3
  <2>3. CASE \E k \in 1 .. m : i = n + k
    <3>1. PICK k \in 1 .. m : i = n + k
      BY <2>3
    <3>2. all[i] = new[k] /\ new[k] \in OrderReport /\ Current(new[k], w)
      BY <1>2, <1>3, <3>1
    <3> QED BY <3>2, CurrentIsTrue
  <2> QED BY <1>4, <2>2, <2>3
<1>6. \A c \in Cid : w[c].filled \in Int /\ v[c].filled \in Int /\ t.filled[c] \in Int
  BY <1>1 DEF VenueOK, Order, TrackerOK, T!Tracker
<1>7. Behind(t, w)
  <2>1. SUFFICES ASSUME NEW c \in Cid
                 PROVE  /\ t.filled[c] <= w[c].filled
                        /\ t.status[c] = "FILLED" => w[c].status = "FILLED"
                        /\ t.status[c] = "PARTIALLY_FILLED" => w[c].status \notin {"NONE", "NEW"}
    BY DEF Behind
  <2>2. t.filled[c] <= v[c].filled /\ v[c].filled <= w[c].filled
    BY <1>1 DEF Behind, Advances
  <2>3. t.filled[c] <= w[c].filled
    BY <1>6, <2>2
  <2>4. /\ t.status[c] = "FILLED" => v[c].status = "FILLED"
        /\ t.status[c] = "PARTIALLY_FILLED" => v[c].status \notin {"NONE", "NEW"}
    BY <1>1 DEF Behind
  <2>5. \/ w[c] = v[c]
        \/ v[c].status = "NONE"
        \/ v[c].status \in LiveStatus /\ w[c].status \in Terminal \cup {"PARTIALLY_FILLED"}
    BY DEF Advances
  <2> QED BY <2>3, <2>4, <2>5 DEF LiveStatus, Terminal, T!TERMINAL_STATUSES
<1>8. ASSUME NEW c \in Held(t) \ excl, t.status[c] \in Terminal
      PROVE  w[c].status \in {t.status[c], "NONE"}
  <2>1. c \in Cid /\ c \notin t.open /\ v[c].status \in {t.status[c], "NONE"}
    BY <1>1, <1>8 DEF ClosedAsVenue, Held, TrackerOK, T!Tracker
  <2>2. w[c] = v[c]
    BY <1>8, <2>1 DEF Advances, LiveStatus, Terminal, T!TERMINAL_STATUSES
  <2> QED BY <2>1, <2>2
<1>9. \A c \in Cid : Pending(st, c) \/ Pending(new, c) => Pending(all, c)
  <2>1. \A c \in Cid : Pending(st, c) => Pending(all, c)
    BY <1>3 DEF Pending
  <2>2. \A c \in Cid : Pending(new, c) => Pending(all, c)
    BY <1>3 DEF Pending
  <2> QED BY <2>1, <2>2
<1>10. ASSUME ~ l PROVE Settled(t, w, all, excl)
  <2>1. SUFFICES ASSUME NEW c \in Held(t) \ excl, ~ Pending(all, c) PROVE Agrees(t, w, c)
    BY DEF Settled
  <2>2. c \in Cid
    BY <1>1 DEF Held, TrackerOK, T!Tracker
  <2>3. ~ Pending(st, c) /\ w[c] = v[c]
    BY <1>9, <2>1, <2>2
  <2> QED BY <1>10, <2>3 DEF Consistent, Settled, Agrees
<1> HIDE DEF all
<1>11. ClosedAsVenue(t, w, excl)
  BY <1>8 DEF ClosedAsVenue
<1>12. Consistent(t, w, all, excl, l)
  BY <1>1, <1>5, <1>7, <1>10, <1>11 DEF Consistent
<1> QED BY <1>12 DEF all

\* The venue changes one order.
LEMMA VenueSets ==
  ASSUME NEW excl, NEW l \in BOOLEAN, Consistent(tracker, venue, stream, excl, l),
         NEW c \in Cid, NEW s \in LiveStatus \cup {"FILLED", "CANCELED", "EXPIRED"},
         NEW f \in 0 .. Qty, VenueSet(c, s, f),
         venue[c].filled <= f, s \in LiveStatus => f < Qty,
         \/ Live(c) /\ s # "NEW"
         \/ venue[c].status = "NONE" /\ c \in tracker.open
  PROVE  /\ Consistent(tracker, venue', stream', excl, l)
         /\ Advances(venue, venue') /\ Pending(stream', c)
         /\ venue'[c] = [status |-> s, filled |-> f]
         /\ \A d \in Cid \ {c} : venue'[d] = venue[d]
<1> DEFINE r == [order |-> c, status |-> s, filled |-> f]
           w == [venue EXCEPT ![c] = [status |-> s, filled |-> f]]
<1>1. VenueOK(venue) /\ stream \in Seq(OrderReport)
  BY DEF Consistent, StreamOK
<1>2. /\ w[c] = [status |-> s, filled |-> f]
      /\ \A d \in Cid \ {c} : w[d] = venue[d]
  BY <1>1 DEF VenueOK
<1>3. [status |-> s, filled |-> f] \in Order /\ r \in OrderReport
  BY DEF Order, OrderReport, Terminal, T!TERMINAL_STATUSES
<1>4. w \in [Cid -> Order]
  BY <1>1, <1>3 DEF VenueOK
<1>5. venue' = w /\ stream' = stream \o <<r>>
  BY <1>1, <1>3 DEF VenueSet
<1>6. r.order = c /\ r.status = s /\ r.filled = f
  OBVIOUS
<1>7. s # "NONE" /\ s # "REJECTED"
  BY DEF LiveStatus
<1>8. \A d \in Cid : venue[d].filled \in Int
  BY <1>1 DEF VenueOK, Order
<1> HIDE DEF w, r
<1>9. VenueOK(w)
  BY <1>1, <1>2, <1>4, <1>7 DEF VenueOK
<1>10. Advances(venue, w)
  <2>1. SUFFICES ASSUME NEW d \in Cid
                 PROVE  /\ venue[d].filled <= w[d].filled
                        /\ \/ w[d] = venue[d]
                           \/ venue[d].status = "NONE"
                           \/ /\ venue[d].status \in LiveStatus
                              /\ w[d].status \in Terminal \cup {"PARTIALLY_FILLED"}
    BY DEF Advances
  <2>2. CASE d = c
    BY <1>2, <2>2 DEF Live, LiveStatus, Terminal, T!TERMINAL_STATUSES
  <2>3. CASE d # c
    BY <1>2, <1>8, <2>3
  <2> QED BY <2>2, <2>3
<1>11. /\ <<r>> \in Seq(OrderReport) /\ Len(<<r>>) = 1
       /\ \A i \in 1 .. 1 : <<r>>[i] = r /\ Current(<<r>>[i], w)
  BY <1>2, <1>3, <1>6 DEF Current
<1>12. Pending(<<r>>, c)
  BY <1>6, <1>11 DEF Pending
<1>13. \A d \in Cid : w[d] # venue[d] =>
         Pending(<<r>>, d) /\ (venue[d].status = "NONE" => d \in tracker.open)
  BY <1>2, <1>12 DEF Live, LiveStatus
<1>14. Consistent(tracker, w, stream \o <<r>>, excl, l)
  BY <1>9, <1>10, <1>11, <1>13, VenueMoves
<1>15. Pending(stream \o <<r>>, c)
  <2>1. (stream \o <<r>>)[Len(stream) + 1] = r /\ Len(stream) + 1 \in 1 .. Len(stream \o <<r>>)
    BY <1>1, <1>3, <1>11
  <2> QED BY <1>6, <2>1 DEF Pending
<1> QED BY <1>2, <1>5, <1>10, <1>14, <1>15

\* A permutation of a finite set names each of its elements.
LEMMA PermutationNamesAll ==
  ASSUME NEW S, IsFiniteSet(S), NEW p \in SetToSeqs(S)
  PROVE  /\ p \in Seq(S) /\ Len(p) = Cardinality(S) /\ DOMAIN p = 1 .. Len(p)
         /\ \A x \in S : \E i \in 1 .. Len(p) : p[i] = x
<1> DEFINE D == 1 .. Cardinality(S)
<1>1. Cardinality(S) \in Nat
  BY FS_CardinalityType
<1>2. p \in [D -> S] /\ \A i, j \in D : i # j => p[i] # p[j]
  BY DEF SetToSeqs
<1>3. p \in Injection(D, S)
  BY <1>2 DEF Injection, IsInjective
<1>4. IsFiniteSet(D) /\ Cardinality(D) = Cardinality(S)
  BY <1>1, FS_Interval
<1>5. p \in Surjection(D, S)
  BY <1>3, <1>4, FS_Injection
<1>6. p \in Seq(S) /\ Len(p) = Cardinality(S) /\ DOMAIN p = 1 .. Len(p)
  BY <1>1, <1>2
<1> QED BY <1>5, <1>6 DEF Surjection

\* The venue cancels the live orders of a symbol.
LEMMA VenueCancelsAll ==
  ASSUME NEW excl, NEW l \in BOOLEAN, Consistent(tracker, venue, stream, excl, l),
         NEW s, cancel_all_open_orders(s)
  PROVE  /\ Consistent(tracker, venue', stream', excl, l)
         /\ Advances(venue, venue')
         /\ \A c \in OnSymbol(s) \cap Cid : ~ Live(c)'
         /\ \A c \in Cid : Live(c)' => Live(c)
         /\ \A c \in Cid : venue'[c].status = "NONE" <=> venue[c].status = "NONE"
<1> DEFINE live == {c \in OnSymbol(s) : Live(c)}
           gone(c) == [status |-> "CANCELED", filled |-> venue[c].filled]
           w == [c \in Cid |-> IF c \in live THEN gone(c) ELSE venue[c]]
<1>1. venue' = w
  BY DEF cancel_all_open_orders
<1>2. PICK order \in SetToSeqs(live) :
        stream' = stream \o [i \in DOMAIN order |->
                               [order |-> order[i], status |-> "CANCELED",
                                filled |-> venue[order[i]].filled]]
  BY DEF cancel_all_open_orders
<1> DEFINE new == [i \in DOMAIN order |->
                     [order |-> order[i], status |-> "CANCELED",
                      filled |-> venue[order[i]].filled]]
<1>3. VenueOK(venue)
  BY DEF Consistent
<1>4. live \subseteq Cid /\ IsFiniteSet(live) /\ \A c \in live : Live(c)
  <2>1. live \subseteq Cid /\ \A c \in live : Live(c)
    BY DEF OnSymbol, Cid
  <2>2. IsFiniteSet(Cid)
    BY AdapterAssumption
  <2> HIDE DEF live
  <2> QED BY <2>1, <2>2, FS_Subset
<1>5. \A c \in OnSymbol(s) \cap Cid : c \notin live => ~ Live(c)
  OBVIOUS
<1> HIDE DEF live
<1>6. /\ order \in Seq(live) /\ DOMAIN order = 1 .. Len(order)
      /\ \A c \in live : \E i \in 1 .. Len(order) : order[i] = c
  BY <1>4, PermutationNamesAll
<1>7. /\ \A c \in live : w[c] = gone(c)
      /\ \A c \in Cid \ live : w[c] = venue[c]
  BY <1>4
<1>8. \A c \in live : /\ gone(c) \in Order
                      /\ w[c].status = "CANCELED" /\ w[c].filled = venue[c].filled
  BY <1>3, <1>4, <1>7 DEF VenueOK, Order, Terminal, T!TERMINAL_STATUSES
<1>9. w \in [Cid -> Order]
  BY <1>3, <1>8 DEF VenueOK
<1>10. Len(order) \in Nat /\ \A i \in 1 .. Len(order) : order[i] \in live
  BY <1>6
<1>11. \A i \in 1 .. Len(order) :
         /\ new[i] = [order |-> order[i], status |-> "CANCELED", filled |-> venue[order[i]].filled]
         /\ new[i].order = order[i] /\ new[i].status = "CANCELED"
         /\ new[i].filled = venue[order[i]].filled /\ new[i] \in OrderReport
  BY <1>3, <1>4, <1>6, <1>10 DEF OrderReport, VenueOK, Order, Terminal, T!TERMINAL_STATUSES
<1>12. new \in Seq(OrderReport) /\ Len(new) = Len(order)
  BY <1>6, <1>10, <1>11
<1>13. \A c \in Cid : venue[c].filled \in Int
  BY <1>3 DEF VenueOK, Order
<1> HIDE DEF w, gone, new
<1>14. VenueOK(w)
  BY <1>3, <1>7, <1>8, <1>9 DEF VenueOK, LiveStatus
<1>15. Advances(venue, w)
  BY <1>4, <1>7, <1>8, <1>13 DEF Advances, Live, Terminal, T!TERMINAL_STATUSES
<1>16. ASSUME NEW i \in 1 .. Len(new) PROVE Current(new[i], w)
  <2>1. i \in 1 .. Len(order) /\ order[i] \in live
    BY <1>10, <1>12
  <2> QED BY <1>8, <1>11, <2>1 DEF Current
<1>17. ASSUME NEW c \in live PROVE Pending(new, c)
  <2>1. PICK i \in 1 .. Len(order) : order[i] = c
    BY <1>6
  <2>2. i \in 1 .. Len(new) /\ new[i].order = c
    BY <1>11, <1>12, <2>1
  <2> QED BY <2>2 DEF Pending
<1>18. \A c \in Cid : w[c] # venue[c] =>
         Pending(new, c) /\ (venue[c].status = "NONE" => c \in tracker.open)
  BY <1>4, <1>7, <1>17 DEF Live, LiveStatus
<1>19. Consistent(tracker, w, stream \o new, excl, l)
  BY <1>12, <1>14, <1>15, <1>16, <1>18, VenueMoves
<1>20. ASSUME NEW c \in Cid
       PROVE  w[c] = venue[c] \/ (c \in live /\ w[c].status = "CANCELED")
  <2>1. CASE c \in live
    BY <1>8, <2>1
  <2>2. CASE c \notin live
    BY <1>7, <2>2
  <2> QED BY <2>1, <2>2
<1>21. \A c \in Cid : Live(c)' => Live(c)
  BY <1>1, <1>20 DEF Live, LiveStatus
<1>22. \A c \in OnSymbol(s) \cap Cid : ~ Live(c)'
  BY <1>1, <1>5, <1>7, <1>8 DEF Live, LiveStatus
<1>23. \A c \in Cid : venue'[c].status = "NONE" <=> venue[c].status = "NONE"
  BY <1>1, <1>4, <1>20 DEF Live, LiveStatus
<1>24. stream' = stream \o new
  BY <1>2 DEF new
<1> QED BY <1>1, <1>15, <1>19, <1>21, <1>22, <1>23, <1>24

\* The oldest report is taken from the stream; what it is the last word on is
\* then no longer on its way.
LEMMA StreamTakes ==
  ASSUME NEW st, NEW v, StreamOK(st, v), st # <<>>
  PROVE  /\ Head(st) \in OrderReport /\ StillTrue(Head(st), v) /\ StreamOK(Tail(st), v)
         /\ \A c : Pending(st, c) /\ ~ Pending(Tail(st), c) =>
              c = Head(st).order /\ Current(Head(st), v)
<1> DEFINE n == Len(st)
           tl == Tail(st)
<1>1. st \in Seq(OrderReport) /\ n \in Nat /\ n > 0 /\ 1 \in 1 .. n
  BY DEF StreamOK
<1>2. /\ Head(st) = st[1] /\ tl \in Seq(OrderReport) /\ Len(tl) = n - 1
      /\ \A i \in 1 .. n - 1 : tl[i] = st[i + 1] /\ i + 1 \in 1 .. n
  BY <1>1
<1>3. \A i \in 2 .. n : i - 1 \in 1 .. n - 1 /\ tl[i - 1] = st[i]
  BY <1>1, <1>2
<1> HIDE DEF tl
<1>4. StreamOK(tl, v)
  <2>1. SUFFICES ASSUME NEW i \in 1 .. n - 1
                 PROVE  /\ StillTrue(tl[i], v)
                        /\ (\A j \in 1 .. n - 1 : j > i => tl[j].order # tl[i].order)
                             => Current(tl[i], v)
    BY <1>2 DEF StreamOK
  <2>2. i + 1 \in 1 .. n /\ tl[i] = st[i + 1]
    BY <1>2
  <2>3. ASSUME \A j \in 1 .. n - 1 : j > i => tl[j].order # tl[i].order
        PROVE  \A j \in 1 .. n : j > i + 1 => st[j].order # st[i + 1].order
    <3>1. SUFFICES ASSUME NEW j \in 1 .. n, j > i + 1 PROVE st[j].order # st[i + 1].order
      OBVIOUS
    <3>2. j - 1 \in 1 .. n - 1 /\ j - 1 > i /\ tl[j - 1] = st[j]
      BY <1>1, <1>3, <3>1
    <3> QED BY <2>2, <2>3, <3>2
  <2> QED BY <2>2, <2>3 DEF StreamOK
<1>5. ASSUME NEW c, Pending(st, c), ~ Pending(tl, c)
      PROVE  c = Head(st).order /\ Current(Head(st), v)
  <2>1. \A i \in 2 .. n : st[i].order # c
    BY <1>2, <1>3, <1>5 DEF Pending
  <2>2. st[1].order = c
    BY <1>1, <1>5, <2>1 DEF Pending
  <2>3. \A j \in 1 .. n : j > 1 => st[j].order # st[1].order
    BY <2>1, <2>2
  <2> QED BY <1>1, <1>2, <2>2, <2>3 DEF StreamOK
<1>6. Head(st) \in OrderReport /\ StillTrue(Head(st), v)
  BY <1>1, <1>2 DEF StreamOK
<1> QED BY <1>4, <1>5, <1>6 DEF tl

-----------------------------------------------------------------------------
(* The invariant *)

excluded == unknownFate \cup assumedClosed

\* What the call in progress relies on: a submitted order is tracked and still
\* PENDING, a cancelled one is an open quote, the reports of a reconciliation
\* were true, and an order it looked up is closed or unresolved.
CallOK ==
  /\ call.op = "submit" => call.order \in tracker.open /\ tracker.status[call.order] = "PENDING"
  /\ call.op = "cancel" => call.order \in tracker.open \cap QuoteCid
  /\ \A r \in call.reports : StillTrue(r, venue)
  /\ call.op = "reconcile" => tracker.open \cap call.looked \subseteq call.unresolved

AllConsistent == Consistent(tracker, venue, stream, excluded, lost)

\* The inductive invariant.
IInv == TypeOK /\ AllConsistent /\ CallOK /\ StopIsFlat /\ NoSilentOrphan

\* What a step does to the tracker.
TrackerStep == T!Next \/ tracker' = T!EmptyTracker \/ tracker' = tracker

LEMMA NextByReport ==
  ASSUME TrackerOK(tracker), NEW r \in OrderReport, tracker' = Reported(tracker, r)
  PROVE  TrackerStep
<1>1. CASE ~ T!Accepts(tracker, r.order, TRUE, TRUE, r.status)
  BY <1>1 DEF Reported, TrackerStep
<1>2. CASE T!Accepts(tracker, r.order, TRUE, TRUE, r.status)
  <2>1. r.order \in Cid /\ r.status \in T!OrderStatus
    BY DEF OrderReport, T!OrderStatus, LiveStatus, Terminal, T!TERMINAL_STATUSES
  <2>2. r.filled \in 0 .. Qty + 1
    BY AdapterAssumption DEF OrderReport
  <2>3. T!Report(r.order, TRUE, TRUE, r.status, r.filled)
    BY <1>2 DEF Reported, T!Report
  <2> QED BY <2>1, <2>2, <2>3, Zenon DEF T!Next, TrackerStep
<1> QED BY <1>1, <1>2

LEMMA NextByOwn ==
  ASSUME TrackerOK(tracker), NEW c \in tracker.open, NEW s \in T!OrderStatus,
         \/ s \in {"CANCELED", "EXPIRED"}
         \/ (tracker.status[c] = "PENDING" /\ s # "PENDING"),
         tracker' = T!on_report(tracker, c, FALSE, s, 0)
  PROVE  TrackerStep
<1>1. c \in Cid /\ 0 \in 0 .. Qty + 1
  BY AdapterAssumption DEF TrackerOK, T!Tracker
<1>2. T!Accepts(tracker, c, TRUE, FALSE, s)
  BY OpenAccepts
<1>3. T!Report(c, TRUE, FALSE, s, 0)
  BY <1>2 DEF T!Report
<1> QED BY <1>1, <1>3, Zenon DEF T!Next, TrackerStep

LEMMA NextByTrack ==
  ASSUME NEW c \in Cid, T!CanTrack(tracker, c), tracker' = T!track_order(tracker, c)
  PROVE  TrackerStep
BY Zenon DEF T!Next, T!Track, TrackerStep

\* An order that is told to be what the venue has: PENDING, it accepts that.
LEMMA ResponseIsReport ==
  ASSUME NEW t, TrackerOK(t), NEW c \in t.open, t.status[c] = "PENDING",
         NEW r \in OrderReport, r.order = c, NEW u,
         u = T!on_report(t, c, TRUE, r.status, r.filled)
  PROVE  u = Reported(t, r)
<1>1. r.status \in T!OrderStatus /\ r.status # "PENDING"
  BY DEF OrderReport, T!OrderStatus, LiveStatus, Terminal, T!TERMINAL_STATUSES
<1>2. T!Accepts(t, c, TRUE, TRUE, r.status)
  BY <1>1, OpenAccepts
<1> QED BY <1>2 DEF Reported

\* Calls of the right type.
LEMMA CallTypes ==
  /\ Idle \in Call
  /\ \A k \in Call :
       /\ k.attempt < MaxAttempts => [k EXCEPT !.attempt = @ + 1] \in Call
       /\ \A r : [k EXCEPT !.reports = @ \ {r}] \in Call
       /\ \A c \in Cid, b \in BOOLEAN :
            [k EXCEPT !.looked = @ \cup {c},
                      !.unresolved = IF b THEN @ \cup {c} ELSE @] \in Call
       /\ \A s : s \in k.symbols =>
            [k EXCEPT !.symbols = @ \ {s}, !.canceled = @ \cup {s}, !.attempt = 1] \in Call
<1>1. 0 \in 0 .. MaxAttempts /\ 1 \in 0 .. MaxAttempts
  BY AdapterAssumption
<1>2. Idle \in Call
  BY <1>1 DEF Idle, Call
<1>3. ASSUME NEW k \in Call, k.attempt < MaxAttempts PROVE [k EXCEPT !.attempt = @ + 1] \in Call
  BY <1>3, AdapterAssumption DEF Call
<1>4. ASSUME NEW k \in Call, NEW r PROVE [k EXCEPT !.reports = @ \ {r}] \in Call
  BY DEF Call
<1>5. ASSUME NEW k \in Call, NEW c \in Cid, NEW b \in BOOLEAN
      PROVE  [k EXCEPT !.looked = @ \cup {c},
                       !.unresolved = IF b THEN @ \cup {c} ELSE @] \in Call
  BY DEF Call
<1>6. ASSUME NEW k \in Call, NEW s, s \in k.symbols
      PROVE  [k EXCEPT !.symbols = @ \ {s}, !.canceled = @ \cup {s}, !.attempt = 1] \in Call
  BY <1>1, <1>6 DEF Call
<1> QED BY <1>2, <1>3, <1>4, <1>5, <1>6

-----------------------------------------------------------------------------
(* The steps of the adapter *)

\* Between calls there is nothing to keep.
LEMMA IdleIsOK == ASSUME call' = Idle PROVE CallOK' /\ StopIsFlat'
BY DEF Idle, CallOK, StopIsFlat, Stopping

\* A step that changes neither the tracker nor the venue.
LEMMA QuietStep ==
  ASSUME IInv, UNCHANGED <<tracker, venueVars, history>>, active' \in QuoteCid \cup {None},
         call' \in Call, CallOK' /\ StopIsFlat'
  PROVE  IInv' /\ TrackerStep
BY DEF IInv, TypeOK, AllConsistent, excluded, NoSilentOrphan, Live, venueVars, history, TrackerStep

\* A step that ends the call and changes neither.
LEMMA ReturnStep ==
  ASSUME IInv, UNCHANGED <<tracker, venueVars, history>>, active' \in QuoteCid \cup {None}, Return
  PROVE  IInv' /\ TrackerStep
BY IdleIsOK, CallTypes, QuietStep DEF Return

\* What _sync_active_quote_from_tracker leaves is an open quote, or none.
LEMMA SyncedIsOpen ==
  ASSUME IInv, NEW a, a = SyncedActive(tracker)
  PROVE  a = None \/ a \in tracker.open \cap QuoteCid
BY DEF IInv, TypeOK, SyncedActive

LEMMA StartCancelStep ==
  ASSUME IInv, UNCHANGED <<tracker, venueVars, history>>, NEW a \in tracker.open \cap QuoteCid,
         active' = a, NEW n \in {"return", "submit"}, StartCancel(a, n)
  PROVE  IInv' /\ TrackerStep
<1>1. /\ call'.op = "cancel" /\ call'.order = a /\ call'.reports = {} /\ call'.attempt = 1
  BY DEF StartCancel, Idle
<1>2. call' \in Call
  <2>1. 1 \in 0 .. MaxAttempts /\ a \in Cid
    BY AdapterAssumption DEF Cid
  <2> QED BY <2>1 DEF StartCancel, Idle, Call
<1>3. CallOK' /\ StopIsFlat'
  BY <1>1 DEF CallOK, StopIsFlat, Stopping
<1> QED BY <1>2, <1>3, QuietStep

LEMMA StartSubmitStep ==
  ASSUME IInv, UNCHANGED <<venueVars, history>>, active' \in QuoteCid \cup {None},
         NEW c \in Cid, StartSubmit(c)
  PROVE  IInv' /\ TrackerStep
<1>1. /\ call'.op = "submit" /\ call'.order = c /\ call'.reports = {} /\ call'.attempt = 1
  BY DEF StartSubmit, Idle
<1>2. call' \in Call
  <2>1. 1 \in 0 .. MaxAttempts
    BY AdapterAssumption
  <2> QED BY <2>1 DEF StartSubmit, Idle, Call
<1>3. /\ Consistent(tracker', venue, stream, excluded, lost)
      /\ tracker'.open = tracker.open \cup {c} /\ tracker'.status[c] = "PENDING"
  BY NewOrder DEF IInv, TypeOK, AllConsistent, StartSubmit
<1>4. AllConsistent'
  BY <1>3 DEF AllConsistent, excluded, venueVars, history
<1>5. CallOK' /\ StopIsFlat'
  BY <1>1, <1>3 DEF CallOK, StopIsFlat, Stopping
<1>6. NoSilentOrphan'
  BY <1>3 DEF IInv, NoSilentOrphan, Live, venueVars, history
<1>7. TypeOK'
  BY <1>2, <1>3 DEF IInv, TypeOK, Consistent, TrackerOK, venueVars, history
<1>8. TrackerStep
  BY NextByTrack DEF StartSubmit
<1> QED BY <1>4, <1>5, <1>6, <1>7, <1>8 DEF IInv

LEMMA StartCallStep == ASSUME IInv, StartCall PROVE IInv' /\ TrackerStep
<1>1. CASE SubmitUnarmed \/ SubmitRequote
  <2>1. /\ active' = SyncedActive(tracker) /\ UNCHANGED <<tracker, venueVars, history>>
        /\ \/ Return
           \/ active' # None /\ StartCancel(active', "return")
           \/ active' # None /\ StartCancel(active', "submit")
    BY <1>1 DEF SubmitUnarmed, SubmitRequote, CancelThrottled, RequoteTooSmall
  <2>2. active' = None \/ active' \in tracker.open \cap QuoteCid
    BY <2>1, SyncedIsOpen
  <2>3. CASE Return
    BY <2>1, <2>2, <2>3, ReturnStep
  <2>4. ASSUME NEW n \in {"return", "submit"}, active' # None, StartCancel(active', n)
        PROVE  IInv' /\ TrackerStep
    <3>1. PICK a : a = active'
      OBVIOUS
    <3> QED BY <2>1, <2>2, <2>4, <3>1, StartCancelStep
  <2> QED BY <2>1, <2>3, <2>4
<1>2. ASSUME NEW c \in QuoteCid, SubmitQuote(c) PROVE IInv' /\ TrackerStep
  BY <1>2, StartSubmitStep DEF SubmitQuote, Cid
<1>3. ASSUME NEW c \in HedgeCid, submit_hedge_order(c) PROVE IInv' /\ TrackerStep
  BY <1>3, StartSubmitStep DEF submit_hedge_order, Cid, IInv, TypeOK
<1>4. CASE StartReconcile
  <2>1. /\ UNCHANGED <<tracker, active, venueVars, history>>
        /\ call'.op = "reconcile" /\ call'.reports = get_open_orders /\ call'.looked = {}
    BY <1>4 DEF StartReconcile, Idle
  <2>2. \A r \in get_open_orders : r \in OrderReport /\ r.order \in QuoteCid /\ StillTrue(r, venue)
    <3>1. SUFFICES ASSUME NEW c \in QuoteCid, Live(c)
                   PROVE  /\ get_order_status(c) \in OrderReport
                          /\ get_order_status(c).order \in QuoteCid
                          /\ StillTrue(get_order_status(c), venue)
      BY DEF get_open_orders
    <3>2. VenueOK(venue) /\ c \in Cid
      BY DEF IInv, AllConsistent, Consistent, Cid
    <3>3. get_order_status(c) \in OrderReport /\ get_order_status(c).order = c
      BY <3>1, <3>2 DEF get_order_status, OrderReport, VenueOK, Order, Live
    <3>4. Current(get_order_status(c), venue)
      BY DEF get_order_status, Current
    <3> QED BY <3>2, <3>3, <3>4, CurrentIsTrue
  <2>3. call' \in Call
    <3>1. get_open_orders \in SUBSET OrderReport /\ {r.order : r \in get_open_orders} \in SUBSET QuoteCid
      BY <2>2
    <3> HIDE DEF get_open_orders
    <3> QED BY <1>4, <3>1, CallTypes DEF StartReconcile, Idle, Call
  <2>4. CallOK' /\ StopIsFlat'
    BY <2>1, <2>2 DEF CallOK, StopIsFlat, Stopping, venueVars
  <2> QED BY <2>1, <2>3, <2>4, QuietStep DEF IInv, TypeOK
<1>5. ASSUME NEW symbols \in SUBSET {"quote", "hedge"}, emergency_stop(symbols)
      PROVE  IInv' /\ TrackerStep
  <2>1. /\ UNCHANGED <<tracker, active, venueVars, history>>
        /\ call'.op = "emergency_stop" /\ call'.reports = {} /\ call'.canceled = {}
    BY <1>5 DEF emergency_stop, Idle
  <2>2. call' \in Call
    <3>1. 1 \in 0 .. MaxAttempts
      BY AdapterAssumption
    <3> QED BY <1>5, <3>1 DEF emergency_stop, Idle, Call
  <2>3. CallOK' /\ StopIsFlat'
    BY <2>1 DEF CallOK, StopIsFlat, Stopping
  <2> QED BY <2>1, <2>2, <2>3, QuietStep DEF IInv, TypeOK
<1> QED BY <1>1, <1>2, <1>3, <1>4, <1>5 DEF StartCall

\* What a request to place an order may do to the venue: nothing, or the new
\* order is there and reported.
LEMMA PlaceAtVenue ==
  ASSUME IInv, NEW c \in Cid, Submitting(c),
         \/ venue[c].status = "NONE" /\ place_order(c)
         \/ UNCHANGED venueVars
  PROVE  /\ Consistent(tracker, venue', stream', excluded, lost)
         /\ Advances(venue, venue')
         /\ \A d \in Cid \ {c} : venue'[d] = venue[d]
         /\ c \in tracker.open /\ tracker.status[c] = "PENDING"
<1>1. /\ c \in tracker.open /\ tracker.status[c] = "PENDING"
      /\ Consistent(tracker, venue, stream, excluded, lost) /\ lost \in BOOLEAN
  BY DEF IInv, TypeOK, AllConsistent, CallOK, Submitting
<1>2. VenueOK(venue)
  BY <1>1 DEF Consistent
<1>3. CASE UNCHANGED venueVars
  <2>1. \A d \in Cid : venue[d].filled \in Int
    BY <1>2 DEF VenueOK, Order
  <2> QED BY <1>1, <1>3, <2>1 DEF venueVars, Advances
<1>4. CASE venue[c].status = "NONE" /\ place_order(c)
  <2>1. PICK s \in {"NEW", "EXPIRED", "FILLED"}, f \in {0, Qty} :
          VenueSet(c, s, f) /\ (s \in LiveStatus => f = 0)
    BY <1>4 DEF place_order, LiveStatus
  <2>2. /\ venue[c].filled = 0 /\ f \in 0 .. Qty /\ f >= 0 /\ 0 < Qty
        /\ s \in LiveStatus \cup {"FILLED", "CANCELED", "EXPIRED"}
    BY <1>2, <1>4, AdapterAssumption DEF VenueOK, LiveStatus
  <2> QED BY <1>1, <1>4, <2>1, <2>2, VenueSets
<1> QED BY <1>3, <1>4

\* The response to a submission is true of the venue as it now is.
LEMMA AcceptedStep ==
  ASSUME IInv, NEW c \in Cid, Submitting(c), Accepted(c), venue'[c].status # "NONE",
         \/ venue[c].status = "NONE" /\ place_order(c)
         \/ UNCHANGED venueVars
  PROVE  IInv' /\ TrackerStep
<1>1. /\ Consistent(tracker, venue', stream', excluded, lost)
      /\ \A d \in Cid \ {c} : venue'[d] = venue[d]
      /\ c \in tracker.open /\ tracker.status[c] = "PENDING"
  BY PlaceAtVenue
<1>2. PICK r : r = [order |-> c, status |-> venue'[c].status, filled |-> venue'[c].filled]
  OBVIOUS
<1>3. r.order = c /\ r.status = venue'[c].status /\ r.filled = venue'[c].filled
  BY <1>2
<1>4. VenueOK(venue') /\ TrackerOK(tracker)
  BY <1>1 DEF Consistent
<1>5. r \in OrderReport
  BY <1>2, <1>4 DEF VenueOK, Order, OrderReport
<1>6. StillTrue(r, venue')
  BY <1>3, <1>4, <1>5, CurrentIsTrue DEF Current
<1>7. tracker' = Reported(tracker, r)
  BY <1>1, <1>3, <1>4, <1>5, ResponseIsReport DEF Accepted
<1>8. /\ Consistent(tracker', venue', stream', excluded, lost)
      /\ \A d \in tracker.open \ tracker'.open : d = c /\ venue'[c].status \in Terminal
  BY <1>1, <1>3, <1>5, <1>6, <1>7, TrueReport DEF IInv, TypeOK
<1>9. AllConsistent'
  BY <1>8 DEF AllConsistent, excluded, Accepted, history
<1>10. NoSilentOrphan'
  BY <1>1, <1>8 DEF IInv, NoSilentOrphan, Live, LiveStatus, Terminal, T!TERMINAL_STATUSES,
                    Accepted, history, Cid
<1>11. call' \in Call /\ active' \in QuoteCid \cup {None}
  BY CallTypes DEF Accepted, Return, IInv, TypeOK
<1>12. TypeOK'
  BY <1>8, <1>11 DEF IInv, TypeOK, Consistent, TrackerOK, VenueOK, StreamOK, Accepted, history
<1>13. CallOK' /\ StopIsFlat'
  BY IdleIsOK DEF Accepted, Return
<1> QED BY <1>4, <1>5, <1>7, <1>9, <1>10, <1>12, <1>13, NextByReport DEF IInv

\* A rejected order is one the venue does not have, or of unknown fate.
LEMMA RejectedStep ==
  ASSUME IInv, NEW c \in Cid, Submitting(c), Rejected(c),
         \/ venue[c].status = "NONE" /\ place_order(c)
         \/ UNCHANGED venueVars
  PROVE  IInv' /\ TrackerStep
<1>1. /\ Consistent(tracker, venue', stream', excluded, lost)
      /\ \A d \in Cid \ {c} : venue'[d] = venue[d]
      /\ c \in tracker.open /\ tracker.status[c] = "PENDING"
  BY PlaceAtVenue
<1>2. /\ tracker' \in Told(tracker, c, "REJECTED", 0)
      /\ unknownFate \subseteq unknownFate' /\ unknownFate' \subseteq Cid
      /\ venue'[c].status = "NONE" \/ c \in unknownFate'
      /\ UNCHANGED <<active, assumedClosed, lost, restarts>>
  BY DEF Rejected, Told, IInv, TypeOK
<1>3. /\ excluded \subseteq excluded'
      /\ venue'[c].status = "NONE" \/ c \in excluded'
  BY <1>2 DEF excluded
<1>4. Consistent(tracker', venue', stream', excluded', lost) /\ tracker'.open = tracker.open \ {c}
  <2>1. Consistent(tracker, venue', stream', excluded', lost) /\ lost \in BOOLEAN
    BY <1>1, <1>3, ExcludesMore DEF IInv, TypeOK
  <2> HIDE DEF excluded
  <2> QED BY <1>1, <1>2, <1>3, <2>1, OwnReport
<1>5. AllConsistent'
  BY <1>2, <1>4 DEF AllConsistent
<1>6. NoSilentOrphan'
  BY <1>1, <1>2, <1>4 DEF IInv, NoSilentOrphan, Live, LiveStatus, Cid
<1>7. call' \in Call
  BY CallTypes DEF Rejected, Return
<1>8. TypeOK'
  BY <1>2, <1>4, <1>7 DEF IInv, TypeOK, Consistent, TrackerOK, VenueOK, StreamOK
<1>9. CallOK' /\ StopIsFlat'
  BY IdleIsOK DEF Rejected, Return
<1>10. TrackerStep
  <2>1. TrackerOK(tracker) /\ "REJECTED" \in T!OrderStatus
    BY <1>1 DEF Consistent, T!OrderStatus
  <2> QED BY <1>1, <2>1, NextByOwn DEF Rejected
<1> QED BY <1>5, <1>6, <1>8, <1>9, <1>10 DEF IInv

\* A request was lost and is made again: only the venue may have moved.
LEMMA RetryStep ==
  ASSUME IInv, Retry, ~ LastAttempt, UNCHANGED <<tracker, active, history>>,
         Consistent(tracker, venue', stream', excluded, lost), Advances(venue, venue'),
         \A c \in Cid : Live(c)' => Live(c) \/ (call.op = "submit" /\ c \in tracker.open)
  PROVE  IInv' /\ TrackerStep
<1>1. call \in Call /\ VenueOK(venue) /\ VenueOK(venue')
  BY DEF IInv, TypeOK, AllConsistent, Consistent
<1>2. call.attempt < MaxAttempts
  BY <1>1, AdapterAssumption DEF LastAttempt, Call
<1>3. call' \in Call
  BY <1>1, <1>2, CallTypes DEF Retry
<1>4. /\ call'.op = call.op /\ call'.order = call.order /\ call'.reports = call.reports
      /\ call'.looked = call.looked /\ call'.unresolved = call.unresolved
      /\ call'.canceled = call.canceled /\ call'.unread = call.unread
  BY <1>1 DEF Retry, Call
<1>5. call.reports \subseteq OrderReport /\ \A r \in call.reports : StillTrue(r, venue)
  BY DEF IInv, TypeOK, Call, CallOK
<1>6. \A r \in call.reports : StillTrue(r, venue')
  BY <1>1, <1>5, StaysTrue
<1>7. CallOK'
  BY <1>4, <1>6 DEF IInv, CallOK
<1>8. StopIsFlat'
  BY <1>4 DEF IInv, StopIsFlat, Stopping
<1>9. NoSilentOrphan'
  BY DEF IInv, NoSilentOrphan, Cid, history
<1>10. TypeOK'
  BY <1>3 DEF IInv, TypeOK, Consistent, VenueOK, StreamOK, history
<1>11. AllConsistent'
  BY DEF AllConsistent, excluded, history
<1> QED BY <1>7, <1>8, <1>9, <1>10, <1>11 DEF IInv, TrackerStep

LEMMA SubmitStep ==
  ASSUME IInv, NEW c \in Cid,
         PlaceAccepted(c) \/ PlaceLost(c) \/ PlaceRefused(c) \/ PlaceMalformed(c) \/ PlaceDuplicate(c)
  PROVE  IInv' /\ TrackerStep
<1>1. CASE PlaceAccepted(c)
  <2>1. venue'[c].status # "NONE"
    <3>1. VenueOK(venue)
      BY DEF IInv, AllConsistent, Consistent
    <3> QED BY <1>1, <3>1 DEF PlaceAccepted, place_order, VenueSet, VenueOK
  <2> QED BY <1>1, <2>1, AcceptedStep DEF PlaceAccepted
<1>2. CASE PlaceLost(c)
  <2>1. CASE LastAttempt
    BY <1>2, <2>1, RejectedStep DEF PlaceLost
  <2>2. CASE ~ LastAttempt
    <3>1. /\ Consistent(tracker, venue', stream', excluded, lost) /\ Advances(venue, venue')
          /\ \A d \in Cid \ {c} : venue'[d] = venue[d]
          /\ c \in tracker.open
      BY <1>2, PlaceAtVenue DEF PlaceLost
    <3>2. \A d \in Cid : Live(d)' => Live(d) \/ (call.op = "submit" /\ d \in tracker.open)
      BY <1>2, <3>1 DEF Live, PlaceLost, Submitting
    <3> QED BY <1>2, <2>2, <3>1, <3>2, RetryStep DEF PlaceLost
  <2> QED BY <2>1, <2>2
<1>3. CASE PlaceRefused(c)
  BY <1>3, RejectedStep DEF PlaceRefused
<1>4. CASE PlaceMalformed(c)
  BY <1>4, RejectedStep DEF PlaceMalformed
<1>5. CASE PlaceDuplicate(c)
  BY <1>5, RejectedStep, AcceptedStep DEF PlaceDuplicate, venueVars
<1> QED BY <1>1, <1>2, <1>3, <1>4, <1>5

\* Only the venue has moved, the call in progress is at the same point or ended.
LEMMA VenueOnlyStep ==
  ASSUME IInv, call' = call \/ call' = Idle,
         UNCHANGED <<tracker, active, unknownFate, assumedClosed, restarts>>, lost' \in BOOLEAN,
         Consistent(tracker, venue', stream', excluded, lost'), Advances(venue, venue'),
         \A c \in Cid : Live(c)' => Live(c)
  PROVE  IInv' /\ TrackerStep
<1>1. call \in Call /\ VenueOK(venue) /\ VenueOK(venue')
  BY DEF IInv, TypeOK, AllConsistent, Consistent
<1>2. call.reports \subseteq OrderReport /\ \A r \in call.reports : StillTrue(r, venue)
  BY DEF IInv, TypeOK, Call, CallOK
<1>3. \A r \in call.reports : StillTrue(r, venue')
  BY <1>1, <1>2, StaysTrue
<1>4. CallOK' /\ StopIsFlat'
  <2>1. CASE call' = call
    BY <1>3, <2>1 DEF IInv, CallOK, StopIsFlat, Stopping
  <2>2. CASE call' = Idle
    BY <2>2, IdleIsOK
  <2> QED BY <2>1, <2>2
<1>5. NoSilentOrphan'
  BY DEF IInv, NoSilentOrphan, Cid
<1>6. TypeOK'
  BY <1>1, CallTypes DEF IInv, TypeOK, Consistent, VenueOK, StreamOK
<1>7. AllConsistent'
  BY DEF AllConsistent, excluded
<1> QED BY <1>4, <1>5, <1>6, <1>7 DEF IInv, TrackerStep

\* The venue takes a cancellation.
LEMMA CancelAtVenue ==
  ASSUME IInv, NEW c \in Cid, cancel_order(c)
  PROVE  /\ Consistent(tracker, venue', stream', excluded, lost)
         /\ Advances(venue, venue') /\ Pending(stream', c)
         /\ venue'[c].status = "CANCELED"
         /\ \A d \in Cid : Live(d)' => Live(d)
<1>1. Consistent(tracker, venue, stream, excluded, lost) /\ lost \in BOOLEAN /\ VenueOK(venue)
  BY DEF IInv, TypeOK, AllConsistent, Consistent
<1>2. PICK f : f = venue[c].filled
  OBVIOUS
<1>3. f \in 0 .. Qty /\ venue[c].filled <= f
  BY <1>1, <1>2 DEF VenueOK, Order
<1>4. Live(c) /\ VenueSet(c, "CANCELED", f)
  BY <1>2 DEF cancel_order
<1>5. PICK s \in LiveStatus \cup {"FILLED", "CANCELED", "EXPIRED"} :
        s = "CANCELED" /\ s \notin LiveStatus
  BY DEF LiveStatus
<1>6. /\ Consistent(tracker, venue', stream', excluded, lost)
      /\ Advances(venue, venue') /\ Pending(stream', c)
      /\ venue'[c] = [status |-> s, filled |-> f]
      /\ \A d \in Cid \ {c} : venue'[d] = venue[d]
  BY <1>1, <1>3, <1>4, <1>5, VenueSets
<1> QED BY <1>5, <1>6 DEF Live

\* A request that was lost is made again, or it was the last attempt.
LEMMA LostStep ==
  ASSUME IInv, IF LastAttempt THEN Return ELSE Retry, UNCHANGED <<tracker, active, history>>,
         Consistent(tracker, venue', stream', excluded, lost), Advances(venue, venue'),
         \A c \in Cid : Live(c)' => Live(c)
  PROVE  IInv' /\ TrackerStep
<1>1. CASE LastAttempt
  BY <1>1, VenueOnlyStep DEF Return, history, IInv, TypeOK
<1>2. CASE ~ LastAttempt
  BY <1>2, RetryStep
<1> QED BY <1>1, <1>2

\* Nothing moves.
LEMMA VenueRests ==
  ASSUME IInv, UNCHANGED venueVars
  PROVE  /\ Consistent(tracker, venue', stream', excluded, lost) /\ Advances(venue, venue')
         /\ \A c \in Cid : Live(c)' => Live(c)
<1>1. \A c \in Cid : venue[c].filled \in Int
  BY DEF IInv, AllConsistent, Consistent, VenueOK, Order
<1> QED BY <1>1 DEF IInv, AllConsistent, venueVars, Advances, Live

\* An order that is assumed closed, and is not live.
LEMMA AssumeClosedStep ==
  ASSUME IInv, NEW c \in tracker.open, c \in QuoteCid => ~ Live(c),
         tracker' = AssumeClosed(tracker, c), assumedClosed' = assumedClosed \cup {c},
         UNCHANGED <<venueVars, unknownFate, lost, restarts>>,
         active' \in QuoteCid \cup {None}, call' \in Call, CallOK' /\ StopIsFlat'
  PROVE  /\ IInv' /\ TrackerStep
<1>1. tracker' \in Told(tracker, c, "EXPIRED", 0)
  BY DEF AssumeClosed, Told
<1>2. /\ Consistent(tracker, venue, stream, excluded, lost) /\ TrackerOK(tracker)
      /\ excluded \subseteq excluded' /\ c \in excluded' /\ lost \in BOOLEAN /\ c \in Cid
  BY DEF IInv, TypeOK, AllConsistent, Consistent, excluded, TrackerOK, T!Tracker
<1>3. Consistent(tracker', venue, stream, excluded', lost) /\ tracker'.open = tracker.open \ {c}
  <2>1. Consistent(tracker, venue, stream, excluded', lost)
    BY <1>2, ExcludesMore
  <2> HIDE DEF excluded
  <2> QED BY <1>1, <1>2, <2>1, OwnReport
<1>4. AllConsistent'
  BY <1>3 DEF AllConsistent, venueVars
<1>5. NoSilentOrphan'
  BY <1>3 DEF IInv, NoSilentOrphan, Live, venueVars
<1>6. TypeOK'
  BY <1>2, <1>3 DEF IInv, TypeOK, Consistent, TrackerOK, venueVars
<1>7. TrackerStep
  <2>1. "EXPIRED" \in T!OrderStatus
    BY DEF T!OrderStatus
  <2> QED BY <1>2, <2>1, NextByOwn DEF AssumeClosed
<1> QED BY <1>4, <1>5, <1>6, <1>7 DEF IInv

\* After a cancellation the call is over, or asks for a new quote.
LEMMA QuoteCanceledIsOK ==
  ASSUME QuoteCanceled
  PROVE  call' \in Call /\ CallOK' /\ StopIsFlat' /\ active' = None
<1>1. [Idle EXCEPT !.op = "requote"] \in Call /\ Idle \in Call
  BY CallTypes DEF Idle, Call
<1>2. call'.op \in {"idle", "requote"} /\ call'.reports = {}
  BY DEF QuoteCanceled, Idle
<1> QED BY <1>1, <1>2 DEF QuoteCanceled, CallOK, StopIsFlat, Stopping

LEMMA CancelStep ==
  ASSUME IInv, \/ CancelOk \/ CancelUnknown \/ CancelLost \/ CancelRefused
               \/ AbortedCall \/ \E c \in QuoteCid : Requote(c)
  PROVE  IInv' /\ TrackerStep
<1>1. Cancelling => call.order \in tracker.open \cap QuoteCid /\ call.order \in Cid
  BY DEF IInv, CallOK, Cancelling, Cid
<1>2. CASE CancelOk
  <2>1. PICK c \in tracker.open \cap QuoteCid : c = call.order /\ c \in Cid
    BY <1>1, <1>2 DEF CancelOk
  <2>2. /\ Consistent(tracker, venue', stream', excluded, lost) /\ Pending(stream', c)
        /\ venue'[c].status = "CANCELED" /\ \A d \in Cid : Live(d)' => Live(d)
    BY <1>2, <2>1, CancelAtVenue DEF CancelOk
  <2>3. tracker' \in Told(tracker, c, "CANCELED", 0)
    BY <1>2, <2>1 DEF CancelOk, Told
  <2>4. Consistent(tracker', venue', stream', excluded, lost) /\ tracker'.open = tracker.open \ {c}
    <3>1. lost \in BOOLEAN
      BY DEF IInv, TypeOK
    <3> QED BY <2>1, <2>2, <2>3, <3>1, OwnReport
  <2>5. AllConsistent'
    BY <1>2, <2>4 DEF AllConsistent, excluded, CancelOk, history
  <2>6. NoSilentOrphan'
    BY <1>2, <2>2, <2>4 DEF IInv, NoSilentOrphan, Live, LiveStatus, CancelOk, history, Cid
  <2>7. call' \in Call /\ CallOK' /\ StopIsFlat' /\ active' = None
    BY <1>2, QuoteCanceledIsOK DEF CancelOk
  <2>8. TypeOK'
    BY <1>2, <2>4, <2>7 DEF IInv, TypeOK, Consistent, TrackerOK, VenueOK, StreamOK, CancelOk, history
  <2>9. TrackerStep
    <3>1. TrackerOK(tracker) /\ "CANCELED" \in T!OrderStatus
      BY <2>2 DEF Consistent, T!OrderStatus
    <3> QED BY <1>2, <2>1, <3>1, NextByOwn DEF CancelOk
  <2> QED BY <2>5, <2>6, <2>7, <2>8, <2>9 DEF IInv
<1>3. CASE CancelUnknown
  <2>1. PICK c \in tracker.open : c = call.order
    BY <1>1, <1>3 DEF CancelUnknown
  <2>2. call' \in Call /\ CallOK' /\ StopIsFlat' /\ active' = None
    BY <1>3, QuoteCanceledIsOK DEF CancelUnknown
  <2> QED BY <1>3, <2>1, <2>2, AssumeClosedStep DEF CancelUnknown
<1>4. CASE CancelLost
  <2>1. /\ Consistent(tracker, venue', stream', excluded, lost) /\ Advances(venue, venue')
        /\ \A c \in Cid : Live(c)' => Live(c)
    BY <1>1, <1>4, CancelAtVenue, VenueRests DEF CancelLost
  <2> QED BY <1>4, <2>1, LostStep DEF CancelLost
<1>5. CASE CancelRefused \/ AbortedCall
  BY <1>5, ReturnStep DEF CancelRefused, AbortedCall, IInv, TypeOK
<1>6. ASSUME NEW c \in QuoteCid, Requote(c) PROVE IInv' /\ TrackerStep
  BY <1>6, StartSubmitStep DEF Requote, Cid, IInv, TypeOK
<1> QED BY <1>2, <1>3, <1>4, <1>5, <1>6

\* A report that was true is handed to the tracker.
LEMMA ReportedStep ==
  ASSUME IInv, NEW r \in OrderReport, StillTrue(r, venue), tracker' = Reported(tracker, r),
         UNCHANGED <<venueVars, history>>, active' \in QuoteCid \cup {None},
         call' \in Call, CallOK' /\ StopIsFlat'
  PROVE  IInv' /\ TrackerStep
<1>1. /\ Consistent(tracker', venue, stream, excluded, lost)
      /\ \A c \in tracker.open \ tracker'.open : c = r.order /\ venue[c].status \in Terminal
  BY TrueReport DEF IInv, TypeOK, AllConsistent
<1>2. AllConsistent'
  BY <1>1 DEF AllConsistent, excluded, venueVars, history
<1>3. NoSilentOrphan'
  BY <1>1 DEF IInv, NoSilentOrphan, Live, LiveStatus, Terminal, T!TERMINAL_STATUSES, venueVars, history
<1>4. TypeOK'
  BY <1>1 DEF IInv, TypeOK, Consistent, TrackerOK, venueVars, history
<1>5. TrackerStep
  BY NextByReport DEF IInv, AllConsistent, Consistent
<1> QED BY <1>2, <1>3, <1>4, <1>5 DEF IInv

\* A report closes what it says has ended, unless it raises.
LEMMA ReportCloses ==
  ASSUME NEW t, TrackerOK(t), NEW r \in OrderReport, r.order \in t.open, ~ Raises(t, r),
         r.status \in Terminal, NEW u, u = Reported(t, r)
  PROVE  r.order \notin u.open
<1>1. T!Accepts(t, r.order, TRUE, TRUE, r.status)
  BY DEF Raises, T!RaisesInvalid, T!Accepts, T!_find_state
<1>2. u \in Told(t, r.order, r.status, r.filled)
  BY <1>1 DEF Reported, Told
<1>3. /\ r.order \in Held(t) /\ r.status \in T!OrderStatus /\ r.filled \in 0 .. Qty
      /\ t.status[r.order] \notin Terminal
  BY DEF Held, TrackerOK, OrderReport, T!OrderStatus, Terminal, T!TERMINAL_STATUSES, LiveStatus
<1>4. PICK c, s, f : c = r.order /\ s = r.status /\ f = r.filled
  OBVIOUS
<1>5. u.open = t.open \ {c}
  <2>1. /\ c \in Held(t) /\ s \in T!OrderStatus /\ f \in 0 .. Qty /\ s \in Terminal
        /\ t.status[c] \notin Terminal /\ u \in Told(t, c, s, f)
    BY <1>2, <1>3, <1>4
  <2> QED BY <2>1, ReportEffect
<1> QED BY <1>4, <1>5

LEMMA ReconcileStep ==
  ASSUME IInv, \/ \E r \in call.reports : ReconcileReport(r)
               \/ \E c \in Cid : LookUpFailed(c) \/ LookUpNotFound(c) \/ LookUpFound(c)
               \/ FinishReconcile
  PROVE  IInv' /\ TrackerStep
<1>1. /\ call \in Call /\ call.op = "reconcile" /\ tracker.open \subseteq Cid
      /\ \A r \in call.reports : r \in OrderReport /\ StillTrue(r, venue)
      /\ tracker.open \cap call.looked \subseteq call.unresolved
      /\ active \in QuoteCid \cup {None}
  BY DEF IInv, TypeOK, CallOK, Call, T!Tracker, ReconcileReport, LookUpFailed, LookUpNotFound,
         LookUpFound, LookUp, FinishReconcile, ReconcileDone, Reconciling
<1>2. ASSUME NEW r \in OrderReport, tracker' = Reported(tracker, r)
      PROVE  /\ SyncedActive(tracker') \in QuoteCid \cup {None}
             /\ StillTrue(r, venue) => tracker'.open \subseteq tracker.open
  <2>1. SyncedActive(tracker') \in QuoteCid \cup {None}
    BY <1>1 DEF SyncedActive
  <2>2. ASSUME StillTrue(r, venue) PROVE tracker'.open \subseteq tracker.open
    BY <1>2, <2>2, TrueReport DEF IInv, TypeOK, AllConsistent
  <2> QED BY <2>1, <2>2
<1>3. ASSUME NEW r \in call.reports, ReconcileReport(r) PROVE IInv' /\ TrackerStep
  <2>1. CASE Raises(tracker, r)
    BY <1>1, <1>3, <2>1, ReturnStep DEF ReconcileReport
  <2>2. CASE ~ Raises(tracker, r)
    <3>1. /\ tracker' = Reported(tracker, r) /\ active' = SyncedActive(tracker')
          /\ call' = [call EXCEPT !.reports = @ \ {r}] /\ UNCHANGED <<venueVars, history>>
      BY <1>3, <2>2 DEF ReconcileReport
    <3>2. tracker'.open \subseteq tracker.open /\ active' \in QuoteCid \cup {None}
      BY <1>1, <1>2, <3>1
    <3>3. call' \in Call
      BY <1>1, <3>1, CallTypes
    <3>4. /\ call'.op = "reconcile" /\ call'.reports \subseteq call.reports
          /\ call'.looked = call.looked /\ call'.unresolved = call.unresolved
      BY <1>1, <3>1 DEF Call
    <3>5. CallOK' /\ StopIsFlat'
      BY <1>1, <3>1, <3>2, <3>4 DEF CallOK, StopIsFlat, Stopping, venueVars
    <3> QED BY <1>1, <3>1, <3>2, <3>3, <3>5, ReportedStep
  <2> QED BY <2>1, <2>2
<1>4. ASSUME NEW c \in Cid, NEW b \in BOOLEAN, LookUp(c), Looked(c, b),
             tracker'.open \subseteq tracker.open, b \/ c \notin tracker'.open
      PROVE  call' \in Call /\ CallOK' /\ StopIsFlat'
  <2>1. call' \in Call
    BY <1>1, <1>4, CallTypes DEF Looked
  <2>2. /\ call'.op = "reconcile" /\ call'.reports = {}
        /\ call'.looked = call.looked \cup {c}
        /\ call.unresolved \subseteq call'.unresolved /\ (b => c \in call'.unresolved)
    BY <1>1, <1>4 DEF Looked, LookUp, Call
  <2> QED BY <1>1, <1>4, <2>1, <2>2 DEF CallOK, StopIsFlat, Stopping
<1>5. ASSUME NEW c \in Cid, LookUpFailed(c) PROVE IInv' /\ TrackerStep
  <2>1. call' \in Call /\ CallOK' /\ StopIsFlat'
    BY <1>4, <1>5 DEF LookUpFailed
  <2> QED BY <1>1, <1>5, <2>1, QuietStep DEF LookUpFailed
<1>6. ASSUME NEW c \in Cid, LookUpNotFound(c) PROVE IInv' /\ TrackerStep
  <2>1. c \in tracker.open /\ (c \in QuoteCid => ~ Live(c))
    BY <1>6, AdapterAssumption
       DEF LookUpNotFound, LookUp, NotFound, Live, LiveStatus
  <2>2. tracker'.open = tracker.open \ {c}
    <3>1. tracker' \in Told(tracker, c, "EXPIRED", 0)
      BY <1>6, <2>1 DEF LookUpNotFound, AssumeClosed, Told
    <3>2. /\ TrackerOK(tracker) /\ c \in Held(tracker) /\ tracker.status[c] \notin Terminal
          /\ "EXPIRED" \in T!OrderStatus /\ "EXPIRED" \in Terminal /\ 0 \in 0 .. Qty
      BY <2>1, AdapterAssumption
         DEF IInv, AllConsistent, Consistent, TrackerOK, Held, T!OrderStatus, Terminal,
             T!TERMINAL_STATUSES
    <3> QED BY <3>1, <3>2, ReportEffect
  <2>3. call' \in Call /\ CallOK' /\ StopIsFlat'
    BY <1>4, <1>6, <2>2 DEF LookUpNotFound
  <2> QED BY <1>1, <1>6, <2>1, <2>3, AssumeClosedStep DEF LookUpNotFound
<1>7. ASSUME NEW c \in Cid, LookUpFound(c) PROVE IInv' /\ TrackerStep
  <2>1. PICK r : r = get_order_status(c)
    OBVIOUS
  <2>2. r.order = c /\ r.status = venue[c].status /\ r.filled = venue[c].filled
    BY <2>1 DEF get_order_status
  <2>3. VenueOK(venue) /\ TrackerOK(tracker)
    BY DEF IInv, AllConsistent, Consistent
  <2>4. venue[c].status # "NONE" /\ c \in tracker.open
    BY <1>7 DEF LookUpFound, NotFound, LookUp
  <2>5. r \in OrderReport
    BY <2>1, <2>3, <2>4 DEF get_order_status, VenueOK, Order, OrderReport
  <2>6. StillTrue(r, venue)
    BY <2>2, <2>3, <2>5, CurrentIsTrue DEF Current
  <2>7. CASE Raises(tracker, r)
    BY <1>1, <1>7, <2>1, <2>7, ReturnStep DEF LookUpFound
  <2>8. CASE ~ Raises(tracker, r)
    <3>1. /\ tracker' = Reported(tracker, r) /\ active' = SyncedActive(tracker')
          /\ Looked(c, Live(c)) /\ LookUp(c) /\ UNCHANGED <<venueVars, history>>
      BY <1>7, <2>1, <2>8 DEF LookUpFound
    <3>2. tracker'.open \subseteq tracker.open /\ active' \in QuoteCid \cup {None}
      BY <1>2, <2>5, <2>6, <3>1
    <3>3. Live(c) \/ c \notin tracker'.open
      <4>1. Live(c) \/ r.status \in Terminal
        BY <2>2, <2>4, <2>5 DEF OrderReport, Live
      <4> QED BY <2>2, <2>3, <2>4, <2>5, <2>8, <3>1, <4>1, ReportCloses
    <3>4. call' \in Call /\ CallOK' /\ StopIsFlat'
      <4>1. CASE Live(c)
        <5>1. Looked(c, TRUE)
          BY <3>1, <4>1 DEF Looked
        <5> QED BY <1>4, <3>1, <3>2, <5>1
      <4>2. CASE ~ Live(c)
        <5>1. Looked(c, FALSE)
          BY <3>1, <4>2 DEF Looked
        <5> QED BY <1>4, <3>1, <3>2, <3>3, <4>2, <5>1
      <4> QED BY <4>1, <4>2
    <3> QED BY <2>5, <2>6, <3>1, <3>2, <3>4, ReportedStep
  <2> QED BY <2>7, <2>8
<1>8. CASE FinishReconcile
  BY <1>1, <1>8, ReturnStep DEF FinishReconcile
<1> QED BY <1>3, <1>5, <1>6, <1>7, <1>8

LEMMA StopStep ==
  ASSUME IInv, \/ \E s \in call.symbols : CancelAllOk(s) \/ CancelAllUnread(s) \/ CancelAllLost(s)
               \/ CancelAllRefused \/ StopDone
  PROVE  IInv' /\ TrackerStep
<1>1. /\ Consistent(tracker, venue, stream, excluded, lost) /\ lost \in BOOLEAN
      /\ call \in Call /\ VenueOK(venue)
  BY DEF IInv, TypeOK, AllConsistent, Consistent
<1>2. ASSUME NEW s \in call.symbols, CancelAllOk(s) \/ CancelAllUnread(s)
      PROVE  IInv' /\ TrackerStep
  <2>1. /\ Consistent(tracker, venue', stream', excluded, lost)
        /\ Advances(venue, venue')
        /\ \A c \in Cid : Live(c)' => Live(c)
        /\ CancelAllOk(s) => \A c \in OnSymbol(s) \cap Cid : ~ Live(c)'
    BY <1>1, <1>2, VenueCancelsAll, VenueRests DEF CancelAllOk, CancelAllUnread
  <2>2. /\ call' \in Call
        /\ call'.op = "emergency_stop" /\ call'.reports = call.reports
        /\ call'.canceled = call.canceled \cup {s}
        /\ call'.unread = IF CancelAllOk(s) THEN call.unread ELSE call.unread \cup {s}
    <3>1. CASE CancelAllOk(s)
      <4>1. call' = [call EXCEPT !.symbols = @ \ {s}, !.canceled = @ \cup {s}, !.attempt = 1]
        BY <3>1 DEF CancelAllOk
      <4>2. call' \in Call
        BY <1>1, <4>1, CallTypes
      <4>3. /\ call'.op = call.op /\ call'.reports = call.reports
            /\ call'.canceled = call.canceled \cup {s} /\ call'.unread = call.unread
        BY <1>1, <4>1 DEF Call
      <4> QED BY <3>1, <4>2, <4>3 DEF CancelAllOk, Stopping
    <3>2. CASE ~ CancelAllOk(s)
      <4>1. call' = [call EXCEPT !.symbols = @ \ {s}, !.canceled = @ \cup {s},
                                !.unread = @ \cup {s}, !.attempt = 1]
        BY <1>2, <3>2 DEF CancelAllUnread
      <4>2. call' \in Call
        <5>1. /\ s \in {"quote", "hedge"}
              /\ call.symbols \ {s} \in SUBSET {"quote", "hedge"}
              /\ call.canceled \cup {s} \in SUBSET {"quote", "hedge"}
              /\ call.unread \cup {s} \in SUBSET {"quote", "hedge"}
              /\ 1 \in 0 .. MaxAttempts
          BY <1>1, AdapterAssumption DEF Call
        <5> QED BY <1>1, <4>1, <5>1 DEF Call
      <4>3. /\ call'.op = call.op /\ call'.reports = call.reports
            /\ call'.canceled = call.canceled \cup {s} /\ call'.unread = call.unread \cup {s}
        BY <1>1, <4>1 DEF Call
      <4> QED BY <1>2, <3>2, <4>2, <4>3 DEF CancelAllUnread, Stopping
    <3> QED BY <3>1, <3>2
  <2>3. UNCHANGED <<tracker, active, history>> /\ call.op = "emergency_stop"
    BY <1>2 DEF CancelAllOk, CancelAllUnread, Stopping
  <2>4. StopIsFlat'
    <3>1. ASSUME NEW t \in call'.canceled \ call'.unread, NEW c \in Cid, c \in OnSymbol(t)
          PROVE  ~ Live(c)'
      <4>1. CASE t = s
        BY <2>1, <2>2, <3>1, <4>1
      <4>2. CASE t # s
        BY <2>1, <2>2, <2>3, <3>1, <4>2 DEF IInv, StopIsFlat, Stopping
      <4> QED BY <4>1, <4>2
    <3> QED BY <3>1 DEF StopIsFlat
  <2>5. \A r \in call.reports : StillTrue(r, venue')
    <3>1. call.reports \subseteq OrderReport /\ \A r \in call.reports : StillTrue(r, venue)
      BY DEF IInv, TypeOK, Call, CallOK
    <3>2. VenueOK(venue')
      BY <2>1 DEF Consistent
    <3> QED BY <1>1, <2>1, <3>1, <3>2, StaysTrue
  <2>6. CallOK'
    BY <2>2, <2>5 DEF CallOK
  <2>8. NoSilentOrphan'
    BY <2>1, <2>3 DEF IInv, NoSilentOrphan, Cid, history
  <2>9. TypeOK'
    BY <2>1, <2>2, <2>3 DEF IInv, TypeOK, Consistent, VenueOK, StreamOK, history
  <2>10. AllConsistent'
    BY <2>1, <2>3 DEF AllConsistent, excluded, history
  <2> QED BY <2>3, <2>4, <2>6, <2>8, <2>9, <2>10 DEF IInv, TrackerStep
<1>3. ASSUME NEW s \in call.symbols, CancelAllLost(s) PROVE IInv' /\ TrackerStep
  <2>1. /\ Consistent(tracker, venue', stream', excluded, lost)
        /\ Advances(venue, venue') /\ \A c \in Cid : Live(c)' => Live(c)
    BY <1>1, <1>3, VenueCancelsAll, VenueRests DEF CancelAllLost
  <2> QED BY <1>3, <2>1, LostStep DEF CancelAllLost
<1>4. CASE CancelAllRefused \/ StopDone
  BY <1>4, ReturnStep DEF CancelAllRefused, StopDone, IInv, TypeOK
<1> QED BY <1>2, <1>3, <1>4

\* The oldest report of the stream: what was pending only in it now agrees.
LEMMA StreamStep == ASSUME IInv, on_execution_report PROVE IInv' /\ TrackerStep
<1>1. /\ Consistent(tracker, venue, stream, excluded, lost) /\ lost \in BOOLEAN
      /\ TrackerOK(tracker) /\ VenueOK(venue) /\ StreamOK(stream, venue)
      /\ Behind(tracker, venue) /\ ClosedAsVenue(tracker, venue, excluded)
  BY DEF IInv, TypeOK, AllConsistent, Consistent
<1>2. PICK r : r = Head(stream)
  OBVIOUS
<1>3. /\ stream # <<>> /\ stream' = Tail(stream) /\ tracker' = Reported(tracker, r)
      /\ call = Idle /\ UNCHANGED <<call, venue, history>>
      /\ active' \in {active, SyncedActive(tracker')}
  BY <1>2 DEF on_execution_report
<1>4. /\ r \in OrderReport /\ StillTrue(r, venue) /\ StreamOK(stream', venue)
      /\ \A c : Pending(stream, c) /\ ~ Pending(stream', c) => c = r.order /\ Current(r, venue)
  BY <1>1, <1>2, <1>3, StreamTakes
<1>5. /\ Consistent(tracker', venue, stream, excluded, lost) /\ Held(tracker') = Held(tracker)
      /\ \A c \in tracker.open \ tracker'.open : c = r.order /\ venue[c].status \in Terminal
  BY <1>1, <1>3, <1>4, TrueReport
<1>6. lost \/ Settled(tracker', venue, stream', excluded)
  <2>1. SUFFICES ASSUME ~ lost, NEW c \in Held(tracker) \ excluded, ~ Pending(stream', c)
                 PROVE  Agrees(tracker', venue, c)
    BY <1>5 DEF Settled
  <2>2. CASE ~ Pending(stream, c)
    BY <1>5, <2>1, <2>2 DEF Consistent, Settled
  <2>3. CASE Pending(stream, c)
    <3>1. c = r.order /\ Current(r, venue)
      BY <1>4, <2>1, <2>3
    <3> HIDE DEF excluded
    <3> QED BY <1>1, <1>3, <1>4, <2>1, <3>1, CurrentReport
  <2> QED BY <2>2, <2>3
<1>7. AllConsistent'
  BY <1>3, <1>4, <1>5, <1>6 DEF AllConsistent, Consistent, excluded, history
<1>8. NoSilentOrphan'
  BY <1>3, <1>5 DEF IInv, NoSilentOrphan, Live, LiveStatus, Terminal, T!TERMINAL_STATUSES, history
<1>9. TypeOK'
  <2>1. active' \in QuoteCid \cup {None}
    BY <1>3 DEF IInv, TypeOK, SyncedActive
  <2> QED BY <1>3, <1>4, <1>5, <2>1 DEF IInv, TypeOK, Consistent, TrackerOK, StreamOK, history
<1>10. CallOK' /\ StopIsFlat'
  BY <1>3, IdleIsOK
<1>11. TrackerStep
  BY <1>1, <1>3, <1>4, NextByReport
<1> QED BY <1>7, <1>8, <1>9, <1>10, <1>11 DEF IInv

LEMMA VenueKeeps == ASSUME IInv, VenueStep PROVE IInv' /\ TrackerStep
<1>1. /\ Consistent(tracker, venue, stream, excluded, lost) /\ lost \in BOOLEAN
      /\ VenueOK(venue) /\ StreamOK(stream, venue)
  BY DEF IInv, TypeOK, AllConsistent, Consistent
<1>2. ASSUME NEW c \in Cid, NEW s \in LiveStatus \cup {"FILLED", "CANCELED", "EXPIRED"},
             NEW f \in 0 .. Qty, VenueSet(c, s, f), Live(c), s # "NEW",
             venue[c].filled <= f, s \in LiveStatus => f < Qty,
             UNCHANGED <<localVars, history>>
      PROVE  IInv' /\ TrackerStep
  <2>1. /\ Consistent(tracker, venue', stream', excluded, lost)
        /\ Advances(venue, venue')
        /\ \A d \in Cid \ {c} : venue'[d] = venue[d]
    BY <1>1, <1>2, VenueSets
  <2>2. \A d \in Cid : Live(d)' => Live(d)
    BY <1>2, <2>1 DEF Live
  <2> QED BY <1>1, <1>2, <2>1, <2>2, VenueOnlyStep DEF localVars, history
<1>3. ASSUME NEW c \in Cid, VenueFill(c) PROVE IInv' /\ TrackerStep
  <2>1. PICK f : f = venue[c].filled + 1
    OBVIOUS
  <2>2. PICK s \in LiveStatus \cup {"FILLED", "CANCELED", "EXPIRED"} :
          /\ s = IF f = Qty THEN "FILLED" ELSE "PARTIALLY_FILLED"
          /\ s # "NEW" /\ (s \in LiveStatus => f # Qty)
    BY DEF LiveStatus
  <2>3. Live(c) /\ VenueSet(c, s, f) /\ UNCHANGED <<localVars, history>>
    BY <1>3, <2>1, <2>2 DEF VenueFill
  <2>4. venue[c].filled \in 0 .. Qty /\ venue[c].filled < Qty
    BY <1>1, <2>3 DEF VenueOK, Order, Live
  <2>5. f \in 0 .. Qty /\ venue[c].filled <= f /\ (f # Qty => f < Qty)
    BY <2>1, <2>4, AdapterAssumption
  <2> QED BY <1>2, <2>2, <2>3, <2>5
<1>4. ASSUME NEW c \in Cid, VenueExpire(c) PROVE IInv' /\ TrackerStep
  <2>1. PICK f : f = venue[c].filled
    OBVIOUS
  <2>2. PICK s \in LiveStatus \cup {"FILLED", "CANCELED", "EXPIRED"} :
          s = "EXPIRED" /\ s # "NEW" /\ s \notin LiveStatus
    BY DEF LiveStatus
  <2>3. Live(c) /\ VenueSet(c, "EXPIRED", f) /\ UNCHANGED <<localVars, history>>
    BY <1>4, <2>1 DEF VenueExpire
  <2>4. f \in 0 .. Qty /\ venue[c].filled <= f
    BY <1>1, <2>1 DEF VenueOK, Order
  <2> QED BY <1>2, <2>2, <2>3, <2>4
<1>5. CASE LoseReport
  <2>1. /\ stream' = Tail(stream) /\ stream # <<>> /\ lost' = TRUE
        /\ UNCHANGED <<localVars, venue, unknownFate, assumedClosed, restarts>>
    BY <1>5 DEF LoseReport
  <2>2. StreamOK(stream', venue)
    BY <1>1, <2>1, StreamTakes
  <2>3. Consistent(tracker, venue', stream', excluded, lost')
    BY <1>1, <2>1, <2>2 DEF Consistent
  <2>4. Advances(venue, venue')
    <3>1. \A c \in Cid : venue[c].filled \in Int
      BY <1>1 DEF VenueOK, Order
    <3> QED BY <2>1, <3>1 DEF Advances
  <2>5. \A c \in Cid : Live(c)' => Live(c)
    BY <2>1 DEF Live
  <2> QED BY <2>1, <2>3, <2>4, <2>5, VenueOnlyStep DEF localVars
<1> QED BY <1>3, <1>4, <1>5 DEF VenueStep

LEMMA RestartStep == ASSUME IInv, Restart PROVE IInv' /\ TrackerStep
<1>1. /\ restarts' \in 0 .. MaxRestarts /\ lost \in BOOLEAN
      /\ tracker' = T!EmptyTracker /\ active' = None /\ call' = Idle
      /\ unknownFate' = unknownFate \cup {c \in Cid : venue[c].status # "NONE"}
      /\ UNCHANGED <<venueVars, assumedClosed, lost>>
  BY AdapterAssumption DEF Restart, IInv, TypeOK
<1>2. VenueOK(venue) /\ StreamOK(stream, venue)
  BY DEF IInv, AllConsistent, Consistent
<1>3. Consistent(tracker', venue, stream, excluded', lost)
  <2>1. PICK x : x = excluded'
    OBVIOUS
  <2> QED BY <1>1, <1>2, <2>1, EmptyIsConsistent
<1>4. AllConsistent'
  BY <1>1, <1>3 DEF AllConsistent, venueVars
<1>5. TypeOK'
  BY <1>1, <1>3, CallTypes DEF IInv, TypeOK, Consistent, TrackerOK, venueVars
<1>6. NoSilentOrphan'
  BY <1>1 DEF NoSilentOrphan, Live, LiveStatus, Cid, venueVars
<1>7. CallOK' /\ StopIsFlat'
  BY <1>1, IdleIsOK
<1> QED BY <1>1, <1>4, <1>5, <1>6, <1>7 DEF IInv, TrackerStep

-----------------------------------------------------------------------------
(* The theorems *)

LEMMA InitInv == Init => IInv
<1> SUFFICES ASSUME Init PROVE IInv
  OBVIOUS
<1>1. /\ tracker = T!EmptyTracker /\ active = None /\ call = Idle
      /\ venue = [c \in Cid |-> [status |-> "NONE", filled |-> 0]]
      /\ stream = <<>>
      /\ unknownFate = {} /\ assumedClosed = {} /\ lost = FALSE /\ restarts = 0
  BY DEF Init
<1>2. [status |-> "NONE", filled |-> 0] \in Order
  BY AdapterAssumption DEF Order
<1>3. VenueOK(venue)
  BY <1>1, <1>2 DEF VenueOK, LiveStatus
<1>4. StreamOK(stream, venue)
  BY <1>1 DEF StreamOK
<1>5. Consistent(tracker, venue, stream, excluded, lost)
  <2>1. lost \in BOOLEAN
    BY <1>1
  <2> QED BY <1>1, <1>3, <1>4, <2>1, EmptyIsConsistent
<1>6. TypeOK
  <2>1. restarts \in 0 .. MaxRestarts
    <3>1. restarts = 0
      BY <1>1
    <3> QED BY <3>1, AdapterAssumption
  <2>2. lost \in BOOLEAN
    BY <1>1
  <2> QED BY <1>1, <1>4, <1>5, <2>1, <2>2, CallTypes DEF TypeOK, Consistent, TrackerOK, VenueOK, StreamOK
<1>7. CallOK /\ StopIsFlat
  BY <1>1 DEF Idle, CallOK, StopIsFlat, Stopping
<1>8. NoSilentOrphan
  BY <1>1 DEF NoSilentOrphan, Live, LiveStatus, Cid
<1> QED BY <1>5, <1>6, <1>7, <1>8 DEF IInv, AllConsistent

LEMMA NextStep == ASSUME IInv, [Next]_vars PROVE IInv' /\ TrackerStep
<1>1. CASE UNCHANGED vars
  BY <1>1 DEF vars, localVars, venueVars, history, IInv, TypeOK, AllConsistent, excluded, CallOK,
              StopIsFlat, Stopping, NoSilentOrphan, Live, TrackerStep
<1>2. CASE CallStep
  BY <1>2, SubmitStep, CancelStep, ReconcileStep, StopStep DEF CallStep
<1>3. CASE StartCall \/ on_execution_report \/ VenueStep \/ Restart
  BY <1>3, StartCallStep, StreamStep, VenueKeeps, RestartStep
<1> QED BY <1>1, <1>2, <1>3 DEF Next

\* The invariant holds whatever the venue does, whatever is lost and retried.
THEOREM Invariance == Spec => []IInv
<1>1. IInv /\ [Next]_vars => IInv'
  BY NextStep
<1> QED BY InitInv, <1>1, PTL DEF Spec

\* Types of the adapter, its tracker and the venue.
THEOREM TypeCorrect == Spec => []TypeOK
<1>1. IInv => TypeOK
  BY DEF IInv
<1> QED BY <1>1, Invariance, PTL

\* The tracker never claims a fill the venue has not made.
THEOREM NoFillIsInvented == Spec => []NoPhantomFill
<1>1. IInv => NoPhantomFill
  BY DEF IInv, AllConsistent, Consistent, Behind, TrackerOK, T!Tracker, NoPhantomFill, Tracked
<1> QED BY <1>1, Invariance, PTL

\* A live quote is one the tracker holds open, or one whose submission ended
\* without an answer.
THEOREM NoQuoteIsForgotten == Spec => []NoSilentOrphan
<1>1. IInv => NoSilentOrphan
  BY DEF IInv
<1> QED BY <1>1, Invariance, PTL

\* Once every report is handled, tracker and venue agree.
THEOREM ReportsDoSettle == Spec => []ReportsSettle
<1>1. IInv => ReportsSettle
  <2>1. SUFFICES ASSUME IInv, ~ lost, stream = <<>>,
                        NEW c \in Tracked \ (unknownFate \cup assumedClosed)
                 PROVE  /\ tracker.filled[c] = venue[c].filled
                        /\ Live(c) => c \in tracker.open
                        /\ venue[c].status \in Terminal => tracker.status[c] = venue[c].status
    BY DEF ReportsSettle
  <2>2. ~ Pending(stream, c)
    BY <2>1 DEF Pending
  <2>3. Agrees(tracker, venue, c)
    BY <2>1, <2>2 DEF IInv, AllConsistent, Consistent, Settled, excluded, Held, Tracked
  <2> QED BY <2>3 DEF Agrees, Live
<1> QED BY <1>1, Invariance, PTL

\* A reconciliation that says "ok" leaves no order open that the venue did not
\* list as open.
THEOREM OkIsHealthy == Spec => []ReconcileOkIsHealthy
<1>1. IInv => ReconcileOkIsHealthy
  BY DEF IInv, CallOK, ReconcileOkIsHealthy, ReconcileDone, ReconcileOk, Reconciling
<1> QED BY <1>1, Invariance, PTL

\* A symbol that an emergency stop counts as done on an answer it could read has
\* no live order until the stop returns.
THEOREM StoppedIsFlat == Spec => []StopIsFlat
<1>1. IInv => StopIsFlat
  BY DEF IInv
<1> QED BY <1>1, Invariance, PTL

\* The adapter is a valid caller of its tracker: each of its steps is a step of
\* the OrderTracker specification, which implements it, or a new process.
THEOREM TrackerIsUsedValidly == Spec => TrackerUsedValidly
<1>1. Init => T!Init
  BY DEF Init, T!Init
<1>2. IInv /\ [Next]_vars => [T!Next \/ tracker' = T!EmptyTracker]_tracker
  BY NextStep DEF TrackerStep
<1> QED BY <1>1, <1>2, Invariance, PTL DEF Spec, TrackerUsedValidly
=============================================================================
