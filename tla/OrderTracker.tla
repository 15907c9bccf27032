---------------------------- MODULE OrderTracker ----------------------------
(***************************************************************************)
(* wickhunter/execution/order_tracker.py: the open and the closed orders,  *)
(* the table of valid status transitions, and the index from exchange      *)
(* order ids to client order ids.                                          *)
(*                                                                         *)
(* The venue gives each client order one exchange id, so an exchange id is *)
(* named here by the order it belongs to.  The specification of this       *)
(* module lets any report arrive at any time; BinanceAdapter is the caller *)
(* the code has.                                                           *)
(***************************************************************************)
EXTENDS Integers, FiniteSetsExt

CONSTANTS
  Cid,        \* client order ids; each is also the name of its exchange id
  Qty         \* the quantity of an order, in lots

ASSUME QtyAssumption == Qty \in Nat \ {0}

VARIABLE tracker

OrderStatus ==
  {"PENDING", "NEW", "PARTIALLY_FILLED", "FILLED", "CANCELED", "REJECTED", "EXPIRED"}

TERMINAL_STATUSES == {"FILLED", "CANCELED", "REJECTED", "EXPIRED"}

VALID_TRANSITIONS ==
  [s \in OrderStatus |->
     CASE s = "PENDING" -> OrderStatus \ {"PENDING"}
       [] s = "NEW" -> OrderStatus \ {"PENDING"}
       [] s = "PARTIALLY_FILLED" -> {"PARTIALLY_FILLED", "FILLED", "CANCELED", "EXPIRED"}
       [] s \in TERMINAL_STATUSES -> {s}]

\* An OrderTracker: the keys of orders and closed_orders, the OrderState of
\* every id, whether its exchange id is set, and the keys of the index.
Tracker == [open : SUBSET Cid, closed : SUBSET Cid,
            status : [Cid -> OrderStatus], filled : [Cid -> 0 .. Qty],
            bound : SUBSET Cid, mapped : SUBSET Cid]

EmptyTracker == [open |-> {}, closed |-> {},
                 status |-> [c \in Cid |-> "PENDING"], filled |-> [c \in Cid |-> 0],
                 bound |-> {}, mapped |-> {}]

-----------------------------------------------------------------------------
(* The operations, as functions of the tracker *)

\* track_order raises ValueError for an id it already holds.
CanTrack(t, c) == c \notin t.open \cup t.closed

track_order(t, c) == [t EXCEPT !.open = @ \cup {c}]

\* A report names its order by client id, by exchange id, or by both.
_find_state(t, c, byClient, byExchange) ==
  \/ byClient /\ c \in t.open \cup t.closed
  \/ byExchange /\ c \in t.mapped \cap t.open

_is_valid_transition(from, to) == to \in VALID_TRANSITIONS[from]

\* on_report finds the order, and the transition is one of the table.
Accepts(t, c, byClient, byExchange, status) ==
  _find_state(t, c, byClient, byExchange) /\ _is_valid_transition(t.status[c], status)

\* It raises ValueError for a known order and an invalid transition.
RaisesInvalid(t, c, byClient, byExchange, status) ==
  _find_state(t, c, byClient, byExchange) /\ ~ _is_valid_transition(t.status[c], status)

\* Mutant of LargerFill: the reported fill is not capped by the quantity.
LargerFillUncapped(t, c, f) == IF f > t.filled[c] THEN f ELSE t.filled[c]

\* Mutant of LargerFill: the latest report wins.
LargerFillLatest(t, c, f) == IF f < Qty THEN f ELSE Qty

LargerFill(t, c, f) == IF f > t.filled[c] THEN IF f < Qty THEN f ELSE Qty ELSE t.filled[c]

\* Mutant of on_report: an expired order stays among the open ones.
on_report_expired_open(t, c, byExchange, status, f) ==
  LET closes == status \in TERMINAL_STATUSES \ {"EXPIRED"}
      bound == IF byExchange THEN t.bound \cup {c} ELSE t.bound
      mapped == IF byExchange THEN t.mapped \cup {c} ELSE t.mapped
  IN  [open |-> IF closes THEN t.open \ {c} ELSE t.open,
       closed |-> IF closes THEN t.closed \cup {c} ELSE t.closed,
       status |-> [t.status EXCEPT ![c] = status],
       filled |-> [t.filled EXCEPT ![c] = LargerFill(t, c, f)],
       bound |-> bound, mapped |-> IF closes THEN mapped \ {c} ELSE mapped]

\* Mutant of on_report: the index is cleaned by the id of the report, which a
\* report by client id does not have.
on_report_keeps_index(t, c, byExchange, status, f) ==
  LET closes == status \in TERMINAL_STATUSES IN
  [open |-> IF closes THEN t.open \ {c} ELSE t.open,
   closed |-> IF closes THEN t.closed \cup {c} ELSE t.closed,
   status |-> [t.status EXCEPT ![c] = status],
   filled |-> [t.filled EXCEPT ![c] = LargerFill(t, c, f)],
   bound |-> IF byExchange THEN t.bound \cup {c} ELSE t.bound,
   mapped |-> IF ~ byExchange THEN t.mapped ELSE IF closes THEN t.mapped \ {c} ELSE t.mapped \cup {c}]

\* The effect of an accepted report: a terminal status closes the order and
\* drops its exchange id from the index.
on_report(t, c, byExchange, status, f) ==
  LET bound == IF byExchange THEN t.bound \cup {c} ELSE t.bound
      mapped == IF byExchange THEN t.mapped \cup {c} ELSE t.mapped
      closes == status \in TERMINAL_STATUSES
  IN  [open   |-> IF closes THEN t.open \ {c} ELSE t.open,
       closed |-> IF closes THEN t.closed \cup {c} ELSE t.closed,
       status |-> [t.status EXCEPT ![c] = status],
       filled |-> [t.filled EXCEPT ![c] = LargerFill(t, c, f)],
       bound  |-> bound,
       mapped |-> IF closes /\ c \in bound THEN mapped \ {c} ELSE mapped]

bind_exchange_order_id(t, c) ==
  IF c \in t.open THEN [t EXCEPT !.bound = @ \cup {c}, !.mapped = @ \cup {c}] ELSE t

-----------------------------------------------------------------------------
(* The tracker under any sequence of calls *)

Init == tracker = EmptyTracker

Track(c) == CanTrack(tracker, c) /\ tracker' = track_order(tracker, c)

Bind(c) == tracker' = bind_exchange_order_id(tracker, c)

\* A report for an unknown order, or with an invalid transition, changes nothing.
Report(c, byClient, byExchange, status, f) ==
  /\ Accepts(tracker, c, byClient, byExchange, status)
  /\ tracker' = on_report(tracker, c, byExchange, status, f)

Next ==
  \E c \in Cid :
    \/ Track(c)
    \/ Bind(c)
    \/ \E byClient, byExchange \in BOOLEAN, status \in OrderStatus, f \in 0 .. Qty + 1 :
         Report(c, byClient, byExchange, status, f)

Spec == Init /\ [][Next]_tracker

-----------------------------------------------------------------------------
(* Properties *)

\* Type invariant; filled_qty never exceeds qty whatever a report claims.
TypeOK == tracker \in Tracker

\* orders and closed_orders are disjoint, and an order is closed exactly when
\* its status is terminal (OrderTracker.on_report moves it in the same call).
ClosedIffTerminal ==
  /\ tracker.open \cap tracker.closed = {}
  /\ \A c \in tracker.open : tracker.status[c] \notin TERMINAL_STATUSES
  /\ \A c \in tracker.closed : tracker.status[c] \in TERMINAL_STATUSES

\* The index _exchange_to_client holds exactly the open orders whose exchange
\* id is known: no id of a closed order leaks, none of an open one is missing.
IndexExact == tracker.mapped = tracker.open \cap tracker.bound

\* How far an order has come.
Rank(s) == CASE s = "PENDING" -> 0
             [] s = "NEW" -> 1
             [] s = "PARTIALLY_FILLED" -> 2
             [] s \in TERMINAL_STATUSES -> 3

\* A report can neither take an order back, nor reopen or relabel a closed
\* one, nor lower what was filled, in whatever order reports arrive.
OrdersOnlyAdvance ==
  [][\A c \in tracker.open \cup tracker.closed :
       /\ Rank(tracker'.status[c]) >= Rank(tracker.status[c])
       /\ tracker'.filled[c] >= tracker.filled[c]
       /\ c \in tracker.closed =>
            c \in tracker'.closed /\ tracker'.status[c] = tracker.status[c]]_tracker
=============================================================================
