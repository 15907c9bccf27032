--------------------------- MODULE BinanceAdapter ---------------------------
(***************************************************************************)
(* BinanceDirectAdapter of wickhunter/core/mature_engine.py with its       *)
(* OrderTracker, against a venue that has its own life.                    *)
(*                                                                         *)
(* An adapter call is synchronous: it makes one REST request at a time and *)
(* retries in a loop, and user-stream reports are handled only between     *)
(* calls.  The venue is not synchronous: it fills, expires and cancels     *)
(* orders between any two requests, a request or its answer may be lost,   *)
(* and the reports it pushes wait in the stream meanwhile.                 *)
(***************************************************************************)
EXTENDS Integers, SequencesExt

CONSTANTS
  QuoteCid,       \* client ids for quotes, on quote_symbol
  HedgeCid,       \* client ids for hedges, on another symbol
  Qty,            \* the quantity of every order, in lots
  MaxAttempts,    \* max_retries + 1
  MaxRestarts,    \* bound: how often the process may restart
  MaxReports,     \* bound: how many reports may wait in the stream
  None

Cid == QuoteCid \cup HedgeCid

ASSUME AdapterAssumption ==
  /\ Qty \in Nat \ {0} /\ MaxAttempts \in Nat \ {0}
  /\ MaxRestarts \in Nat /\ MaxReports \in Nat
  /\ IsFiniteSet(Cid) /\ QuoteCid \cap HedgeCid = {} /\ None \notin Cid

VARIABLES
  tracker,        \* the OrderTracker
  active,         \* active_quote: the client id, or None
  call,           \* the adapter call in progress, or Idle
  venue,          \* the orders of the venue: status and filled quantity
  stream,         \* the order reports waiting in the user stream
  unknownFate,    \* history: orders whose submission ended without an answer
  assumedClosed,  \* history: orders closed by assumption, not by a report
  lost,           \* history: has a report been lost?
  restarts        \* bound counter

localVars == <<tracker, active, call>>
venueVars == <<venue, stream>>
history == <<unknownFate, assumedClosed, lost, restarts>>
vars == <<localVars, venueVars, history>>

T == INSTANCE OrderTracker

LiveStatus == {"NEW", "PARTIALLY_FILLED"}
Terminal == T!TERMINAL_STATUSES

\* A call: which handler, its order, the attempt it is at, what follows a
\* cancellation, the locals of a reconciliation (the orders get_open_orders
\* named, its reports not yet handled, the orders looked up and those left
\* unresolved), and the symbols an emergency stop has still to cancel, those it
\* counts as cancelled, and, for the properties, which of these it counts on the
\* strength of an answer it could not read.
Idle == [op |-> "idle", order |-> None, attempt |-> 0, next |-> "return",
         seen |-> {}, reports |-> {}, looked |-> {}, unresolved |-> {}, symbols |-> {}, canceled |-> {},
         unread |-> {}]

HasRoom == Len(stream) < MaxReports

-----------------------------------------------------------------------------
(* The venue (external) *)

Live(c) == venue[c].status \in LiveStatus

\* The venue changes an order and pushes a report of it.
VenueSet(c, status, filled) ==
  /\ venue' = [venue EXCEPT ![c] = [status |-> status, filled |-> filled]]
  /\ stream' = Append(stream, [order |-> c, status |-> status, filled |-> filled])

\* What a request for one order's state answers.
get_order_status(c) == [order |-> c, status |-> venue[c].status, filled |-> venue[c].filled]

\* What a request for the open orders of quote_symbol answers.
get_open_orders == {get_order_status(c) : c \in {q \in QuoteCid : Live(q)}}

\* The venue takes a cancellation of a live order.
cancel_order(c) == Live(c) /\ HasRoom /\ VenueSet(c, "CANCELED", venue[c].filled)

\* One more lot of a live order trades.
VenueFill(c) ==
  /\ Live(c) /\ HasRoom
  /\ LET f == venue[c].filled + 1
     IN  VenueSet(c, IF f = Qty THEN "FILLED" ELSE "PARTIALLY_FILLED", f)
  /\ UNCHANGED <<localVars, history>>

\* A live order expires (a cancellation by somebody else is alike to the code).
VenueExpire(c) ==
  /\ Live(c) /\ HasRoom
  /\ VenueSet(c, "EXPIRED", venue[c].filled)
  /\ UNCHANGED <<localVars, history>>

\* The stream reconnects and a report is gone.
LoseReport ==
  /\ stream # <<>>
  /\ stream' = Tail(stream)
  /\ lost' = TRUE
  /\ UNCHANGED <<localVars, venue, unknownFate, assumedClosed, restarts>>

-----------------------------------------------------------------------------
(* Helpers of the adapter *)

\* _sync_active_quote_from_tracker on tracker t: a quote that is closed or
\* unknown is no longer the active one.
SyncedActive(t) ==
  IF active # None /\ active \in t.open THEN active ELSE None

\* Mutant of AssumeClosed: an order the venue no longer has must have filled.
AssumeClosedAsFilled(t, c) ==
  IF c \in t.open THEN T!on_report(t, c, FALSE, "FILLED", Qty) ELSE t

\* The tracker after it was told that c is gone, unless it already knew.
AssumeClosed(t, c) ==
  IF c \in t.open THEN T!on_report(t, c, FALSE, "EXPIRED", 0) ELSE t

Return == call' = Idle

Retry == call' = [call EXCEPT !.attempt = @ + 1]

\* Mutant of LastAttempt: one attempt too many.
LastAttemptOffByOne == call.attempt > MaxAttempts

LastAttempt == call.attempt >= MaxAttempts

-----------------------------------------------------------------------------
(* submit_quote_plan and submit_hedge_order *)

\* A new order is tracked under a fresh uuid and its first request is due.
StartSubmit(c) ==
  /\ T!CanTrack(tracker, c)
  /\ venue[c].status = "NONE"
  /\ tracker' = T!track_order(tracker, c)
  /\ call' = [Idle EXCEPT !.op = "submit", !.order = c, !.attempt = 1]

\* Bound: there is a fresh client id left.
CanTrackQuote == \E c \in QuoteCid : T!CanTrack(tracker, c) /\ venue[c].status = "NONE"

StartCancel(c, next) ==
  call' = [Idle EXCEPT !.op = "cancel", !.order = c, !.attempt = 1, !.next = next]

\* The quote manager does not let the active quote be cancelled: it is too
\* young, or too many quotes were cancelled lately.
CancelThrottled == active' # None /\ Return

\* The plan is too close to the active quote, or too soon after it.
RequoteTooSmall == active' # None /\ Return

\* An unarmed plan cancels the active quote, if the quote manager lets it.
SubmitUnarmed ==
  /\ call = Idle
  /\ active' = SyncedActive(tracker)
  /\ \/ active' = None /\ Return
     \/ CancelThrottled
     \/ active' # None /\ StartCancel(active', "return")
  /\ UNCHANGED <<tracker, venueVars, history>>

\* An armed plan with an active quote: it is kept, or cancelled first.
SubmitRequote ==
  /\ call = Idle
  /\ active' = SyncedActive(tracker)
  /\ \/ RequoteTooSmall
     \/ CancelThrottled
     \/ active' # None /\ CanTrackQuote /\ StartCancel(active', "submit")
  /\ UNCHANGED <<tracker, venueVars, history>>

\* An armed plan without an active quote.
SubmitQuote(c) ==
  /\ call = Idle
  /\ SyncedActive(tracker) = None
  /\ active' = None
  /\ StartSubmit(c)
  /\ UNCHANGED <<venueVars, history>>

submit_hedge_order(c) ==
  /\ call = Idle
  /\ StartSubmit(c)
  /\ UNCHANGED <<active, venueVars, history>>

\* The request to place c, under its client id, is due or on its way.
Submitting(c) == call.op = "submit" /\ call.order = c

\* The tracker takes what the response says and the quote becomes active.
Accepted(c) ==
  /\ tracker' = T!on_report(tracker, c, TRUE, venue'[c].status, venue'[c].filled)
  /\ active' = IF c \in QuoteCid THEN c ELSE active
  /\ Return
  /\ UNCHANGED <<history>>

\* The local order is rejected; whether the venue has it is another matter.
Rejected(c) ==
  /\ tracker' = T!on_report(tracker, c, FALSE, "REJECTED", 0)
  /\ unknownFate' = IF venue'[c].status = "NONE" THEN unknownFate ELSE unknownFate \cup {c}
  /\ Return
  /\ UNCHANGED <<active, assumedClosed, lost, restarts>>

\* The venue takes the order: it rests, expires at once (GTX that would take,
\* IOC that finds nothing), or, for a hedge, trades at once.
place_order(c) ==
  /\ HasRoom
  /\ \/ VenueSet(c, "NEW", 0)
     \/ VenueSet(c, "EXPIRED", 0)
     \/ c \in HedgeCid /\ VenueSet(c, "FILLED", Qty)

PlaceAccepted(c) ==
  /\ Submitting(c) /\ venue[c].status = "NONE"
  /\ place_order(c)
  /\ Accepted(c)

\* The request or its response is lost, or the venue answers with a retryable
\* code: retry, and after the last attempt give the order up as rejected.
PlaceLost(c) ==
  /\ Submitting(c)
  /\ \/ venue[c].status = "NONE" /\ place_order(c)
     \/ UNCHANGED venueVars
  /\ IF LastAttempt THEN Rejected(c)
     ELSE Retry /\ UNCHANGED <<tracker, active, history>>

\* The venue refuses the order for good.
PlaceRefused(c) ==
  /\ Submitting(c) /\ venue[c].status = "NONE"
  /\ UNCHANGED venueVars
  /\ Rejected(c)

\* The venue takes the order but its answer has no order id and no status:
\* malformed_exchange_response, not retried.
PlaceMalformed(c) ==
  /\ Submitting(c) /\ venue[c].status = "NONE"
  /\ place_order(c)
  /\ Rejected(c)

\* A retry of an order the venue already has is refused as a duplicate: the
\* order is looked up, and only if that fails too it is given up.
PlaceDuplicate(c) ==
  /\ Submitting(c) /\ venue[c].status # "NONE"
  /\ UNCHANGED venueVars
  /\ Accepted(c) \/ Rejected(c)

-----------------------------------------------------------------------------
(* _cancel_active_quote_if_due *)

\* The request to cancel call.order, named by its client id and by its exchange
\* id if that is known, is due or on its way.
Cancelling == call.op = "cancel"

\* The quote is gone: the plan that wanted a new one goes on, or the call ends.
QuoteCanceled ==
  /\ active' = None
  /\ call' = IF call.next = "submit" THEN [Idle EXCEPT !.op = "requote"] ELSE Idle

\* The venue cancels the order; the fill its answer carries is not looked at.
CancelOk ==
  /\ Cancelling /\ cancel_order(call.order)
  /\ tracker' = T!on_report(tracker, call.order, FALSE, "CANCELED", 0)
  /\ QuoteCanceled
  /\ UNCHANGED <<history>>

\* -2011: the venue has no such live order, and it is assumed closed.
CancelUnknown ==
  /\ Cancelling /\ ~ Live(call.order)
  /\ tracker' = AssumeClosed(tracker, call.order)
  /\ assumedClosed' = assumedClosed \cup {call.order}
  /\ QuoteCanceled
  /\ UNCHANGED <<venueVars, unknownFate, lost, restarts>>

\* Mutant of CancelLost: after the last attempt the quote is taken for gone.
CancelLostGivesUp ==
  /\ Cancelling
  /\ UNCHANGED <<venueVars, history>>
  /\ IF LastAttempt
     THEN tracker' = AssumeClosed(tracker, call.order) /\ active' = None /\ Return
     ELSE Retry /\ UNCHANGED <<tracker, active>>

\* The request or its answer is lost, or a retryable code comes back; after
\* the last attempt the cancellation is deferred to another call.
CancelLost ==
  /\ Cancelling
  /\ cancel_order(call.order) \/ UNCHANGED venueVars
  /\ IF LastAttempt THEN Return ELSE Retry
  /\ UNCHANGED <<tracker, active, history>>

\* Another code: the cancellation is refused and the quote stays active.
CancelRefused ==
  /\ Cancelling
  /\ Return
  /\ UNCHANGED <<tracker, active, venueVars, history>>

\* After the cancellation the armed plan submits its new quote.
Requote(c) ==
  /\ call.op = "requote"
  /\ StartSubmit(c)
  /\ UNCHANGED <<active, venueVars, history>>

\* A RuntimeError (a running event loop, a closed session) ends a submission
\* or a cancellation at once: whatever the earlier attempts did, nothing is
\* recorded, and a submitted order stays PENDING.
AbortedCall ==
  /\ call.op \in {"submit", "cancel"}
  /\ Return
  /\ UNCHANGED <<tracker, active, venueVars, history>>

-----------------------------------------------------------------------------
(* on_execution_report *)

\* Mutant of Reported: a report of a closed order is dropped.
ReportedIfOpen(t, r) ==
  IF r.order \in t.open /\ T!Accepts(t, r.order, TRUE, TRUE, r.status)
    THEN T!on_report(t, r.order, TRUE, r.status, r.filled) ELSE t

\* Mutant of Reported: the transition is not checked.
ReportedUnchecked(t, r) ==
  IF r.order \in t.open \cup t.closed
    THEN T!on_report(t, r.order, TRUE, r.status, r.filled) ELSE t

\* Mutant of Reported: the order is looked up by its exchange id only.
ReportedByExchangeId(t, r) ==
  IF T!Accepts(t, r.order, FALSE, TRUE, r.status)
    THEN T!on_report(t, r.order, TRUE, r.status, r.filled) ELSE t

\* The tracker after a report with both ids: an unknown order is ignored, an
\* invalid transition raises and changes nothing.
Reported(t, r) ==
  IF T!Accepts(t, r.order, TRUE, TRUE, r.status)
    THEN T!on_report(t, r.order, TRUE, r.status, r.filled) ELSE t

Raises(t, r) == T!RaisesInvalid(t, r.order, TRUE, TRUE, r.status)

\* The oldest report of the stream.  A report that raises is lost: the stream
\* has already noted it as seen.
on_execution_report ==
  /\ call = Idle /\ stream # <<>>
  /\ stream' = Tail(stream)
  /\ tracker' = Reported(tracker, Head(stream))
  /\ active' = IF Raises(tracker, Head(stream)) THEN active ELSE SyncedActive(tracker')
  /\ UNCHANGED <<call, venue, history>>

-----------------------------------------------------------------------------
(* reconcile_open_orders_strict *)

Reconciling == call.op = "reconcile"

\* Everything the reconciliation had to look at has been looked at.
ReconcileDone ==
  /\ Reconciling /\ call.reports = {}
  /\ tracker.open \subseteq call.seen \cup call.looked

ReconcileOk == call.unresolved \cap tracker.open = {}

\* get_open_orders answers with the live orders of quote_symbol.
StartReconcile ==
  /\ call = Idle
  /\ call' = [Idle EXCEPT !.op = "reconcile", !.reports = get_open_orders,
                          !.seen = {r.order : r \in get_open_orders}]
  /\ UNCHANGED <<tracker, active, venueVars, history>>

\* Each order of the answer is one report; one that raises fails the call.
ReconcileReport(r) ==
  /\ Reconciling /\ r \in call.reports
  /\ IF Raises(tracker, r)
     THEN Return /\ UNCHANGED <<tracker, active>>
     ELSE /\ tracker' = Reported(tracker, r)
          /\ active' = SyncedActive(tracker')
          /\ call' = [call EXCEPT !.reports = @ \ {r}]
  /\ UNCHANGED <<venueVars, history>>

\* The open orders the answer did not name are looked up one by one.
LookUp(c) == Reconciling /\ call.reports = {} /\ c \in (tracker.open \ call.seen) \ call.looked

\* Mutant of Looked: what is left unresolved is forgotten.
LookedAndForgotten(c, unresolved) == call' = [call EXCEPT !.looked = @ \cup {c}]

Looked(c, unresolved) ==
  call' = [call EXCEPT !.looked = @ \cup {c},
                       !.unresolved = IF unresolved THEN @ \cup {c} ELSE @]

\* The look-up fails, or its answer is not an order.
LookUpFailed(c) ==
  /\ LookUp(c)
  /\ Looked(c, TRUE)
  /\ UNCHANGED <<tracker, active, venueVars, history>>

\* -2013: the venue has no such order under quote_symbol.  It says so of any
\* hedge, which is on another symbol.
NotFound(c) == c \in HedgeCid \/ venue[c].status = "NONE"

\* An order the venue does not know is assumed closed.
LookUpNotFound(c) ==
  /\ LookUp(c) /\ NotFound(c)
  /\ tracker' = AssumeClosed(tracker, c)
  /\ assumedClosed' = assumedClosed \cup {c}
  /\ Looked(c, FALSE)
  /\ UNCHANGED <<active, venueVars, unknownFate, lost, restarts>>

\* The answer is the order: closed, or still live and so left unresolved.
LookUpFound(c) ==
  /\ LookUp(c) /\ ~ NotFound(c)
  /\ LET r == get_order_status(c)
     IN  IF Raises(tracker, r)
         THEN Return /\ UNCHANGED <<tracker, active>>
         ELSE /\ tracker' = Reported(tracker, r)
              /\ active' = SyncedActive(tracker')
              /\ Looked(c, Live(c))
  /\ UNCHANGED <<venueVars, history>>

\* The report says "ok" if ReconcileOk, else "reconcile_unresolved".
FinishReconcile ==
  /\ ReconcileDone
  /\ Return
  /\ UNCHANGED <<tracker, active, venueVars, history>>

-----------------------------------------------------------------------------
(* emergency_stop *)

Stopping == call.op = "emergency_stop"

OnSymbol(s) == IF s = "quote" THEN QuoteCid ELSE HedgeCid

\* The orders of a set of symbols are to be cancelled, symbol by symbol.
emergency_stop(symbols) ==
  /\ call = Idle
  /\ call' = [Idle EXCEPT !.op = "emergency_stop", !.attempt = 1,
                          !.symbols = symbols, !.canceled = {}, !.unread = {}]
  /\ UNCHANGED <<tracker, active, venueVars, history>>

\* The venue cancels all live orders of a symbol, reporting them in any order.
cancel_all_open_orders(s) ==
  LET live == {c \in OnSymbol(s) : Live(c)}
      gone(c) == [status |-> "CANCELED", filled |-> venue[c].filled]
  IN  /\ Len(stream) + Cardinality(live) <= MaxReports
      /\ venue' = [c \in Cid |-> IF c \in live THEN gone(c) ELSE venue[c]]
      /\ \E order \in SetToSeqs(live) :
           stream' = stream \o [i \in DOMAIN order |->
                                  [order |-> order[i], status |-> "CANCELED",
                                   filled |-> venue[order[i]].filled]]

\* Accepted on the venue's own answer: on to the next symbol.  Neither the
\* tracker nor the active quote is told; only reports will.
CancelAllOk(s) ==
  /\ Stopping /\ s \in call.symbols
  /\ cancel_all_open_orders(s)
  /\ call' = [call EXCEPT !.symbols = @ \ {s}, !.canceled = @ \cup {s}, !.attempt = 1]
  /\ UNCHANGED <<tracker, active, history>>

\* Accepted on an answer that is not JSON, such as the error page of a gateway:
\* the client turns it into the HTTP status as a code, which is not negative
\* and so no error.  Whether the request did anything is anybody's guess.
CancelAllUnread(s) ==
  /\ Stopping /\ s \in call.symbols
  /\ cancel_all_open_orders(s) \/ UNCHANGED venueVars
  /\ call' = [call EXCEPT !.symbols = @ \ {s}, !.canceled = @ \cup {s},
                          !.unread = @ \cup {s}, !.attempt = 1]
  /\ UNCHANGED <<tracker, active, history>>

\* Mutant of CancelAllLost: a symbol whose last attempt failed counts as done.
CancelAllLostCounts(s) ==
  /\ Stopping /\ s \in call.symbols
  /\ IF LastAttempt
     THEN call' = [call EXCEPT !.symbols = @ \ {s}, !.canceled = @ \cup {s}, !.attempt = 1]
     ELSE Retry
  /\ UNCHANGED <<tracker, active, venueVars, history>>

\* The request or its answer is lost, or a retryable code comes back; after
\* the last attempt the stop fails, its remaining symbols untouched.
CancelAllLost(s) ==
  /\ Stopping /\ s \in call.symbols
  /\ cancel_all_open_orders(s) \/ UNCHANGED venueVars
  /\ IF LastAttempt THEN Return ELSE Retry
  /\ UNCHANGED <<tracker, active, history>>

\* Another negative code, a running event loop or another RuntimeError: the stop
\* fails or raises.
CancelAllRefused ==
  /\ Stopping /\ call.symbols # {}
  /\ Return
  /\ UNCHANGED <<tracker, active, venueVars, history>>

\* No symbol is left: emergency_cancel_ok, also after answers nobody could read.
StopDone ==
  /\ Stopping /\ call.symbols = {}
  /\ Return
  /\ UNCHANGED <<tracker, active, venueVars, history>>

-----------------------------------------------------------------------------
\* The process dies and another starts with an empty tracker, between two
\* requests or between two calls; the venue's live orders are on nobody's list.
Restart ==
  /\ restarts < MaxRestarts
  /\ restarts' = restarts + 1
  /\ tracker' = T!EmptyTracker /\ active' = None /\ call' = Idle
  /\ unknownFate' = unknownFate \cup {c \in Cid : venue[c].status # "NONE"}
  /\ UNCHANGED <<venueVars, assumedClosed, lost>>

Init ==
  /\ tracker = T!EmptyTracker /\ active = None /\ call = Idle
  /\ venue = [c \in Cid |-> [status |-> "NONE", filled |-> 0]]
  /\ stream = <<>>
  /\ unknownFate = {} /\ assumedClosed = {} /\ lost = FALSE /\ restarts = 0

\* The next step of the call in progress.
CallStep ==
  \/ \E c \in Cid : PlaceAccepted(c) \/ PlaceLost(c) \/ PlaceRefused(c)
                    \/ PlaceMalformed(c) \/ PlaceDuplicate(c)
  \/ CancelOk \/ CancelUnknown \/ CancelLost \/ CancelRefused
  \/ \E c \in QuoteCid : Requote(c)
  \/ AbortedCall
  \/ \E r \in call.reports : ReconcileReport(r)
  \/ \E c \in Cid : LookUpFailed(c) \/ LookUpNotFound(c) \/ LookUpFound(c)
  \/ FinishReconcile
  \/ \E s \in call.symbols : CancelAllOk(s) \/ CancelAllUnread(s) \/ CancelAllLost(s)
  \/ CancelAllRefused \/ StopDone

\* A caller starts a call.
StartCall ==
  \/ SubmitUnarmed \/ SubmitRequote
  \/ \E c \in QuoteCid : SubmitQuote(c)
  \/ \E c \in HedgeCid : submit_hedge_order(c)
  \/ StartReconcile
  \/ \E symbols \in (SUBSET {"quote", "hedge"}) \ {{}} : emergency_stop(symbols)

VenueStep ==
  \/ \E c \in Cid : VenueFill(c) \/ VenueExpire(c)
  \/ LoseReport

Next == CallStep \/ StartCall \/ on_execution_report \/ VenueStep \/ Restart

Spec == Init /\ [][Next]_vars

\* A request is answered or times out, so a call that began goes on; between
\* calls the event loop gets to the stream again and again.  Nothing obliges
\* the venue, the callers or the operator to do anything.
Fairness == WF_vars(CallStep) /\ SF_vars(on_execution_report)

FairSpec == Spec /\ Fairness

-----------------------------------------------------------------------------
(* Properties *)

Order == [status : LiveStatus \cup Terminal \cup {"NONE"}, filled : 0 .. Qty]
OrderReport == [order : Cid, status : LiveStatus \cup Terminal, filled : 0 .. Qty]
Call == [op : {"idle", "submit", "cancel", "requote", "reconcile", "emergency_stop"},
         order : Cid \cup {None}, attempt : 0 .. MaxAttempts, next : {"return", "submit"},
         seen : SUBSET QuoteCid, reports : SUBSET OrderReport, looked : SUBSET Cid,
         unresolved : SUBSET Cid, symbols : SUBSET {"quote", "hedge"},
         canceled : SUBSET {"quote", "hedge"}, unread : SUBSET {"quote", "hedge"}]

\* Type invariant of the adapter, its tracker and the venue.
TypeOK ==
  /\ tracker \in T!Tracker /\ active \in QuoteCid \cup {None} /\ call \in Call
  /\ venue \in [Cid -> Order] /\ stream \in Seq(OrderReport)
  /\ unknownFate \subseteq Cid /\ assumedClosed \subseteq Cid
  /\ lost \in BOOLEAN /\ restarts \in 0 .. MaxRestarts

Tracked == tracker.open \cup tracker.closed

\* The tracker never claims a fill the venue has not made, nor a complete fill
\* of an order that is not filled, whatever was retried, lost or reordered.
NoPhantomFill ==
  \A c \in Tracked :
    /\ tracker.filled[c] <= venue[c].filled
    /\ tracker.status[c] = "FILLED" => venue[c].status = "FILLED"

\* A quote that is live on the venue is one the tracker holds open, unless its
\* submission ended without an answer (client_exception, a malformed response,
\* a failed look-up of a duplicate) or an earlier process left it there.
NoSilentOrphan ==
  \A c \in QuoteCid : Live(c) => c \in tracker.open \cup unknownFate

\* Once every report is handled, the tracker agrees with the venue about every
\* order that was not closed by assumption nor given up: what it filled, that
\* it is live, how it ended.  Reports that raised in between lost nothing.
ReportsSettle ==
  (~ lost /\ call = Idle /\ stream = <<>>) =>
    \A c \in Tracked \ (unknownFate \cup assumedClosed) :
      /\ tracker.filled[c] = venue[c].filled
      /\ Live(c) => c \in tracker.open
      /\ venue[c].status \in Terminal => tracker.status[c] = venue[c].status

\* The adapter drives its tracker only through valid calls: no track_order of
\* a known id, and no report of its own (a response, a rejection, an assumed
\* closing) with a transition the tracker would raise on.
TrackerUsedValidly == T!Init /\ [][T!Next \/ tracker' = T!EmptyTracker]_tracker

\* A reconciliation about to say "ok" leaves no order open here that the venue
\* did not itself list as open when it was asked.
ReconcileOkIsHealthy == (ReconcileDone /\ ReconcileOk) => tracker.open \subseteq call.seen

\* What an emergency stop has cancelled, over all its retries, stays flat until
\* it returns: no order is live on a symbol it counts as done, unless it counts
\* it on an answer it could not read (_cancel_all_orders_for_symbol).
StopIsFlat ==
  Stopping => \A s \in call.canceled \ call.unread, c \in Cid : c \in OnSymbol(s) => ~ Live(c)

\* The tracker "reconciles execution reports": once every report is handled it
\* knows what each order filled.  It does not when a cancellation was answered
\* -2011 because the order had just filled: the order is closed as EXPIRED, and
\* the report of the fill is an invalid transition from there.
FillsReconciled ==
  (~ lost /\ call = Idle /\ stream = <<>>) =>
    \A c \in Tracked \ unknownFate : tracker.filled[c] = venue[c].filled

\* An order the tracker holds open and the venue has closed does not stay open:
\* its report arrives and is accepted, unless the stream loses one.
ClosedOrdersClose ==
  \A c \in Cid :
    (c \in tracker.open /\ venue[c].status \in Terminal) ~> (c \notin tracker.open \/ lost)
=============================================================================
