------------------------------ MODULE Runtime ------------------------------
(***************************************************************************)
(* WickHunterRuntime of wickhunter/runtime.py with its CircuitBreaker, the *)
(* CoreOrchestrator and the RiskChecker: what a B fill and the state of    *)
(* the risk make it do, how it halts, and how an operator resumes it.      *)
(*                                                                         *)
(* The backend is kept to what the runtime depends on: the quote it holds  *)
(* active, whether that one is live on the venue, or another one that the  *)
(* backend gave up, the report of its end that may be on its way, and that *)
(* any call may raise (BinanceAdapter has the rest).  A method of the      *)
(* runtime is one step: nothing in it awaits.                              *)
(***************************************************************************)
EXTENDS Integers, SequencesExt

CONSTANTS
  Fill,           \* B fills handed to step
  HasSymbols,     \* is emergency_symbols set?
  Cooldown,       \* cooldown_seconds of the breaker; 0 never resumes
  MaxTime,        \* bound on the clock
  MaxResets,      \* bound on reset_halt
  None

ASSUME RuntimeAssumption ==
  /\ HasSymbols \in BOOLEAN /\ Cooldown \in Nat /\ MaxTime \in Nat /\ MaxResets \in Nat
  /\ None \notin {"accepted", "refused"}

VARIABLES
  now,            \* the monotonic clock, in seconds
  halted,
  tripped,        \* the breaker: its reason and when it tripped, or None
  events,         \* emergency_events: was the backend's stop accepted?
  booked,         \* fills in the portfolio
  hedged,         \* fills whose hedge the backend accepted
  done,           \* fills whose step returned
  active,         \* does the backend hold a quote active?
  live,           \* is that quote live on the venue?
  orphan,         \* is another one live there, whose submission had no answer?
  account,        \* last_account_snapshot: accepted, refused, or None
  report,         \* does the report of its end wait in the stream?
  raised,         \* history: an emergency_stop raised since the last reset
  dropped,        \* history: a report was dropped while halted
  unread,         \* history: was the last stop accepted on an unreadable answer?
  resets          \* bound counter

fills == <<booked, hedged, done>>
backend == <<active, live, orphan, report>>
history == <<raised, dropped, unread, resets>>
vars == <<now, halted, tripped, events, account, fills, backend, history>>

-----------------------------------------------------------------------------
(* CircuitBreaker *)

\* What evaluate looks at, in its order.
Reasons == <<"exchange_restricted", "marketdata_latency", "hedge_failures", "naked_exposure">>

\* The first of them that holds, when one does.
first(bad) ==
  Reasons[CHOOSE i \in DOMAIN Reasons :
            Reasons[i] \in bad /\ \A j \in 1 .. i - 1 : Reasons[j] \notin bad]

_can_resume == Cooldown > 0 /\ now - tripped.at >= Cooldown

\* Mutant of evaluate: it stores when it may resume, not when it tripped.
evaluateAhead(bad) ==
  IF tripped # None /\ ~ _can_resume THEN tripped
  ELSE IF bad = {} THEN None
  ELSE [reason |-> first(bad), at |-> now + Cooldown]

\* The breaker after evaluate, given the conditions that hold: it resumes
\* after the cooldown, stays tripped before, and trips on the first reason.
evaluate(bad) ==
  IF tripped # None /\ ~ _can_resume THEN tripped
  ELSE IF bad = {} THEN None
  ELSE [reason |-> first(bad), at |-> now]

-----------------------------------------------------------------------------
(* The backend (see BinanceAdapter) *)

\* submit_quote_plan: the active quote is kept, or it is cancelled and perhaps
\* replaced; without one, a new quote is placed or not.  A placement that the
\* venue took and no attempt was answered for is given up.
submit_quote_plan ==
  \/ UNCHANGED backend
  \/ live' = FALSE /\ active' = FALSE /\ report' = FALSE /\ orphan' \in {orphan, TRUE}
  \/ live' = TRUE /\ active' = TRUE /\ report' = FALSE /\ UNCHANGED orphan

\* A cancellation of all orders reaches the venue: the backend does not drop
\* its active quote, the report of the end is on its way.
Canceled == live' = FALSE /\ orphan' = FALSE /\ report' = (report \/ live) /\ UNCHANGED active

\* emergency_stop without symbols is accepted and does nothing.  An "unread" one
\* is accepted too, on an answer that was not JSON and so carried no error; it,
\* and one that failed or raised, may have cancelled or not.
emergency_stop(result) ==
  IF HasSymbols
    THEN IF result = "ok" THEN Canceled ELSE Canceled \/ UNCHANGED backend
    ELSE result = "ok" /\ UNCHANGED backend

Accepted(result) == result \in {"ok", "unread"}

-----------------------------------------------------------------------------
(* WickHunterRuntime *)

\* Mutant of _trigger_emergency_stop: it halts without calling the backend.
_trigger_without_backend ==
  halted' = TRUE /\ events' = Append(events, TRUE) /\ UNCHANGED <<backend, raised, unread>>

\* The stop is asked first and halted is set after; an exception of the
\* backend leaves the method in between.
_trigger_emergency_stop ==
  \E result \in {"ok", "unread", "failed", "raised"} :
    /\ emergency_stop(result)
    /\ IF result = "raised"
       THEN raised' = TRUE /\ UNCHANGED <<halted, events, unread>>
       ELSE /\ halted' = TRUE /\ events' = Append(events, Accepted(result))
            /\ unread' = (result = "unread")
            /\ UNCHANGED raised

\* A fill is handed over once; a step that raises leaves it to be handed again.
NewFill(f) == f \notin done

\* A halted runtime returns at once: the fill is neither booked nor hedged.
StepHalted(f) ==
  /\ NewFill(f) /\ halted
  /\ done' = done \cup {f}
  /\ UNCHANGED <<account, now, halted, tripped, events, booked, hedged, backend, history>>

\* daily_loss_limit or max_events_per_day stops before the breaker is asked.
StepHardStop(f) ==
  /\ NewFill(f) /\ ~ halted
  /\ _trigger_emergency_stop
  /\ done' = IF raised' THEN done ELSE done \cup {f}
  /\ UNCHANGED <<account, now, tripped, booked, hedged, dropped, resets>>

\* The breaker is tripped, or trips now.
StepTripped(f, bad) ==
  /\ NewFill(f) /\ ~ halted
  /\ tripped' = evaluate(bad) /\ tripped' # None
  /\ _trigger_emergency_stop
  /\ done' = IF raised' THEN done ELSE done \cup {f}
  /\ UNCHANGED <<account, now, booked, hedged, dropped, resets>>

\* The fill is hedged if the risk check allows it and the backend accepts.
on_b_fill(f, allowed, accepted) ==
  hedged' = IF allowed /\ accepted THEN hedged \cup {f} ELSE hedged

\* The portfolio takes the fill.
on_fill(f) == booked' = booked \cup {f}

\* Quote, then hedge, then book: the fill is booked whether the risk check
\* refused it, the backend refused the hedge, or the hedge was accepted.
StepRun(f, allowed, accepted) ==
  /\ NewFill(f) /\ ~ halted
  /\ tripped' = evaluate({}) /\ tripped' = None
  /\ submit_quote_plan
  /\ on_b_fill(f, allowed, accepted)
  /\ on_fill(f)
  /\ done' = done \cup {f}
  /\ UNCHANGED <<account, now, halted, events, history>>

\* Mutant of StepRaises: the exception is swallowed.
StepSwallows(f) ==
  /\ NewFill(f) /\ ~ halted
  /\ tripped' = evaluate({}) /\ tripped' = None
  /\ submit_quote_plan
  /\ done' = done \cup {f}
  /\ UNCHANGED <<account, now, halted, events, booked, hedged, history>>

\* The risk check allows the fill, and build_hedge_order raises at its side or
\* at the reference price: the quote is placed, the rest of the step is not done.
build_hedge_order_raises(f) ==
  /\ NewFill(f) /\ ~ halted
  /\ tripped' = evaluate({}) /\ tripped' = None
  /\ submit_quote_plan
  /\ UNCHANGED <<account, now, halted, events, fills, history>>

\* The backend raises in submit_quote_plan or in submit_hedge_order: the step
\* ends before the portfolio, with or without the change of the quote.
StepRaises(f) ==
  /\ NewFill(f) /\ ~ halted
  /\ tripped' = evaluate({}) /\ tripped' = None
  /\ submit_quote_plan
  /\ UNCHANGED <<account, now, halted, events, fills, history>>

\* What an account update parses to: nothing, a snapshot within the limits, or
\* one below a floor of the balance or of its available share.
Snapshot == {None, "accepted", "refused"}

can_accept_account_snapshot(snapshot) == snapshot = "accepted"

\* An account update: an unparsable one only counts as an error, another
\* replaces the last snapshot, and one that is refused stops.
on_account_update(snapshot) ==
  /\ ~ halted
  /\ account' = IF snapshot = None THEN account ELSE snapshot
  /\ IF snapshot # None /\ ~ can_accept_account_snapshot(snapshot)
     THEN _trigger_emergency_stop
     ELSE UNCHANGED <<halted, events, backend, raised, unread>>
  /\ UNCHANGED <<now, tripped, fills, dropped, resets>>

\* Mutant of on_user_report: the report does not clear the active quote.
on_user_report_kept ==
  /\ report /\ report' = FALSE
  /\ dropped' = (dropped \/ halted)
  /\ UNCHANGED <<account, now, halted, tripped, events, fills, active, live, orphan, raised, unread, resets>>

\* The report of the end of the active quote: a halted runtime drops it.
on_user_report ==
  /\ report /\ report' = FALSE
  /\ IF halted THEN dropped' = TRUE /\ UNCHANGED active
     ELSE active' = FALSE /\ UNCHANGED dropped
  /\ UNCHANGED <<account, now, halted, tripped, events, fills, live, orphan, raised, unread, resets>>

\* Mutant of reset_halt: the breaker is left as it is.
reset_halt_only ==
  /\ resets < MaxResets /\ resets' = resets + 1
  /\ halted' = FALSE /\ raised' = FALSE
  /\ UNCHANGED <<account, now, tripped, events, fills, backend, dropped, unread>>

\* An operator resumes.
reset_halt ==
  /\ resets < MaxResets /\ resets' = resets + 1
  /\ halted' = FALSE /\ tripped' = None
  /\ raised' = FALSE
  /\ UNCHANGED <<account, now, events, fills, backend, dropped, unread>>

\* The quote fills or expires on the venue.
QuoteEnds ==
  /\ live /\ live' = FALSE /\ report' = TRUE
  /\ UNCHANGED <<account, now, halted, tripped, events, fills, active, orphan, history>>

\* The other one does; its report is of an order that was rejected here.
OrphanEnds ==
  /\ orphan /\ orphan' = FALSE
  /\ UNCHANGED <<account, now, halted, tripped, events, fills, active, live, report, history>>

Tick ==
  /\ now < MaxTime /\ now' = now + 1
  /\ UNCHANGED <<account, halted, tripped, events, fills, backend, history>>

Init ==
  /\ now = 0 /\ halted = FALSE /\ tripped = None /\ events = <<>> /\ account = None
  /\ booked = {} /\ hedged = {} /\ done = {}
  /\ active = FALSE /\ live = FALSE /\ orphan = FALSE /\ report = FALSE
  /\ raised = FALSE /\ dropped = FALSE /\ unread = FALSE /\ resets = 0

Next ==
  \/ \E f \in Fill :
       \/ StepHalted(f) \/ StepHardStop(f) \/ StepRaises(f)
       \/ build_hedge_order_raises(f)
       \/ \E bad \in SUBSET ToSet(Reasons) : StepTripped(f, bad)
       \/ \E allowed, accepted \in BOOLEAN : StepRun(f, allowed, accepted)
  \/ \E snapshot \in Snapshot : on_account_update(snapshot)
  \/ on_user_report \/ reset_halt \/ QuoteEnds \/ OrphanEnds \/ Tick

Spec == Init /\ [][Next]_vars

-----------------------------------------------------------------------------
(* Properties *)

\* Type invariant.
TypeOK ==
  /\ now \in 0 .. MaxTime /\ halted \in BOOLEAN
  /\ tripped \in [reason : ToSet(Reasons), at : 0 .. MaxTime] \cup {None}
  /\ events \in Seq(BOOLEAN) /\ account \in Snapshot
  /\ booked \subseteq Fill /\ hedged \subseteq Fill /\ done \subseteq Fill
  /\ active \in BOOLEAN /\ live \in BOOLEAN /\ orphan \in BOOLEAN /\ report \in BOOLEAN
  /\ raised \in BOOLEAN /\ dropped \in BOOLEAN /\ unread \in BOOLEAN
  /\ resets \in 0 .. MaxResets

\* A tripped breaker, or a refused account snapshot as the last one, and a
\* running runtime coexist only if the backend's emergency_stop raised: either
\* halts in the same step, and a reset clears the breaker with the halt.  It
\* does not clear the snapshot, so an operator may resume in breach.
BreachMeansHalted ==
  ~ halted => /\ tripped # None => raised
              /\ account = "refused" => raised \/ resets > 0

\* A halted runtime whose stop the backend accepted has no quote on the venue,
\* not even one whose submission was given up, unless the backend accepted it on
\* an answer it could not read: that event looks the same as any other.
StoppedIsFlat ==
  (halted /\ HasSymbols /\ events # <<>> /\ events[Len(events)] /\ ~ unread)
    => ~ live /\ ~ orphan

\* Once the report of its end is handled, the backend holds no quote active
\* that is not live, unless a halted runtime dropped a report.
ActiveIsLive == (active /\ ~ report /\ ~ dropped) => live

\* The portfolio never misses the B side of a hedge, and it misses a fill that
\* step was done with only if there was an emergency stop.
FillsAccounted ==
  /\ hedged \subseteq booked
  /\ done \ booked # {} => events # <<>>
=============================================================================
