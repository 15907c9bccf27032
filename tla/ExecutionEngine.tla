-------------------------- MODULE ExecutionEngine --------------------------
(***************************************************************************)
(* ExecutionEngine of wickhunter/execution/engine.py: its OrderTracker and *)
(* the PersistentEventLog it writes after the tracker (recovery.py), the   *)
(* recovery of the one from the other after a crash, and the cancellation  *)
(* decisions of its CancelThrottle (throttle.py).                          *)
(*                                                                         *)
(* A method changes the tracker in one step and appends to the log in the  *)
(* next, so that a crash can come between; an append that a crash cuts     *)
(* short leaves a line without its end.                                    *)
(***************************************************************************)
EXTENDS Integers, SequencesExt, RollingWindow

CONSTANTS
  Cid, Qty,       \* as in OrderTracker
  MaxCancels,     \* max_cancels_per_window
  Window,         \* window_seconds
  MinLive,        \* min_order_live_seconds
  MaxTime,        \* bound on the clock
  MaxWal,         \* bound on the lines of the log
  None

ASSUME EngineAssumption ==
  /\ Qty \in Nat \ {0} /\ MaxCancels \in Nat \ {0}
  /\ Window \in Nat /\ MinLive \in Nat /\ MaxTime \in Nat /\ MaxWal \in Nat

VARIABLES
  tracker,        \* _order_tracker
  pending,        \* the event of the method in progress, still to be appended
  wal,            \* the lines of the log file
  cancels,        \* _cancel_timestamps
  now,
  granted,        \* history: when this process granted cancellations
  ever,           \* history: orders tracked whose order_new was appended
  missed          \* history: was an append lost, by failure or by a crash?

engine == <<tracker, pending>>
throttle == <<cancels, granted>>
history == <<ever, missed>>
vars == <<engine, wal, throttle, now, history>>

T == INSTANCE OrderTracker

-----------------------------------------------------------------------------
(* PersistentEventLog *)

Torn == [type |-> "torn"]
Broken == [type |-> "broken"]

\* append_event: a record written after a line without end joins that line.
append_event(w, e) ==
  IF w = <<>> \/ Last(w) # Torn THEN Append(w, e)
  ELSE Append(Front(w), IF e = Torn THEN Torn ELSE Broken)

\* replay_events: what can be read before the first line that cannot.
replay_events(w) ==
  LET bad == {i \in DOMAIN w : w[i] \in {Torn, Broken}}
  IN  IF bad = {} THEN w
      ELSE SubSeq(w, 1, (CHOOSE i \in bad : \A j \in bad : i <= j) - 1)

-----------------------------------------------------------------------------
(* The orders *)

\* track_order raises for a known id; the event is appended next.
track_order(c) ==
  /\ pending = None /\ Len(wal) < MaxWal
  /\ T!CanTrack(tracker, c)
  /\ tracker' = T!track_order(tracker, c)
  /\ pending' = [type |-> "order_new", order |-> c]
  /\ UNCHANGED <<wal, throttle, now, history>>

\* on_order_report: NEW or REJECTED.  An invalid transition raises before the
\* event is made; an unknown order is logged all the same.  The event holds no
\* status, and no reader uses the rest of its payload.
on_order_report(c, accepted, byExchange, f) ==
  LET status == IF accepted THEN "NEW" ELSE "REJECTED"
  IN  /\ pending = None /\ Len(wal) < MaxWal
      /\ ~ T!RaisesInvalid(tracker, c, TRUE, byExchange, status)
      /\ tracker' = IF T!Accepts(tracker, c, TRUE, byExchange, status)
                      THEN T!on_report(tracker, c, byExchange, status, f) ELSE tracker
      /\ pending' = [type |-> "order_report", order |-> c]
      /\ UNCHANGED <<wal, throttle, now, history>>

Tracks(e) == IF e.type = "order_new" THEN {e.order} ELSE {}

AppendDone ==
  /\ pending # None
  /\ wal' = append_event(wal, pending)
  /\ pending' = None
  /\ ever' = ever \cup Tracks(pending)
  /\ missed' = (missed \/ Last(wal') = Broken)
  /\ UNCHANGED <<tracker, throttle, now>>

\* The file cannot be written, or not whole: the error is logged and the
\* method goes on.
AppendFails(torn) ==
  /\ pending # None
  /\ wal' = IF torn THEN append_event(wal, Torn) ELSE wal
  /\ pending' = None
  /\ missed' = TRUE
  /\ UNCHANGED <<tracker, throttle, now, ever>>

\* Mutant of Recovered: the first event that raises ends the recovery.
RecoveredUntilRaise(w) ==
  LET events == replay_events(w)
      raising == {i \in DOMAIN events : events[i].type = "order_report"}
      read == {i \in DOMAIN events : \A j \in raising : i < j}
  IN  [T!EmptyTracker EXCEPT !.open = UNION {Tracks(events[i]) : i \in read}]

\* recover_state on a fresh tracker: order_new tracks the order, a second one
\* for the same id raises and is passed over.  No order_report has a "status",
\* so each stands for UNKNOWN, which no order may become: it raises, if the
\* order is known, and is passed over too.
Recovered(w) ==
  LET events == replay_events(w)
  IN  [T!EmptyTracker EXCEPT !.open = UNION {Tracks(events[i]) : i \in DOMAIN events}]

\* The process dies, perhaps in the middle of an append, and the next one
\* recovers before it does anything else.
CrashAndRecover(torn) ==
  /\ torn => pending # None
  /\ wal' = IF torn THEN append_event(wal, Torn) ELSE wal
  /\ tracker' = Recovered(wal')
  /\ pending' = None
  /\ missed' = (missed \/ pending # None)
  /\ cancels' = <<>> /\ granted' = <<>>
  /\ UNCHANGED <<now, ever>>

-----------------------------------------------------------------------------
(* CancelThrottle *)

\* Mutant of _evict_expired: a timestamp exactly Window old goes as well.
_evict_expired_early(q) == Dropped(q, {t \in 0 .. now : t <= now - Window})

\* Pops the leading timestamps while they are too old.
_evict_expired(q) == Dropped(q, {t \in 0 .. now : t < now - Window})

\* Mutant of can_cancel: one more cancellation than the limit.
can_cancel_at_limit(created) ==
  /\ now >= created /\ now - created >= MinLive
  /\ Len(_evict_expired(cancels)) <= MaxCancels

can_cancel(created) ==
  /\ now >= created /\ now - created >= MinLive
  /\ Len(_evict_expired(cancels)) < MaxCancels

\* request_cancel: granted and recorded.
CancelGranted(created) ==
  /\ can_cancel(created)
  /\ cancels' = Append(_evict_expired(cancels), now)
  /\ granted' = Append(granted, now)
  /\ UNCHANGED <<engine, wal, now, history>>

\* request_cancel: refused for the rate, which evicts; the other refusals
\* change nothing.
CancelRefused(created) ==
  /\ now - created >= MinLive /\ ~ can_cancel(created)
  /\ cancels' = _evict_expired(cancels)
  /\ UNCHANGED <<engine, wal, now, granted, history>>

Tick ==
  /\ now < MaxTime /\ now' = now + 1
  /\ UNCHANGED <<engine, wal, throttle, history>>

Init ==
  /\ tracker = T!EmptyTracker /\ pending = None /\ wal = <<>>
  /\ cancels = <<>> /\ now = 0 /\ granted = <<>>
  /\ ever = {} /\ missed = FALSE

Next ==
  \/ \E c \in Cid : track_order(c)
  \/ \E c \in Cid, accepted, byExchange \in BOOLEAN, f \in 0 .. Qty :
       on_order_report(c, accepted, byExchange, f)
  \/ AppendDone
  \/ \E torn \in BOOLEAN : AppendFails(torn) \/ CrashAndRecover(torn)
  \/ \E created \in 0 .. MaxTime : CancelGranted(created) \/ CancelRefused(created)
  \/ Tick

Spec == Init /\ [][Next]_vars

-----------------------------------------------------------------------------
(* Properties *)

Event == [type : {"order_new", "order_report"}, order : Cid]

\* Type invariant; the throttle never holds more timestamps than its limit.
TypeOK ==
  /\ tracker \in T!Tracker /\ pending \in Event \cup {None}
  /\ Len(wal) <= MaxWal /\ \A i \in DOMAIN wal : wal[i] \in Event \cup {Torn, Broken}
  /\ Len(cancels) <= MaxCancels /\ \A i \in DOMAIN cancels : cancels[i] \in 0 .. now
  /\ now \in 0 .. MaxTime /\ \A i \in DOMAIN granted : granted[i] \in 0 .. now
  /\ ever \subseteq Cid /\ missed \in BOOLEAN

\* recover_state passes over what raises and goes on, so that across any
\* crashes every order whose order_new can be read from the log is known; and
\* all that were ever logged are, unless an append was lost or cut short.
RecoveryKnowsOrders ==
  LET events == replay_events(wal)
      known == tracker.open \cup tracker.closed
  IN  /\ UNION {Tracks(events[i]) : i \in DOMAIN events} \subseteq known
      /\ ~ missed => ever \subseteq known

\* The throttle protects a rolling window: any MaxCancels + 1 cancellations one
\* process grants span more than Window, whatever was refused in between.
CancelWindow ==
  \A i \in DOMAIN granted :
    i + MaxCancels \in DOMAIN granted => granted[i + MaxCancels] - granted[i] > Window

\* What recover_state says of itself: replaying the log reconstructs the order
\* tracker's state (unless an append was lost).
RecoveryRestores ==
  [][(\E torn \in BOOLEAN : CrashAndRecover(torn)) /\ ~ missed' => tracker' = tracker]_vars
=============================================================================
