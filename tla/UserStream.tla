----------------------------- MODULE UserStream -----------------------------
(***************************************************************************)
(* BinanceUserDataStream of wickhunter/exchange/binance_live.py, with      *)
(* stream_user_data of binance_futures.py: the task that runs start, the   *)
(* keepalive task it makes, a caller of stop, and a caller that cancels    *)
(* the task as run_live does.  They run on one event loop, so a step is    *)
(* what one of them does from one await to the next.                       *)
(***************************************************************************)
EXTENDS Integers, SequencesExt

CONSTANTS
  Update,         \* order updates the venue may send, any number of times
  MaxSeen,        \* _max_seen_updates
  MaxFailures,    \* the last consecutive_failures whose backoff a float can hold (1024)
  MaxLog          \* bound on the updates handed over

ASSUME UserStreamAssumption == MaxSeen \in Nat \ {0} /\ MaxFailures \in Nat \ {0} /\ MaxLog \in Nat

VARIABLES
  task,           \* where start is
  cancelled,      \* did task.cancel() reach start at an await that raises?
  asked,          \* has task.cancel() been called?
  restart,        \* _restart_event
  stop,           \* _stop_event
  stopper,        \* where stop is
  key,            \* is _listen_key set?
  keepalive,      \* _keepalive_task
  failures,       \* consecutive_failures
  seen,           \* _seen_order_updates_queue (and the set of its elements)
  log,            \* history: the updates report_callback got, in order
  ws,             \* is the WebSocket connected?
  valid           \* does the venue hold the listen key valid?

control == <<task, cancelled, asked, restart, stop, stopper>>
venue == <<ws, valid>>
reports == <<seen, log>>
vars == <<control, key, keepalive, failures, reports, venue>>

-----------------------------------------------------------------------------
(* start *)

\* The first step: a stop that came before is forgotten.
Start ==
  /\ task = "new" /\ task' = "creating"
  /\ stop' = FALSE /\ restart' = FALSE
  /\ UNCHANGED <<cancelled, asked, stopper, key, keepalive, failures, reports, venue>>

\* create_listen_key answers: the keepalive task is made and the stream begins.
CreateOk ==
  /\ task = "creating" /\ task' = "streaming"
  /\ key' = TRUE /\ keepalive' = "running" /\ valid' = TRUE
  /\ UNCHANGED <<cancelled, asked, restart, stop, stopper, failures, reports, ws>>

\* create_listen_key fails: it backs off, and when 2 ** (failures - 1) is beyond
\* a float the exception leaves start.
CreateFails ==
  /\ task = "creating"
  /\ failures' = failures + 1
  /\ task' = IF failures < MaxFailures THEN "sleeping" ELSE "done"
  /\ UNCHANGED <<cancelled, asked, restart, stop, stopper, key, keepalive, reports, venue>>

\* stream_user_data returns or raises: the finally block begins.
Leave == task' = "cleanup" /\ ws' = FALSE

Connect ==
  /\ task = "streaming" /\ ~ ws
  /\ IF restart THEN Leave ELSE ws' = TRUE /\ UNCHANGED task
  /\ UNCHANGED <<cancelled, asked, restart, stop, stopper, key, keepalive, failures, reports, valid>>

\* A connection that cannot be made, or breaks in another way than closing.
StreamRaises ==
  /\ task = "streaming"
  /\ Leave
  /\ UNCHANGED <<cancelled, asked, restart, stop, stopper, key, keepalive, failures, reports, valid>>

\* The connection closes: the next one uses the same key.
Closed ==
  /\ task = "streaming" /\ ws
  /\ IF restart THEN Leave ELSE ws' = FALSE /\ UNCHANGED task
  /\ UNCHANGED <<cancelled, asked, restart, stop, stopper, key, keepalive, failures, reports, valid>>

\* Mutant of _track_seen_order_update: one update too few is remembered.
_track_seen_one_less(u) ==
  LET all == Append(seen, u) IN IF Len(all) < MaxSeen THEN all ELSE Tail(all)

_track_seen_order_update(u) ==
  LET all == Append(seen, u) IN IF Len(all) <= MaxSeen THEN all ELSE Tail(all)

\* An order update: one that is remembered is dropped, another is remembered
\* and then handed over, whether or not the callback raises.
OrderUpdate(u) ==
  /\ task = "streaming" /\ ws /\ valid
  /\ IF u \in ToSet(seen) THEN UNCHANGED reports
     ELSE /\ Len(log) < MaxLog
          /\ seen' = _track_seen_order_update(u)
          /\ log' = Append(log, u)
  /\ IF restart THEN Leave ELSE UNCHANGED <<task, ws>>
  /\ UNCHANGED <<cancelled, asked, restart, stop, stopper, key, keepalive, failures, valid>>

\* listenKeyExpired sets the restart event, which ends the stream at once. A
\* stream_event_callback that raises before that leaves everything as it is:
\* nothing obliges this step, and a behaviour without it is one of these.
KeyExpired ==
  /\ task = "streaming" /\ ws /\ ~ valid
  /\ restart' = TRUE
  /\ Leave
  /\ UNCHANGED <<cancelled, asked, stop, stopper, key, keepalive, failures, reports, valid>>

\* _delete_listen_key_safe: the key is forgotten even if the request fails.
delete_listen_key(ok) == key' = FALSE /\ valid' = (valid /\ ~ (ok /\ key))

\* Mutant of Cleaned: the task object is kept, and the task with it.
CleanedForgotten ==
  /\ task = "cleanup" /\ task' = "deleting"
  /\ UNCHANGED <<cancelled, asked, restart, stop, stopper, key, keepalive, failures, reports, venue>>

\* _cancel_keepalive_task has awaited the end of the task.
Cleaned ==
  /\ task = "cleanup" /\ task' = "deleting"
  /\ keepalive' = "none"
  /\ UNCHANGED <<cancelled, asked, restart, stop, stopper, key, failures, reports, venue>>

\* Mutant of Deleted: the loop is left whenever the stream was.
DeletedAndDone(ok) ==
  /\ task = "deleting" /\ task' = "done"
  /\ delete_listen_key(ok)
  /\ UNCHANGED <<cancelled, asked, restart, stop, stopper, keepalive, failures, reports, ws>>

\* The key is deleted: a pending cancellation goes on, a stop ends the loop, or it backs off
\* with the failure count begun anew.
Deleted(ok) ==
  /\ task = "deleting"
  /\ delete_listen_key(ok)
  /\ IF cancelled \/ stop THEN task' = "done" /\ UNCHANGED failures
     ELSE task' = "sleeping" /\ failures' = 1
  /\ UNCHANGED <<cancelled, asked, restart, stop, stopper, keepalive, reports, ws>>

\* Mutant of Wake: the stop event is not looked at.
WakeAnyway ==
  /\ task = "sleeping" /\ task' = "creating" /\ restart' = FALSE
  /\ UNCHANGED <<cancelled, asked, stop, stopper, key, keepalive, failures, reports, venue>>

\* The backoff is over: the loop looks at the stop event and goes round.
Wake ==
  /\ task = "sleeping"
  /\ IF stop THEN task' = "done" /\ UNCHANGED restart
     ELSE task' = "creating" /\ restart' = FALSE
  /\ UNCHANGED <<cancelled, asked, stop, stopper, key, keepalive, failures, reports, venue>>

-----------------------------------------------------------------------------
(* _keepalive_loop *)

\* One failed ping ends the loop; so does a ping that finds an event set.
KeepaliveEnds ==
  /\ keepalive = "running" /\ keepalive' = "ended"
  /\ UNCHANGED <<control, key, failures, reports, venue>>

\* The venue lets a key lapse that nobody keeps alive (external).
KeyLapses ==
  /\ valid /\ keepalive # "running"
  /\ valid' = FALSE
  /\ UNCHANGED <<control, key, keepalive, failures, reports, ws>>

-----------------------------------------------------------------------------
(* stop *)

\* A stop before the first step of start has nothing to await, and start
\* clears its events.
StopCalled ==
  /\ stopper = "none"
  /\ stop' = TRUE /\ restart' = TRUE
  /\ stopper' = IF task = "new" THEN "returned" ELSE "cleanup"
  /\ UNCHANGED <<task, cancelled, asked, key, keepalive, failures, reports, venue>>

StopCleaned ==
  /\ stopper = "cleanup" /\ stopper' = "deleting"
  /\ keepalive' = "none"
  /\ UNCHANGED <<task, cancelled, asked, restart, stop, key, failures, reports, venue>>

StopDeleted(ok) ==
  /\ stopper = "deleting" /\ stopper' = "returned"
  /\ delete_listen_key(ok)
  /\ UNCHANGED <<task, cancelled, asked, restart, stop, keepalive, failures, reports, ws>>

-----------------------------------------------------------------------------
\* task.cancel(): the await start is in raises.  While it streams, the finally
\* block runs first.  While it awaits the keepalive task that was running,
\* _cancel_keepalive_task takes the CancelledError for that task's and goes on;
\* one that had ended is not waited for, and the deletion of the key raises.
Cancel ==
  /\ ~ asked /\ asked' = TRUE
  /\ \/ /\ task \in {"new", "creating", "sleeping"}
        /\ task' = "done" /\ cancelled' = TRUE
        /\ UNCHANGED <<key, keepalive, ws>>
     \/ task = "streaming" /\ Leave /\ cancelled' = TRUE /\ UNCHANGED <<key, keepalive>>
     \/ /\ task = "cleanup" /\ (keepalive = "running" \/ stopper # "none")
        /\ UNCHANGED <<task, cancelled, key, keepalive, ws>>
     \/ /\ task = "deleting" \/ (task = "cleanup" /\ keepalive # "running")
        /\ task' = "done" /\ cancelled' = TRUE
        /\ key' = FALSE /\ keepalive' = "none"
        /\ UNCHANGED ws
  /\ UNCHANGED <<restart, stop, stopper, failures, reports, valid>>

Init ==
  /\ task = "new" /\ cancelled = FALSE /\ asked = FALSE
  /\ restart = FALSE /\ stop = FALSE /\ stopper = "none"
  /\ key = FALSE /\ keepalive = "none" /\ failures = 0
  /\ seen = <<>> /\ log = <<>>
  /\ ws = FALSE /\ valid = FALSE

Deleting == \E ok \in BOOLEAN : Deleted(ok) \/ StopDeleted(ok)

\* A step of start, of its keepalive task, or of a stop under way.
StreamStep ==
  \/ Start \/ CreateOk \/ CreateFails \/ Connect \/ StreamRaises \/ Closed
  \/ \E u \in Update : OrderUpdate(u)
  \/ KeyExpired \/ Cleaned \/ Deleting \/ Wake
  \/ KeepaliveEnds \/ KeyLapses
  \/ StopCleaned

Next == StreamStep \/ StopCalled \/ Cancel

Spec == Init /\ [][Next]_vars

\* The event loop runs what is ready; a request ends; asking for a key again
\* and again succeeds; and the venue closes every connection some day.
StreamFairness ==
  /\ SF_vars(CreateOk) /\ WF_vars(Connect) /\ WF_vars(Closed)
  /\ WF_vars(Cleaned) /\ WF_vars(\E ok \in BOOLEAN : Deleted(ok)) /\ WF_vars(Wake)
  /\ WF_vars(StopCleaned) /\ WF_vars(\E ok \in BOOLEAN : StopDeleted(ok))

Fairness == WF_vars(Start) /\ StreamFairness

FairSpec == Spec /\ Fairness

-----------------------------------------------------------------------------
(* Properties *)

\* Type invariant.
TypeOK ==
  /\ task \in {"new", "creating", "streaming", "cleanup", "deleting", "sleeping", "done"}
  /\ {cancelled, asked, restart, stop, key, ws, valid} \subseteq BOOLEAN
  /\ stopper \in {"none", "cleanup", "deleting", "returned"}
  /\ keepalive \in {"none", "running", "ended"}
  /\ failures \in 0 .. MaxFailures + 1
  /\ Len(seen) <= MaxSeen /\ ToSet(seen) \subseteq Update
  /\ Len(log) <= MaxLog /\ ToSet(log) \subseteq Update

\* When start has ended and no stop is under way, nothing of it is left: no
\* keepalive task runs and no key is held, in whatever order a stop, a
\* cancellation and the steps of start met.
NothingLeft ==
  (task = "done" /\ stopper \in {"none", "returned"}) => (keepalive = "none" /\ ~ key)

\* The venue may send an update again after a reconnection: report_callback
\* gets it again only when at least MaxSeen others came in between.
NotRepeated ==
  \A i, j \in DOMAIN log : (i < j /\ log[i] = log[j]) => j - i > MaxSeen

\* A stop ends start, wherever it was, once start has made its first step; a
\* stop that came before is forgotten.
StopEnds == (stop /\ task # "new") ~> (task = "done" /\ stopper = "returned")

\* An expired key is replaced: the stream goes on with a new one, unless it is
\* stopped or cancelled, or asking for the key failed more than MaxFailures
\* times in a row, which nobody asked to be the end.
ExpiryIsRepaired ==
  (restart /\ task # "new") ~> ((task = "streaming" /\ valid) \/ stop \/ asked \/ failures > MaxFailures)
=============================================================================
