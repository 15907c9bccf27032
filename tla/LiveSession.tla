----------------------------- MODULE LiveSession -----------------------------
(***************************************************************************)
(* A live session: main of wickhunter/cli/run_live.py and the tasks it     *)
(* makes - the depth stream, the user data stream (UserStream, whose       *)
(* variables are part of this module), the health loop - from the startup  *)
(* reconciliation to the end of asyncio.run.                               *)
(***************************************************************************)
EXTENDS Integers

CONSTANTS
  Attempts,       \* --startup-reconcile-attempts, at least 1
  Update, MaxSeen, MaxFailures, MaxLog    \* as in UserStream

ASSUME SessionAssumption ==
  /\ Attempts \in Nat \ {0}
  /\ MaxSeen \in Nat \ {0} /\ MaxFailures \in Nat \ {0} /\ MaxLog \in Nat

VARIABLES
  args,           \* --skip-user-stream, and is --health-output given?
  main,           \* where main is
  attempt,        \* the startup reconciliation it is at
  due,            \* is the duration over?
  halted,         \* runtime.halted
  early,          \* history: did main leave its loop because of halted?
  depth,          \* the task of stream_depth
  health,         \* health_task
  shown,          \* does the last health snapshot show runtime_halted?
  task, cancelled, asked, restart, stop, stopper, key, keepalive, failures,
  seen, log, ws, valid                    \* as in UserStream

U == INSTANCE UserStream

own == <<args, main, attempt, due, halted, early, depth, health, shown>>
stream == <<task, cancelled, asked, restart, stop, stopper, key, keepalive, failures, seen, log, ws, valid>>
vars == <<own, stream>>

\* Where main is once asyncio.run has returned, or raised.
Ended == {"returned", "raised"}

\* The tasks have been made.
Begun == depth # "none"

-----------------------------------------------------------------------------
(* The startup reconciliation *)

\* It says ok, or there is no user stream and so none: the tasks are made.
Begin ==
  /\ main = "reconciling" /\ main' = "running"
  /\ depth' = "running"
  /\ health' = IF args.health THEN "running" ELSE "none"
  /\ UNCHANGED <<args, attempt, due, halted, early, shown, stream>>

\* get_open_orders failed: try again, up to the number of attempts.
ReconcileQueryFails ==
  /\ main = "reconciling" /\ ~ args.skip
  /\ IF attempt < Attempts THEN attempt' = attempt + 1 /\ UNCHANGED main
     ELSE main' = "raised" /\ UNCHANGED attempt
  /\ UNCHANGED <<args, due, halted, early, depth, health, shown, stream>>

\* Orders are left unresolved, or a report of the answer raises.
ReconcileFails ==
  /\ main = "reconciling" /\ ~ args.skip
  /\ main' = "raised"
  /\ UNCHANGED <<args, attempt, due, halted, early, depth, health, shown, stream>>

-----------------------------------------------------------------------------
(* The tasks *)

\* A payload that the parser or the bridge refuses, or a connection that fails
\* in another way than closing, ends the task; nobody looks at it before the
\* end of the session.
DepthBreaks ==
  /\ depth = "running" /\ depth' = "broken"
  /\ UNCHANGED <<args, main, attempt, due, halted, early, health, shown, stream>>

\* The user stream makes a step.
StreamRuns ==
  /\ Begun /\ ~ args.skip
  /\ U!StreamStep
  /\ UNCHANGED own

\* An account update comes in on the user stream and its snapshot is refused.
AccountBreach ==
  /\ task = "streaming" /\ ws /\ valid
  /\ halted' = TRUE
  /\ UNCHANGED <<args, main, attempt, due, early, depth, health, shown, stream>>

build_health_snapshot == halted

\* The file is written, or it cannot be and the health task ends.
write_snapshot(then) ==
  \/ shown' = build_health_snapshot /\ health' = then
  \/ health' = "failed" /\ UNCHANGED shown

\* One turn of the loop while the stop event is not set.
HealthTurn ==
  /\ health = "running" /\ main = "running"
  /\ write_snapshot("running")
  /\ UNCHANGED <<args, main, attempt, due, halted, early, depth, stream>>

\* Mutant of HealthLast: the loop ends without a last snapshot.
HealthLastUnwritten ==
  /\ health = "running" /\ main = "leaving"
  /\ health' = "done"
  /\ UNCHANGED <<args, main, attempt, due, halted, early, depth, shown, stream>>

\* The stop event is set: one more snapshot, and the task is done.
HealthLast ==
  /\ health = "running" /\ main = "leaving"
  /\ write_snapshot("done")
  /\ UNCHANGED <<args, main, attempt, due, halted, early, depth, stream>>

-----------------------------------------------------------------------------
(* main *)

\* The duration is over (an interrupt is alike: it ends the loop).
TimeUp ==
  /\ main = "running" /\ ~ due /\ due' = TRUE
  /\ UNCHANGED <<args, main, attempt, halted, early, depth, health, shown, stream>>

\* The loop ends, the stop event of the health loop is set, and its task is
\* awaited.
LeaveLoop ==
  /\ main = "running" /\ (due \/ halted)
  /\ main' = "leaving" /\ early' = halted
  /\ UNCHANGED <<args, attempt, due, halted, depth, health, shown, stream>>

\* Mutant of CancelTasks: the task of the user stream is not on the list.
CancelTasksDepthOnly ==
  /\ depth' = IF depth = "running" THEN "cancelled" ELSE depth
  /\ UNCHANGED stream

\* Every task is cancelled, and then all of them are awaited.
CancelTasks ==
  /\ depth' = IF depth = "running" THEN "cancelled" ELSE depth
  /\ IF args.skip \/ task = "done" THEN UNCHANGED stream ELSE U!Cancel

\* main goes on to cancel its tasks when the health task is done or there is
\* none.
CancelAll ==
  /\ main = "leaving" /\ health \in {"none", "done"}
  /\ main' = "gathering"
  /\ CancelTasks
  /\ UNCHANGED <<args, attempt, due, halted, early, health, shown>>

\* The health task failed: awaiting it raises out of main, and asyncio.run
\* cancels and awaits what main has left running.
MainRaises ==
  /\ main = "leaving" /\ health = "failed"
  /\ main' = "unwinding"
  /\ CancelTasks
  /\ UNCHANGED <<args, attempt, due, halted, early, health, shown>>

\* Mutant of TasksEnded: gather is not awaited.
TasksNotAwaited == depth # "running"

TasksEnded == depth # "running" /\ (args.skip \/ task = "done")

\* gather has returned: the stream is stopped, if there is one.
Gathered ==
  /\ main = "gathering" /\ TasksEnded
  /\ IF args.skip THEN main' = "returned" /\ UNCHANGED stream
     ELSE main' = "stopping" /\ U!StopCalled
  /\ UNCHANGED <<args, attempt, due, halted, early, depth, health, shown>>

\* stop has returned: the session is closed and summed up.
Stopped ==
  /\ main = "stopping" /\ stopper = "returned"
  /\ main' = "returned"
  /\ UNCHANGED <<args, attempt, due, halted, early, depth, health, shown, stream>>

Unwound ==
  /\ main = "unwinding" /\ TasksEnded
  /\ main' = "raised"
  /\ UNCHANGED <<args, attempt, due, halted, early, depth, health, shown, stream>>

-----------------------------------------------------------------------------
Init ==
  /\ args \in [skip : BOOLEAN, health : BOOLEAN]
  /\ main = "reconciling" /\ attempt = 1
  /\ due = FALSE /\ halted = FALSE /\ early = FALSE
  /\ depth = "none" /\ health = "none" /\ shown = FALSE
  /\ U!Init

MainStep ==
  \/ Begin \/ ReconcileQueryFails \/ ReconcileFails
  \/ LeaveLoop \/ CancelAll \/ MainRaises \/ Gathered \/ Stopped \/ Unwound

Next ==
  \/ MainStep
  \/ DepthBreaks \/ StreamRuns \/ AccountBreach \/ HealthTurn \/ HealthLast
  \/ TimeUp

Spec == Init /\ [][Next]_vars

\* The event loop runs what is ready: main, the last turn of the health loop
\* and the first of start; of the rest of the stream as in UserStream.
Fairness ==
  /\ WF_vars(MainStep) /\ WF_vars(HealthLast)
  /\ WF_vars(StreamRuns /\ U!Start)
  /\ U!StreamFairness

FairSpec == Spec /\ Fairness

-----------------------------------------------------------------------------
(* Properties *)

\* Type invariant of the session and of its user stream.
TypeOK ==
  /\ args \in [skip : BOOLEAN, health : BOOLEAN]
  /\ main \in {"reconciling", "running", "leaving", "gathering", "unwinding", "stopping"} \cup Ended
  /\ attempt \in 1 .. Attempts
  /\ {due, halted, early, shown} \subseteq BOOLEAN
  /\ depth \in {"none", "running", "broken", "cancelled"}
  /\ health \in {"none", "running", "done", "failed"}
  /\ U!TypeOK

\* When the session has ended, also by an exception and wherever the tasks
\* were, none of them runs and no listen key is held.
NothingSurvives ==
  main \in Ended =>
    /\ depth # "running" /\ health # "running"
    /\ task \in {"new", "done"} /\ keepalive = "none" /\ ~ key

\* A session that a halt ended early says so in its last health snapshot: main
\* sets the stop event first, and the loop writes once more.
HealthShowsHalt == (early /\ health = "done") => shown

\* The cancellation of start was taken for that of its keepalive task.
Swallowed == asked /\ ~ cancelled

\* A session whose loop is over ends, unless the cancellation of the user
\* stream is swallowed: that is the only way in which it does not.
EndsUnlessSwallowed == (main = "leaving") ~> (main \in Ended \/ Swallowed)

\* "Run duration in seconds.": a session that is due ends.  It does not when
\* the cancellation is swallowed, since gather then waits for ever.
SessionEnds == due ~> (main \in Ended)
=============================================================================
