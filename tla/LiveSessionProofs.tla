-------------------------- MODULE LiveSessionProofs --------------------------
(***************************************************************************)
(* Theorems about LiveSession, for any number of startup attempts and any  *)
(* user stream: what holds of the stream is taken from UserStreamProofs,   *)
(* whose steps are those of the session.                                   *)
(***************************************************************************)
EXTENDS LiveSession, TLAPS

P == INSTANCE UserStreamProofs

-----------------------------------------------------------------------------
(* The inductive invariant *)

\* The types of main and of its tasks, without the stream's.
OwnOK ==
  /\ args \in [skip : BOOLEAN, health : BOOLEAN]
  /\ main \in {"reconciling", "running", "leaving", "gathering", "unwinding", "stopping"} \cup Ended
  /\ depth \in {"none", "running", "broken", "cancelled"}
  /\ health \in {"none", "running", "done", "failed"}
  /\ due \in BOOLEAN /\ halted \in BOOLEAN /\ early \in BOOLEAN /\ shown \in BOOLEAN

AttemptOK == attempt \in 1 .. Attempts

\* Where main is when its loop has not ended, and when its tasks may run.
InLoop == {"reconciling", "running"}
TasksRun == {"running", "leaving"}

\* What main has made and not yet ended.  A stream that was begun and not
\* skipped is done before main goes on to stop it or to return.
Phases ==
  /\ main = "reconciling" => depth = "none"
  /\ depth = "none" => main \in {"reconciling", "raised"} /\ health = "none" /\ task = "new"
  /\ args.skip => task = "new"
  /\ depth = "running" => main \in TasksRun
  /\ health = "running" => main \in TasksRun
  /\ (main \in {"stopping"} \cup Ended /\ depth # "none") => args.skip \/ task = "done"

\* A halt that ended the loop stays, and the last snapshot comes after it.
Halts ==
  /\ early => halted
  /\ main \in InLoop => ~ early /\ health # "done"
  /\ HealthShowsHalt

\* The inductive invariant: that of the stream, the phases of main, and what
\* the health loop has told.
IInv == OwnOK /\ AttemptOK /\ Phases /\ Halts /\ P!IInv

-----------------------------------------------------------------------------
(* The stream *)

\* The session's instance of the stream and the proofs' are the same steps.
LEMMA SameNext == U!Next => P!Next
BY SMTT(30)
   DEF U!Next, U!StreamStep, U!Start, U!CreateOk, U!CreateFails, U!Connect, U!StreamRaises,
       U!Closed, U!OrderUpdate, U!KeyExpired, U!Cleaned, U!Deleting, U!Deleted, U!StopDeleted,
       U!Wake, U!KeepaliveEnds, U!KeyLapses, U!StopCleaned, U!StopCalled, U!Cancel, U!Leave,
       U!delete_listen_key, U!_track_seen_order_update, U!ToSet, U!control, U!reports, U!venue,
       P!Next, P!StreamStep, P!Start, P!CreateOk, P!CreateFails, P!Connect, P!StreamRaises,
       P!Closed, P!OrderUpdate, P!KeyExpired, P!Cleaned, P!Deleting, P!Deleted, P!StopDeleted,
       P!Wake, P!KeepaliveEnds, P!KeyLapses, P!StopCleaned, P!StopCalled, P!Cancel, P!Leave,
       P!delete_listen_key, P!_track_seen_order_update, P!ToSet, P!control, P!reports, P!venue

\* A step of the stream, or none, keeps the stream's invariant.
LEMMA StreamInvariant ==
  ASSUME P!IInv, U!Next \/ UNCHANGED stream
  PROVE  P!IInv'
<1>1. P!UserStreamAssumption
  BY SessionAssumption DEF P!UserStreamAssumption
<1>2. [P!Next]_P!vars
  BY SameNext DEF P!vars, P!control, P!reports, P!venue, stream
<1> QED BY <1>1, <1>2, P!NextIInv

\* A stream that is done stays done.
LEMMA DoneStaysDone ==
  ASSUME U!Next \/ UNCHANGED stream, task = "done"
  PROVE  task' = "done"
<1>1. CASE UNCHANGED stream
  BY <1>1 DEF stream
<1>2. CASE U!StreamStep
  BY <1>2 DEF U!StreamStep, U!Start, U!CreateOk, U!CreateFails, U!Connect, U!StreamRaises,
              U!Closed, U!OrderUpdate, U!KeyExpired, U!Cleaned, U!Deleting, U!Deleted,
              U!StopDeleted, U!Wake, U!KeepaliveEnds, U!KeyLapses, U!StopCleaned, U!control
<1>3. CASE U!StopCalled
  BY <1>3 DEF U!StopCalled
<1>4. CASE U!Cancel
  BY <1>4 DEF U!Cancel
<1> QED BY <1>1, <1>2, <1>3, <1>4 DEF U!Next

\* Whatever the session does, the stream makes a step of its own or none.
LEMMA NextIsStream ==
  ASSUME [Next]_vars
  PROVE  U!Next \/ UNCHANGED stream
<1>1. CASE Begin \/ ReconcileQueryFails \/ ReconcileFails \/ LeaveLoop \/ Stopped \/ Unwound
  BY <1>1 DEF Begin, ReconcileQueryFails, ReconcileFails, LeaveLoop, Stopped, Unwound
<1>2. CASE CancelAll \/ MainRaises
  BY <1>2 DEF CancelAll, MainRaises, CancelTasks, U!Next
<1>3. CASE Gathered
  BY <1>3 DEF Gathered, U!Next
<1>4. CASE DepthBreaks \/ AccountBreach \/ HealthTurn \/ HealthLast \/ TimeUp
  BY <1>4 DEF DepthBreaks, AccountBreach, HealthTurn, HealthLast, TimeUp
<1>5. CASE StreamRuns
  BY <1>5 DEF StreamRuns, U!Next
<1>6. CASE UNCHANGED vars
  BY <1>6 DEF vars
<1> QED BY <1>1, <1>2, <1>3, <1>4, <1>5, <1>6 DEF Next, MainStep

-----------------------------------------------------------------------------
(* main and its tasks *)

\* Every step keeps the phases of main.
LEMMA PhasesStep ==
  ASSUME OwnOK, Phases, [Next]_vars
  PROVE  Phases'
<1> USE DEF OwnOK, Phases, InLoop, TasksRun, Ended
<1>1. CASE Begin
  BY <1>1 DEF Begin, stream
<1>2. CASE ReconcileQueryFails
  BY <1>2 DEF ReconcileQueryFails, stream
<1>3. CASE ReconcileFails
  BY <1>3 DEF ReconcileFails, stream
<1>4. CASE LeaveLoop
  BY <1>4 DEF LeaveLoop, stream
<1>5. ASSUME main = "leaving", main' \in {"gathering", "unwinding"}, health # "running",
             CancelTasks, UNCHANGED <<args, health>>
      PROVE  Phases'
  <2>1. depth # "none" /\ depth' # "none" /\ depth' # "running"
    BY <1>5 DEF CancelTasks
  <2>2. args.skip => task' = task
    BY <1>5 DEF CancelTasks, stream
  <2> QED BY <1>5, <2>1, <2>2
<1>6. CASE CancelAll \/ MainRaises
  <2>1. /\ main = "leaving" /\ main' \in {"gathering", "unwinding"} /\ health # "running"
        /\ CancelTasks /\ UNCHANGED <<args, health>>
    BY <1>6 DEF CancelAll, MainRaises
  <2> QED BY <1>5, <2>1
<1>7. CASE Gathered
  <2>1. /\ main = "gathering" /\ main' \in {"returned", "stopping"} /\ TasksEnded
        /\ task' = task /\ UNCHANGED <<args, depth, health>>
    BY <1>7 DEF Gathered, U!StopCalled, stream
  <2> QED BY <2>1 DEF TasksEnded
<1>8. CASE Stopped
  BY <1>8 DEF Stopped, stream
<1>9. CASE Unwound
  BY <1>9 DEF Unwound, TasksEnded, stream
<1>10. CASE DepthBreaks \/ AccountBreach \/ TimeUp
  BY <1>10 DEF DepthBreaks, AccountBreach, TimeUp, stream
<1>11. CASE HealthTurn \/ HealthLast
  <2>1. /\ health = "running" /\ health' \in {"running", "done", "failed"}
        /\ main \in TasksRun /\ UNCHANGED <<args, main, depth, task>>
    BY <1>11 DEF HealthTurn, HealthLast, write_snapshot, stream
  <2> QED BY <2>1
<1>12. CASE StreamRuns
  <2>1. depth # "none" /\ ~ args.skip /\ UNCHANGED <<args, main, depth, health>>
    BY <1>12 DEF StreamRuns, Begun, own
  <2>2. task = "done" => task' = "done"
    BY <1>12, DoneStaysDone DEF StreamRuns, U!Next
  <2> QED BY <2>1, <2>2
<1>13. CASE UNCHANGED vars
  BY <1>13 DEF vars, own, stream
<1> QED BY <1>1, <1>2, <1>3, <1>4, <1>6, <1>7, <1>8, <1>9, <1>10, <1>11, <1>12, <1>13
        DEF Next, MainStep

\* Every step keeps the types.
LEMMA OwnStep ==
  ASSUME OwnOK, [Next]_vars
  PROVE  OwnOK'
<1> USE DEF OwnOK, Ended
<1>1. CASE Begin \/ ReconcileQueryFails \/ ReconcileFails
  BY <1>1 DEF Begin, ReconcileQueryFails, ReconcileFails
<1>2. CASE LeaveLoop
  BY <1>2 DEF LeaveLoop
<1>3. CASE CancelAll \/ MainRaises
  BY <1>3 DEF CancelAll, MainRaises, CancelTasks
<1>4. CASE Gathered \/ Stopped \/ Unwound
  BY <1>4 DEF Gathered, Stopped, Unwound
<1>5. CASE DepthBreaks \/ AccountBreach \/ TimeUp
  BY <1>5 DEF DepthBreaks, AccountBreach, TimeUp
<1>6. CASE HealthTurn \/ HealthLast
  BY <1>6 DEF HealthTurn, HealthLast, write_snapshot, build_health_snapshot
<1>7. CASE StreamRuns \/ UNCHANGED vars
  BY <1>7 DEF StreamRuns, vars, own
<1> QED BY <1>1, <1>2, <1>3, <1>4, <1>5, <1>6, <1>7 DEF Next, MainStep

LEMMA AttemptStep ==
  ASSUME AttemptOK, [Next]_vars
  PROVE  AttemptOK'
<1>1. CASE ReconcileQueryFails
  BY <1>1, SessionAssumption DEF ReconcileQueryFails, AttemptOK
<1>2. CASE attempt' = attempt
  BY <1>2 DEF AttemptOK
<1>3. ReconcileQueryFails \/ attempt' = attempt
  BY DEF Next, MainStep, Begin, ReconcileFails, LeaveLoop, CancelAll, MainRaises, Gathered,
         Stopped, Unwound, DepthBreaks, StreamRuns, AccountBreach, HealthTurn, HealthLast,
         TimeUp, vars, own
<1> QED BY <1>1, <1>2, <1>3

\* Every step keeps what the last snapshot says of a halt.
LEMMA HaltsStep ==
  ASSUME OwnOK, Phases, Halts, [Next]_vars
  PROVE  Halts'
<1> USE DEF OwnOK, Halts, HealthShowsHalt, InLoop
<1>1. CASE Begin
  BY <1>1 DEF Begin, Phases
<1>2. CASE ReconcileQueryFails \/ ReconcileFails
  BY <1>2 DEF ReconcileQueryFails, ReconcileFails
<1>3. CASE LeaveLoop
  BY <1>3 DEF LeaveLoop
<1>4. CASE CancelAll \/ MainRaises \/ Gathered \/ Stopped \/ Unwound
  <2>1. main \notin InLoop /\ main' \notin InLoop /\ UNCHANGED <<halted, early, health, shown>>
    BY <1>4 DEF CancelAll, MainRaises, Gathered, Stopped, Unwound
  <2> QED BY <2>1
<1>5. CASE DepthBreaks \/ AccountBreach \/ TimeUp
  BY <1>5 DEF DepthBreaks, AccountBreach, TimeUp
<1>6. CASE HealthTurn
  BY <1>6 DEF HealthTurn, write_snapshot
<1>7. CASE HealthLast
  <2>1. /\ main = "leaving" /\ UNCHANGED <<main, early, halted>>
        /\ health' = "failed" \/ shown' = halted
    BY <1>7 DEF HealthLast, write_snapshot, build_health_snapshot
  <2> QED BY <2>1
<1>8. CASE StreamRuns \/ UNCHANGED vars
  BY <1>8 DEF StreamRuns, vars, own
<1> QED BY <1>1, <1>2, <1>3, <1>4, <1>5, <1>6, <1>7, <1>8 DEF Next, MainStep

-----------------------------------------------------------------------------
(* The theorems *)

\* The invariant holds at the start.
LEMMA InitIInv == Init => IInv
<1> SUFFICES ASSUME Init PROVE IInv
  OBVIOUS
<1>1. OwnOK
  BY DEF Init, OwnOK
<1>2. AttemptOK
  BY SessionAssumption DEF Init, AttemptOK
<1>3. Phases
  BY DEF Init, Phases, U!Init, TasksRun, Ended
<1>4. Halts
  BY DEF Init, Halts, HealthShowsHalt
<1>5. P!IInv
  <2>1. P!UserStreamAssumption
    BY SessionAssumption DEF P!UserStreamAssumption
  <2>2. P!Init
    BY DEF Init, U!Init, P!Init
  <2> QED BY <2>1, <2>2, P!InitIInv
<1> QED BY <1>1, <1>2, <1>3, <1>4, <1>5 DEF IInv

\* Every step keeps it.
LEMMA NextIInv ==
  ASSUME IInv, [Next]_vars
  PROVE  IInv'
<1>1. OwnOK' /\ AttemptOK' /\ Phases' /\ Halts'
  BY OwnStep, AttemptStep, PhasesStep, HaltsStep DEF IInv
<1>2. P!IInv'
  BY NextIsStream, StreamInvariant DEF IInv
<1> QED BY <1>1, <1>2 DEF IInv

\* The inductive invariant holds always, of the session and of the stream it
\* runs.
THEOREM Invariance == Spec => []IInv
<1>1. IInv /\ [Next]_vars => IInv'
  BY NextIInv
<1> QED BY <1>1, InitIInv, PTL DEF Spec

\* Nothing survives the end of a session, whether it returned or raised and
\* wherever its tasks were: no task runs and no listen key is held.
THEOREM SessionLeavesNothing == Spec => []NothingSurvives
<1>1. ASSUME IInv PROVE NothingSurvives
  <2> SUFFICES ASSUME main \in Ended PROVE NothingSurvives
    BY DEF NothingSurvives
  <2>1. Phases /\ OwnOK /\ P!Clean
    BY <1>1 DEF IInv, P!IInv
  <2>2. depth # "running" /\ health # "running"
    BY <2>1 DEF Phases, TasksRun, Ended
  <2>3. task \in {"new", "done"}
    BY <2>1 DEF Phases
  <2>4. keepalive = "none" /\ ~ key
    BY <2>1, <2>3 DEF P!Clean, P!Idle
  <2> QED BY <2>2, <2>3, <2>4 DEF NothingSurvives
<1> QED BY <1>1, Invariance, PTL

\* A session that a halt ended early says so in its last health snapshot.
THEOREM LastSnapshotShowsHalt == Spec => []HealthShowsHalt
<1>1. IInv => HealthShowsHalt
  BY DEF IInv, Halts
<1> QED BY <1>1, Invariance, PTL

\* The types of the session and of its user stream.
THEOREM TypeCorrect == Spec => []TypeOK
<1>1. ASSUME IInv PROVE TypeOK
  <2>1. P!UserStreamAssumption
    BY SessionAssumption DEF P!UserStreamAssumption
  <2>2. P!TypeOK
    BY <1>1, <2>1, P!IInvTypes DEF IInv
  <2>3. U!TypeOK
    BY <2>2 DEF U!TypeOK, P!TypeOK, U!ToSet, P!ToSet
  <2>4. {due, halted, early, shown} \subseteq BOOLEAN
    BY <1>1 DEF IInv, OwnOK
  <2> QED BY <1>1, <2>3, <2>4 DEF IInv, OwnOK, AttemptOK, TypeOK
<1> QED BY <1>1, Invariance, PTL
=============================================================================
