-------------------------- MODULE UserStreamProofs --------------------------
(***************************************************************************)
(* Theorems about UserStream, for every set of updates, any number of them *)
(* remembered, and any order of a stop, a cancellation and the steps of    *)
(* start.                                                                  *)
(***************************************************************************)
EXTENDS UserStream, TLAPS

-----------------------------------------------------------------------------
(* The inductive invariant *)

\* Where start holds neither a listen key nor a keepalive task.
Idle == {"new", "creating", "sleeping", "done"}

\* The tasks, the events and the flags.
ControlOK ==
  /\ task \in Idle \cup {"streaming", "cleanup", "deleting"}
  /\ cancelled \in BOOLEAN /\ asked \in BOOLEAN /\ restart \in BOOLEAN /\ stop \in BOOLEAN
  /\ key \in BOOLEAN /\ ws \in BOOLEAN /\ valid \in BOOLEAN
  /\ stopper \in {"none", "cleanup", "deleting", "returned"}
  /\ keepalive \in {"none", "running", "ended"}

\* The failure count passes MaxFailures only in the step that ends start.
FailuresOK ==
  /\ failures \in 0 .. MaxFailures + 1
  /\ task # "done" => failures <= MaxFailures

\* The key and the keepalive task live from CreateOk to the finally block,
\* which first awaits the task and then deletes the key.
Clean ==
  /\ task \in Idle => keepalive = "none" /\ ~ key
  /\ task = "deleting" => keepalive = "none"

\* How many of n updates are remembered.
Kept(n) == IF n <= MaxSeen THEN n ELSE MaxSeen

\* What is remembered are the last MaxSeen updates handed over, or all of them
\* while they are fewer.
Remembered ==
  /\ seen \in Seq(Update) /\ log \in Seq(Update)
  /\ Len(log) <= MaxLog
  /\ Len(seen) = Kept(Len(log))
  /\ \A i \in 1 .. Len(seen) : seen[i] = log[Len(log) - Len(seen) + i]

\* The inductive invariant: NotRepeated needs that the queue is exactly the
\* tail of what was handed over, and NothingLeft that the finally block has
\* been through before start sleeps or ends.
IInv == ControlOK /\ FailuresOK /\ Clean /\ Remembered /\ NotRepeated

-----------------------------------------------------------------------------
(* The tasks *)

\* The two deletions of the key, whether the request succeeds or not.
LEMMA DeleteEffect ==
  ASSUME NEW ok \in BOOLEAN, delete_listen_key(ok), valid \in BOOLEAN, key \in BOOLEAN
  PROVE  key' = FALSE /\ valid' \in BOOLEAN
BY DEF delete_listen_key

\* Every step keeps the types of the tasks, the events and the flags, and what
\* is clean stays clean.
LEMMA ControlStep ==
  ASSUME ControlOK, Clean, [Next]_vars
  PROVE  ControlOK' /\ Clean'
<1> USE DEF ControlOK, Clean, Idle, control, reports, venue
<1>1. CASE Start
  BY <1>1 DEF Start
<1>2. CASE CreateOk
  BY <1>2 DEF CreateOk
<1>3. CASE CreateFails
  BY <1>3 DEF CreateFails
<1>4. CASE Connect
  BY <1>4 DEF Connect, Leave
<1>5. CASE StreamRaises
  BY <1>5 DEF StreamRaises, Leave
<1>6. CASE Closed
  BY <1>6 DEF Closed, Leave
<1>7. ASSUME NEW u \in Update, OrderUpdate(u) PROVE ControlOK' /\ Clean'
  BY <1>7 DEF OrderUpdate, Leave
<1>8. CASE KeyExpired
  BY <1>8 DEF KeyExpired, Leave
<1>9. CASE Cleaned
  BY <1>9 DEF Cleaned
<1>10. ASSUME NEW ok \in BOOLEAN, Deleted(ok) PROVE ControlOK' /\ Clean'
  BY <1>10, DeleteEffect DEF Deleted
<1>11. ASSUME NEW ok \in BOOLEAN, StopDeleted(ok) PROVE ControlOK' /\ Clean'
  BY <1>11, DeleteEffect DEF StopDeleted
<1>12. CASE Wake
  BY <1>12 DEF Wake
<1>13. CASE KeepaliveEnds
  BY <1>13 DEF KeepaliveEnds
<1>14. CASE KeyLapses
  BY <1>14 DEF KeyLapses
<1>15. CASE StopCleaned
  BY <1>15 DEF StopCleaned
<1>16. CASE StopCalled
  BY <1>16 DEF StopCalled
<1>17. CASE Cancel
  <2>1. UNCHANGED <<restart, stop, stopper, valid>> /\ asked' = TRUE
    BY <1>17 DEF Cancel
  <2>2. CASE task' = "done" /\ cancelled' = TRUE /\ key' = FALSE /\ keepalive' = "none" /\ ws' = ws
    BY <2>1, <2>2
  <2>3. CASE task \in Idle /\ task' = "done" /\ cancelled' = TRUE /\ UNCHANGED <<key, keepalive, ws>>
    BY <2>1, <2>3
  <2>4. CASE task' = "cleanup" /\ ws' = FALSE /\ cancelled' = TRUE /\ UNCHANGED <<key, keepalive>>
    BY <2>1, <2>4
  <2>5. CASE UNCHANGED <<task, cancelled, key, keepalive, ws>>
    BY <2>1, <2>5
  <2> QED BY <1>17, <2>2, <2>3, <2>4, <2>5 DEF Cancel, Leave
<1>18. CASE UNCHANGED vars
  BY <1>18 DEF vars
<1> QED
  BY <1>1, <1>2, <1>3, <1>4, <1>5, <1>6, <1>7, <1>8, <1>9, <1>10, <1>11, <1>12, <1>13, <1>14,
     <1>15, <1>16, <1>17, <1>18 DEF Next, StreamStep, Deleting

\* The failure count: a failed request adds one and ends start at the limit, a
\* stream that was left begins it anew.
LEMMA FailuresStep ==
  ASSUME FailuresOK, [Next]_vars
  PROVE  FailuresOK'
<1>1. MaxFailures \in Nat /\ MaxFailures >= 1
  BY UserStreamAssumption
<1>2. CASE CreateFails
  BY <1>1, <1>2 DEF CreateFails, FailuresOK
<1>3. ASSUME NEW ok \in BOOLEAN, Deleted(ok) PROVE FailuresOK'
  BY <1>1, <1>3 DEF Deleted, FailuresOK
<1>4. CASE failures' = failures /\ (task = "done" => task' = "done")
  BY <1>4 DEF FailuresOK
<1>5. \/ CreateFails \/ \E ok \in BOOLEAN : Deleted(ok)
      \/ failures' = failures /\ (task = "done" => task' = "done")
  <2>1. CASE Start \/ CreateOk \/ Connect \/ StreamRaises \/ Closed \/ KeyExpired
    BY <2>1 DEF Start, CreateOk, Connect, StreamRaises, Closed, KeyExpired, Leave
  <2>2. CASE \E u \in Update : OrderUpdate(u)
    BY <2>2 DEF OrderUpdate
  <2>3. CASE Cleaned \/ Wake \/ KeepaliveEnds \/ KeyLapses \/ StopCleaned \/ StopCalled
    BY <2>3 DEF Cleaned, Wake, KeepaliveEnds, KeyLapses, StopCleaned, StopCalled, control
  <2>4. CASE \E ok \in BOOLEAN : StopDeleted(ok)
    BY <2>4 DEF StopDeleted
  <2>5. CASE Cancel
    BY <2>5 DEF Cancel, Leave
  <2>6. CASE UNCHANGED vars
    BY <2>6 DEF vars, control
  <2> QED BY <2>1, <2>2, <2>3, <2>4, <2>5, <2>6 DEF Next, StreamStep, Deleting
<1> QED BY <1>2, <1>3, <1>4, <1>5

-----------------------------------------------------------------------------
(* The updates *)

\* What is remembered after an update that is not remembered before: the tail
\* of the longer log.
LEMMA TrackSeen ==
  ASSUME Remembered, NEW u \in Update, seen' = _track_seen_order_update(u),
         log' = Append(log, u), Len(log) < MaxLog
  PROVE  Remembered'
<1>1. PICK n \in Nat, k \in Nat : n = Len(log) /\ k = Len(seen)
  BY DEF Remembered
<1>2. k = Kept(n) /\ n - k \in Nat /\ k <= MaxSeen /\ MaxSeen \in Nat
  BY <1>1, UserStreamAssumption DEF Remembered, Kept
<1>3. PICK all \in Seq(Update) : all = Append(seen, u)
  <2>1. Append(seen, u) \in Seq(Update)
    BY DEF Remembered
  <2> QED BY <2>1
<1>4. Len(all) = k + 1 /\ all[k + 1] = u
  BY <1>1, <1>3 DEF Remembered
<1>5. ASSUME NEW i \in 1 .. k PROVE all[i] = seen[i]
  BY <1>1, <1>3 DEF Remembered
<1>6. log' \in Seq(Update) /\ Len(log') = n + 1 /\ log'[n + 1] = u
  BY <1>1 DEF Remembered
<1>7. ASSUME NEW i \in 1 .. n PROVE log'[i] = log[i]
  BY <1>1 DEF Remembered
<1>8. n + 1 <= MaxLog
  BY <1>1, UserStreamAssumption
<1>9. ASSUME NEW i \in 1 .. k + 1 PROVE all[i] = log'[n - k + i]
  <2>1. CASE i = k + 1
    <3>1. n - k + i = n + 1
      BY <1>2, <2>1
    <3> QED BY <1>4, <1>6, <2>1, <3>1
  <2>2. CASE i # k + 1
    <3>1. i \in 1 .. k
      BY <2>2
    <3>2. n - k + i \in 1 .. n
      BY <1>2, <3>1
    <3>3. seen[i] = log[n - k + i]
      BY <1>1, <3>1 DEF Remembered
    <3> QED BY <1>5, <1>7, <3>1, <3>2, <3>3
  <2> QED BY <2>1, <2>2
<1>10. seen' = IF k + 1 <= MaxSeen THEN all ELSE Tail(all)
  BY <1>3, <1>4 DEF _track_seen_order_update
<1>11. CASE k + 1 <= MaxSeen
  <2>1. k = n /\ k + 1 = Kept(n + 1)
    BY <1>2, <1>11 DEF Kept
  <2>2. seen' = all /\ Len(seen') = k + 1 /\ Len(log') - Len(seen') = n - k
    BY <1>1, <1>2, <1>4, <1>6, <1>10, <1>11
  <2>3. \A i \in 1 .. Len(seen') : seen'[i] = log'[Len(log') - Len(seen') + i]
    BY <1>9, <2>2
  <2> QED BY <1>6, <1>8, <2>1, <2>2, <2>3 DEF Remembered
<1>12. CASE ~ (k + 1 <= MaxSeen)
  <2>1. k = MaxSeen /\ k = Kept(n + 1)
    BY <1>2, <1>12 DEF Kept
  <2>2. seen' = Tail(all)
    BY <1>10, <1>12
  <2>3. seen' \in Seq(Update) /\ Len(seen') = k
    BY <1>4, <2>2
  <2>4. ASSUME NEW i \in 1 .. k PROVE seen'[i] = all[i + 1]
    BY <1>4, <2>2
  <2>5. ASSUME NEW i \in 1 .. k PROVE seen'[i] = log'[n + 1 - k + i]
    <3>1. i + 1 \in 1 .. k + 1 /\ n - k + (i + 1) = n + 1 - k + i
      BY <1>2
    <3> QED BY <1>9, <2>4, <3>1
  <2>6. Len(log') - Len(seen') = n + 1 - k
    BY <1>6, <2>3
  <2>7. \A i \in 1 .. Len(seen') : seen'[i] = log'[Len(log') - Len(seen') + i]
    BY <2>3, <2>5, <2>6
  <2> QED BY <1>6, <1>8, <2>1, <2>3, <2>7 DEF Remembered
<1> QED BY <1>11, <1>12

\* An update that is not remembered is not among the last MaxSeen of the log.
LEMMA FreshIsOld ==
  ASSUME Remembered, NEW u \in Update, u \notin ToSet(seen),
         NEW i \in 1 .. Len(log), log[i] = u
  PROVE  Len(log) + 1 - i > MaxSeen
<1>1. /\ Len(log) \in Nat /\ Len(seen) \in Nat /\ MaxSeen \in Nat
      /\ Len(seen) = Kept(Len(log))
      /\ seen \in Seq(Update)
  BY UserStreamAssumption DEF Remembered
<1>2. SUFFICES ASSUME Len(log) + 1 - i <= MaxSeen PROVE FALSE
  BY <1>1
<1>3. PICK j \in 1 .. Len(seen) : Len(log) - Len(seen) + j = i
  <2>1. PICK n \in Nat, k \in Nat : n = Len(log) /\ k = Len(seen)
    BY <1>1
  <2>2. k = MaxSeen \/ k = n
    BY <1>1, <2>1 DEF Kept
  <2>3. i \in 1 .. n /\ n + 1 - i <= MaxSeen
    BY <1>2, <2>1
  <2>4. i - (n - k) \in 1 .. k /\ n - k + (i - (n - k)) = i
    BY <1>1, <2>2, <2>3
  <2> QED BY <2>1, <2>4
<1>4. seen[j] = u
  BY <1>3 DEF Remembered
<1>5. DOMAIN seen = 1 .. Len(seen)
  BY <1>1
<1> QED BY <1>3, <1>4, <1>5 DEF ToSet

\* Every step keeps what is remembered, and no update is handed over again too
\* early.
LEMMA ReportsStep ==
  ASSUME Remembered, NotRepeated, [Next]_vars
  PROVE  Remembered' /\ NotRepeated'
<1>1. CASE UNCHANGED reports
  BY <1>1 DEF reports, Remembered, NotRepeated
<1>2. ASSUME NEW u \in Update, u \notin ToSet(seen), Len(log) < MaxLog,
             seen' = _track_seen_order_update(u), log' = Append(log, u)
      PROVE  Remembered' /\ NotRepeated'
  <2>1. Remembered'
    BY <1>2, TrackSeen
  <2>2. PICK n \in Nat :
          /\ n = Len(log) /\ DOMAIN log = 1 .. n /\ DOMAIN log' = 1 .. n + 1
          /\ log'[n + 1] = u /\ \A i \in 1 .. n : log'[i] = log[i]
    BY <1>2 DEF Remembered
  <2>3. ASSUME NEW i \in 1 .. n + 1, NEW j \in 1 .. n + 1, i < j, log'[i] = log'[j]
        PROVE  j - i > MaxSeen
    <3>1. i \in 1 .. n
      BY <2>2, <2>3
    <3>2. CASE j = n + 1
      <4>1. log[i] = u
        BY <2>2, <2>3, <3>1, <3>2
      <4> QED BY <1>2, <2>2, <3>1, <3>2, <4>1, FreshIsOld
    <3>3. CASE j # n + 1
      <4>1. j \in 1 .. n
        BY <2>2, <3>3
      <4> QED BY <2>2, <2>3, <3>1, <4>1 DEF NotRepeated
    <3> QED BY <3>2, <3>3
  <2>4. NotRepeated'
    BY <2>2, <2>3 DEF NotRepeated
  <2> QED BY <2>1, <2>4
<1>3. ASSUME NEW u \in Update, OrderUpdate(u) PROVE Remembered' /\ NotRepeated'
  BY <1>1, <1>2, <1>3 DEF OrderUpdate
<1>4. CASE Start \/ CreateOk \/ CreateFails \/ Connect \/ StreamRaises \/ Closed \/ KeyExpired
  BY <1>1, <1>4 DEF Start, CreateOk, CreateFails, Connect, StreamRaises, Closed, KeyExpired
<1>5. CASE Cleaned \/ Deleting \/ Wake \/ KeepaliveEnds \/ KeyLapses \/ StopCleaned
  BY <1>1, <1>5 DEF Cleaned, Deleting, Deleted, StopDeleted, Wake, KeepaliveEnds, KeyLapses,
                    StopCleaned
<1>6. CASE StopCalled \/ Cancel \/ UNCHANGED vars
  BY <1>1, <1>6 DEF StopCalled, Cancel, vars
<1> QED BY <1>3, <1>4, <1>5, <1>6 DEF Next, StreamStep

-----------------------------------------------------------------------------
(* The theorems *)

\* The invariant holds at the start.
LEMMA InitIInv == Init => IInv
<1> SUFFICES ASSUME Init PROVE IInv
  OBVIOUS
<1>1. ControlOK /\ Clean
  BY DEF Init, ControlOK, Clean, Idle
<1>2. FailuresOK
  BY UserStreamAssumption DEF Init, FailuresOK
<1>3. Remembered /\ NotRepeated
  <2>1. seen = <<>> /\ log = <<>> /\ Len(seen) = 0 /\ Len(log) = 0 /\ DOMAIN log = {}
    BY DEF Init
  <2> QED BY <2>1, UserStreamAssumption DEF Remembered, Kept, NotRepeated
<1> QED BY <1>1, <1>2, <1>3 DEF IInv

\* Every step keeps it.
LEMMA NextIInv ==
  ASSUME IInv, [Next]_vars
  PROVE  IInv'
BY ControlStep, FailuresStep, ReportsStep DEF IInv

\* It gives the types.
LEMMA IInvTypes ==
  ASSUME IInv
  PROVE  TypeOK
<1>1. Remembered /\ ControlOK /\ FailuresOK
  BY DEF IInv
<1>2. /\ Len(seen) <= MaxSeen /\ ToSet(seen) \subseteq Update
      /\ Len(log) <= MaxLog /\ ToSet(log) \subseteq Update
  BY <1>1, UserStreamAssumption DEF Remembered, Kept, ToSet
<1>3. {cancelled, asked, restart, stop, key, ws, valid} \subseteq BOOLEAN
  BY <1>1 DEF ControlOK
<1> QED BY <1>1, <1>2, <1>3 DEF TypeOK, ControlOK, Idle, FailuresOK

\* The inductive invariant holds always: the updates remembered are the tail of
\* those handed over, and start is clean wherever it sleeps or ends.
THEOREM Invariance == Spec => []IInv
<1>1. IInv /\ [Next]_vars => IInv'
  BY NextIInv
<1> QED BY <1>1, InitIInv, PTL DEF Spec

\* When start has ended nothing of it is left, in whatever order a stop, a
\* cancellation and its own steps met.
THEOREM StreamLeavesNothing == Spec => []NothingLeft
<1>1. IInv => NothingLeft
  BY DEF IInv, Clean, Idle, NothingLeft
<1> QED BY <1>1, Invariance, PTL

\* An update is handed over again only after at least MaxSeen others, for any
\* number of reconnections and of updates remembered.
THEOREM UpdatesDoNotRepeat == Spec => []NotRepeated
<1>1. IInv => NotRepeated
  BY DEF IInv
<1> QED BY <1>1, Invariance, PTL

\* The types of the tasks, the flags, the queue and the log.
THEOREM TypeCorrect == Spec => []TypeOK
<1>1. IInv => TypeOK
  BY IInvTypes
<1> QED BY <1>1, Invariance, PTL
=============================================================================
