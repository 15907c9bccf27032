---------------------------- MODULE ParquetBuffer ----------------------------
(***************************************************************************)
(* ParquetEventBuffer of wickhunter/storage/parquet_writer.py: two buffers *)
(* in memory, a background task that writes them to files, and a stop that *)
(* cancels the task and waits for its last flush.  A file is named after   *)
(* the millisecond of its flush.                                           *)
(***************************************************************************)
EXTENDS Integers

CONSTANTS
  Row,            \* events, each recorded at most once
  MaxMs,          \* bound on the clock
  MaxStarts       \* bound on the calls of start

ASSUME BufferAssumption == MaxMs \in Nat /\ MaxStarts \in Nat

Kind == {"market", "execution"}

VARIABLES
  ms,             \* time.time() in milliseconds
  buffer,         \* market_buffer and execution_buffer, as sets
  files,          \* the rows of the file of a kind and a millisecond
  tasks,          \* where the task of each call of start is
  starts,         \* the calls of start; _flush_task is the last one's task
  stopper,        \* is stop waiting for the task?
  recorded,       \* history: the rows recorded, by kind
  due,            \* history: the rows recorded when a running task was stopped
  lost            \* history: rows a failed write, an overwritten file or a crash lost

memory == <<buffer, files, lost>>
control == <<tasks, starts, stopper, due>>
parquet == <<ms, memory, control, recorded>>

Names == Kind \X (0 .. MaxMs)

Rows(b) == UNION {b[k] : k \in Kind}

-----------------------------------------------------------------------------
\* What has to be written: every buffer with something in it, in a file of this
\* millisecond.
Batches == {k \in Kind : buffer[k] # {}}

\* flush: each buffer is swapped out and then written.  A write that fails is
\* only logged; one that is cut short leaves no readable file of that name.  A
\* write takes the place of a file of that name.
flush(failed, torn) ==
  /\ failed \subseteq Batches /\ torn \subseteq failed
  /\ buffer' = [k \in Kind |-> {}]
  /\ files' = [n \in Names |->
                 IF n[2] # ms \/ n[1] \notin (Batches \ failed) \cup torn THEN files[n]
                 ELSE IF n[1] \in torn THEN {} ELSE buffer[n[1]]]
  /\ lost' = lost \cup (UNION {buffer[k] : k \in failed})
                  \cup (UNION {files[<<k, ms>>] : k \in (Batches \ failed) \cup torn})

\* record_market_data, record_execution
Record(k, r) ==
  /\ r \notin Rows(recorded)
  /\ buffer' = [buffer EXCEPT ![k] = @ \cup {r}]
  /\ recorded' = [recorded EXCEPT ![k] = @ \cup {r}]
  /\ UNCHANGED <<ms, files, lost, control>>

\* start makes a task, whatever became of the one before.
Start ==
  /\ starts < MaxStarts
  /\ starts' = starts + 1
  /\ tasks' = [tasks EXCEPT ![starts + 1] = "new"]
  /\ UNCHANGED <<ms, memory, stopper, due, recorded>>

\* The first step of _bg_flush.
TaskBegins(i) ==
  /\ tasks[i] = "new" /\ tasks' = [tasks EXCEPT ![i] = "sleeping"]
  /\ UNCHANGED <<ms, memory, starts, stopper, due, recorded>>

\* The interval is over.
TaskFlushes(i, failed, torn) ==
  /\ tasks[i] = "sleeping"
  /\ flush(failed, torn)
  /\ UNCHANGED <<ms, control, recorded>>

\* Mutant of TaskEnds: the finally block does not flush.
TaskEndsUnflushed(i, failed, torn) ==
  /\ tasks[i] = "cancelled" /\ tasks' = [tasks EXCEPT ![i] = "done"]
  /\ failed = {} /\ torn = {}
  /\ UNCHANGED <<ms, memory, starts, stopper, due, recorded>>

\* The cancellation is caught in the sleep, and the finally block flushes.
TaskEnds(i, failed, torn) ==
  /\ tasks[i] = "cancelled" /\ tasks' = [tasks EXCEPT ![i] = "done"]
  /\ flush(failed, torn)
  /\ UNCHANGED <<ms, starts, stopper, due, recorded>>

\* stop cancels the task and awaits it.  A task that has not begun ends without
\* its try block; one that is done stays so.
Stop ==
  /\ stopper # "waiting" /\ starts > 0
  /\ stopper' = "waiting"
  /\ tasks' = [tasks EXCEPT ![starts] =
                 CASE @ = "new" -> "done" [] @ = "sleeping" -> "cancelled" [] OTHER -> @]
  /\ due' = IF tasks[starts] = "sleeping" THEN Rows(recorded) ELSE due
  /\ UNCHANGED <<ms, memory, starts, recorded>>

\* The awaited task is done.
StopReturns ==
  /\ stopper = "waiting" /\ \A i \in 1 .. starts : tasks[i] # "cancelled"
  /\ stopper' = "returned"
  /\ UNCHANGED <<ms, memory, tasks, starts, due, recorded>>

\* The process dies, and another opens the same directory.  (To die within a
\* flush is to die after a torn write.)
Crash ==
  /\ lost' = lost \cup Rows(buffer)
  /\ buffer' = [k \in Kind |-> {}]
  /\ tasks' = [i \in 1 .. MaxStarts |-> IF tasks[i] = "none" THEN "none" ELSE "done"]
  /\ stopper' = "none" /\ due' = {}
  /\ UNCHANGED <<ms, files, starts, recorded>>

Tick ==
  /\ ms < MaxMs /\ ms' = ms + 1
  /\ UNCHANGED <<memory, control, recorded>>

BufferInit ==
  /\ ms = 0
  /\ buffer = [k \in Kind |-> {}] /\ files = [n \in Names |-> {}]
  /\ tasks = [i \in 1 .. MaxStarts |-> "none"] /\ starts = 0 /\ stopper = "none"
  /\ recorded = [k \in Kind |-> {}] /\ due = {} /\ lost = {}

BufferNext ==
  \/ \E k \in Kind, r \in Row : Record(k, r)
  \/ Start \/ Stop \/ StopReturns \/ Crash \/ Tick
  \/ \E i \in 1 .. MaxStarts :
       \/ TaskBegins(i)
       \/ \E failed \in SUBSET Kind, torn \in SUBSET Kind : 
            TaskFlushes(i, failed, torn) \/ TaskEnds(i, failed, torn)

BufferSpec == BufferInit /\ [][BufferNext]_parquet

-----------------------------------------------------------------------------
(* Properties *)

InFiles(k) == UNION {files[<<k, t>>] : t \in 0 .. MaxMs}

\* A row that was recorded is in memory or in a file of its kind, unless a
\* write failed, another flush of the same millisecond took its file, or the
\* process died; and a stop of a running task that has returned has left
\* nothing in memory of what was recorded before it.
RowsAccounted ==
  /\ \A k \in Kind : recorded[k] \subseteq buffer[k] \cup InFiles(k) \cup lost
  /\ stopper = "returned" => Rows(buffer) \cap due = {}
=============================================================================
