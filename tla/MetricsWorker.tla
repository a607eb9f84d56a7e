---------------------------- MODULE MetricsWorker ----------------------------
(***************************************************************************)
(* A process of the metrics worker: the Celery task that appends the rows  *)
(* of a message to a BatchBuffer (worker/base.py), the buffer's background *)
(* thread, the lazily built ClickHouse client, and the shutdown hook       *)
(* (worker/events/worker.py; the request-event and alert workers have the  *)
(* same shape).  Celery runs one task at a time in a worker process, so    *)
(* there are two threads: `main`, which runs the tasks and the shutdown    *)
(* hook, and `bg`, the background flush.                                   *)
(*                                                                         *)
(* Both locks are plain threading.Locks: a thread that takes one it        *)
(* already holds waits for ever.  A lock is modelled by its owner.         *)
(***************************************************************************)
EXTENDS Naturals, Sequences, Functions, FiniteSets

CONSTANTS
    Messages,       \* emit_event messages the broker holds
    RowsOf,         \* the rows in each message's payload
    Invalid,        \* rows with a bad UUID or a missing column
    MaxBatch,       \* metrics_batch_size
    MaxRetries,     \* max_retries of the task
    MaxCrashes,     \* bound: how often the process is killed and started again
    None            \* no owner, no running message

ASSUME WorkerAssumption ==
    /\ MaxBatch \in Nat \ {0}
    /\ MaxRetries \in Nat
    /\ MaxCrashes \in Nat
    /\ DOMAIN RowsOf = Messages
    /\ \A m, n \in Messages : m # n => RowsOf[m] \cap RowsOf[n] = {}
    /\ None \notin Messages \cup {"main", "bg"}

VARIABLES
    queue,          \* messages waiting for a worker
    running,        \* the message being processed, or None
    todo,           \* its rows not appended yet
    retries,        \* how often each message was retried
    starts,         \* history: how often each message was taken from the queue
    finished,       \* messages acknowledged after their task returned
    rejected,       \* messages acknowledged after their task failed for good
    rows,           \* BatchBuffer._rows
    batch,          \* the rows a thread is flushing
    pc,             \* where each thread is
    bufLock,        \* owner of BatchBuffer._lock
    workLock,       \* owner of MetricsWorker._lock
    client,         \* the ClickHouse client exists
    stop,           \* BatchBuffer._stop_event
    table,          \* how often ClickHouse holds each row
    dropped,        \* history: rows in a batch whose synchronous flush failed
    failed,         \* history: rows in a batch whose background flush failed
    killed,         \* history: rows in the process when it was killed
    crashes

taskVars == <<queue, running, todo, retries, starts, finished, rejected>>
historyVars == <<dropped, failed, killed, crashes>>
vars == <<taskVars, rows, batch, pc, bufLock, workLock, client, stop, table,
          historyVars>>

Threads == {"main", "bg"}
AllRows == UNION {RowsOf[m] : m \in Messages}
MessageOf(r) == CHOOSE m \in Messages : r \in RowsOf[m]

\* Occurrences of row r in sequence s.
Count(s, r) == Cardinality({i \in DOMAIN s : s[i] = r})

\* A flush the task itself triggers reports its failure; every other flush is a
\* background one (_flush's `background` argument).
Background(th) == th = "bg" \/ stop

Init ==
    /\ queue = Messages
    /\ running = None
    /\ todo = {}
    /\ retries = [m \in Messages |-> 0]
    /\ starts = [m \in Messages |-> 0]
    /\ finished = {}
    /\ rejected = {}
    /\ rows = <<>>
    /\ batch = [th \in Threads |-> <<>>]
    /\ pc = [th \in Threads |-> IF th = "main" THEN "idle" ELSE "none"]
    /\ bufLock = None
    /\ workLock = None
    /\ client = FALSE
    /\ stop = FALSE
    /\ table = [r \in AllRows |-> 0]
    /\ dropped = {}
    /\ failed = {}
    /\ killed = {}
    /\ crashes = 0
-----------------------------------------------------------------------------
\* The task starts; get_buffer() builds the buffer, and with it the background
\* thread, the first time.
StartTask(m) ==
    /\ pc["main"] = "idle"
    /\ m \in queue
    /\ queue' = queue \ {m}
    /\ running' = m
    /\ todo' = RowsOf[m]
    /\ starts' = [starts EXCEPT ![m] = @ + 1]
    /\ pc' = [th \in Threads |-> IF th = "main" THEN "task"
                                ELSE IF pc[th] = "none" THEN "waiting" ELSE pc[th]]
    /\ UNCHANGED <<retries, finished, rejected, rows, batch, bufLock, workLock,
                   client, stop, table, historyVars>>

\* The next payload entry has no valid UUIDs: it is skipped.
SkipInvalid(r) ==
    /\ pc["main"] = "task"
    /\ r \in todo \cap Invalid
    /\ todo' = todo \ {r}
    /\ UNCHANGED <<queue, running, retries, starts, finished, rejected, rows, batch,
                   pc, bufLock, workLock, client, stop, table, historyVars>>

\* The next entry lacks a column read after the try block: the task raises, is
\* not retried and its message is acknowledged, with the rest of its rows.
TaskRaises(r) ==
    /\ pc["main"] = "task"
    /\ r \in todo \cap Invalid
    /\ todo' = {}
    /\ rejected' = rejected \cup {running}
    /\ running' = None
    /\ pc' = [pc EXCEPT !["main"] = "idle"]
    /\ UNCHANGED <<queue, retries, starts, finished, rows, batch, bufLock, workLock,
                   client, stop, table, historyVars>>

\* Bugs the properties must catch: the batch is taken before the row is in it;
\* the full batch is flushed and stays in the buffer.
AppendRowAfterTake(r) ==
    /\ pc["main"] = "task"
    /\ r \in todo \ Invalid
    /\ bufLock = None
    /\ todo' = todo \ {r}
    /\ IF Len(rows) + 1 >= MaxBatch
       THEN /\ rows' = <<>>
            /\ batch' = [batch EXCEPT !["main"] = rows]
            /\ bufLock' = "main"
            /\ pc' = [pc EXCEPT !["main"] = "callback"]
       ELSE /\ rows' = Append(rows, r)
            /\ UNCHANGED <<batch, bufLock, pc>>
    /\ UNCHANGED <<queue, running, retries, starts, finished, rejected, workLock,
                   client, stop, table, historyVars>>

AppendRowKeepsBatch(r) ==
    /\ pc["main"] = "task"
    /\ r \in todo \ Invalid
    /\ bufLock = None
    /\ todo' = todo \ {r}
    /\ rows' = Append(rows, r)
    /\ IF Len(rows) + 1 >= MaxBatch
       THEN /\ batch' = [batch EXCEPT !["main"] = Append(rows, r)]
            /\ bufLock' = "main"
            /\ pc' = [pc EXCEPT !["main"] = "callback"]
       ELSE UNCHANGED <<batch, bufLock, pc>>
    /\ UNCHANGED <<queue, running, retries, starts, finished, rejected, workLock,
                   client, stop, table, historyVars>>

\* append()'s lock block: nothing in it waits unless the batch is full, and then
\* the lock is held through the flush.
AppendRow(r) ==
    /\ pc["main"] = "task"
    /\ r \in todo \ Invalid
    /\ bufLock = None
    /\ todo' = todo \ {r}
    /\ IF Len(rows) + 1 >= MaxBatch
       THEN /\ rows' = <<>>
            /\ batch' = [batch EXCEPT !["main"] = Append(rows, r)]
            /\ bufLock' = "main"
            /\ pc' = [pc EXCEPT !["main"] = "callback"]
       ELSE /\ rows' = Append(rows, r)
            /\ UNCHANGED <<batch, bufLock, pc>>
    /\ UNCHANGED <<queue, running, retries, starts, finished, rejected, workLock,
                   client, stop, table, historyVars>>

\* The task returns and is acknowledged; its rows may still be in the buffer.
FinishTask ==
    /\ pc["main"] = "task"
    /\ todo = {}
    /\ finished' = finished \cup {running}
    /\ running' = None
    /\ pc' = [pc EXCEPT !["main"] = "idle"]
    /\ UNCHANGED <<queue, todo, retries, starts, rejected, rows, batch, bufLock,
                   workLock, client, stop, table, historyVars>>

\* A bug the properties must catch: the loop runs while the event is set.
BackgroundWakesInverted ==
    /\ pc["bg"] = "waiting"
    /\ pc' = [pc EXCEPT !["bg"] = IF stop THEN "flush" ELSE "stopped"]
    /\ UNCHANGED <<taskVars, rows, batch, bufLock, workLock, client, stop, table,
                   historyVars>>

\* The background thread's wait ends: with the stop event set it returns,
\* otherwise it flushes.
BackgroundWakes ==
    /\ pc["bg"] = "waiting"
    /\ pc' = [pc EXCEPT !["bg"] = IF stop THEN "stopped" ELSE "flush"]
    /\ UNCHANGED <<taskVars, rows, batch, bufLock, workLock, client, stop, table,
                   historyVars>>

\* Where a thread goes on after flush(): the loop, or close_buffer's last lines.
AfterFlush(th) == IF th = "bg" THEN "waiting" ELSE "drained"

\* A thread inside flush(), or in the requeue of a failed flush, gets the lock.
\* The requeue asks for the lock its own thread still holds.
TakeBufferLock(th) ==
    /\ pc[th] \in {"flush", "requeue"}
    /\ bufLock = None
    /\ IF pc[th] = "flush" /\ rows = <<>>
       THEN /\ pc' = [pc EXCEPT ![th] = AfterFlush(th)]
            /\ UNCHANGED <<rows, batch, bufLock>>
       ELSE /\ bufLock' = th
            /\ pc' = [pc EXCEPT ![th] = IF @ = "flush" THEN "callback" ELSE "unlock"]
            /\ rows' = IF pc[th] = "flush" THEN <<>> ELSE batch[th] \o rows
            /\ batch' = [batch EXCEPT ![th] = IF pc[th] = "flush" THEN rows ELSE <<>>]
    /\ UNCHANGED <<taskVars, workLock, client, stop, table, historyVars>>

\* insert_rows asks for the client: the lock is needed only to build it.
GetClient(th) ==
    /\ pc[th] = "callback"
    /\ client \/ workLock = None
    /\ client' = TRUE
    /\ pc' = [pc EXCEPT ![th] = "insert"]
    /\ UNCHANGED <<taskVars, rows, batch, bufLock, workLock, stop, table, historyVars>>

\* How often ClickHouse holds each row once th's batch is in.
TableWith(th) == [r \in AllRows |-> table[r] + Count(batch[th], r)]

InsertOk(th) ==
    /\ pc[th] = "insert"
    /\ table' = TableWith(th)
    /\ batch' = [batch EXCEPT ![th] = <<>>]
    /\ pc' = [pc EXCEPT ![th] = "unlock"]
    /\ UNCHANGED <<taskVars, rows, bufLock, workLock, client, stop, historyVars>>

\* The `with self._lock` block around a flush that went well ends.
ReleaseBufferLock(th) ==
    /\ pc[th] = "unlock"
    /\ bufLock' = None
    /\ pc' = [pc EXCEPT ![th] = IF Background(th) THEN AfterFlush(th) ELSE "task"]
    /\ UNCHANGED <<taskVars, rows, batch, workLock, client, stop, table, historyVars>>

\* The callback raises: no connection, or an insert that failed or whose outcome
\* is unknown because its reply was lost.
CallbackRaises(th) ==
    \/ /\ pc[th] = "callback"
       /\ ~client
       /\ workLock = None
       /\ UNCHANGED table
    \/ /\ pc[th] = "insert"
       /\ table' \in {table, TableWith(th)}

\* A background flush fails: _flush goes on to put the rows back.
BackgroundFlushFails(th) ==
    /\ Background(th)
    /\ CallbackRaises(th)
    /\ pc' = [pc EXCEPT ![th] = "requeue"]
    /\ failed' = failed \cup Range(batch[th])
    /\ UNCHANGED <<taskVars, rows, batch, bufLock, workLock, client, stop, dropped,
                   killed, crashes>>

\* A bug the properties must catch: the error leaves append() with the lock held.
SyncFlushKeepsLock(th) ==
    /\ ~Background(th)
    /\ CallbackRaises(th)
    /\ queue' = queue \cup {running}
    /\ batch' = [batch EXCEPT ![th] = <<>>]
    /\ dropped' = dropped \cup Range(batch[th])
    /\ running' = None
    /\ todo' = {}
    /\ pc' = [pc EXCEPT ![th] = "idle"]
    /\ UNCHANGED <<retries, rejected, starts, finished, rows, bufLock, workLock,
                   client, stop, failed, killed, crashes>>

\* A flush in append() fails: BatchFlushError leaves the lock block and the task.
\* Celery runs the whole message again, up to MaxRetries times.  The rows of the
\* batch are in no buffer any more.
SyncFlushFails(th) ==
    /\ ~Background(th)
    /\ CallbackRaises(th)
    /\ bufLock' = None
    /\ batch' = [batch EXCEPT ![th] = <<>>]
    /\ dropped' = dropped \cup Range(batch[th])
    /\ IF retries[running] < MaxRetries
       THEN /\ queue' = queue \cup {running}
            /\ retries' = [retries EXCEPT ![running] = @ + 1]
            /\ UNCHANGED rejected
       ELSE /\ rejected' = rejected \cup {running}
            /\ UNCHANGED <<queue, retries>>
    /\ running' = None
    /\ todo' = {}
    /\ pc' = [pc EXCEPT ![th] = "idle"]
    /\ UNCHANGED <<starts, finished, rows, workLock, client, stop, failed, killed,
                   crashes>>

\* worker_process_shutdown: close_buffer() takes the worker's lock and keeps it
\* while stop() joins the background thread and drains the buffer.
CloseBuffer ==
    /\ pc["main"] = "idle"
    /\ workLock = None
    /\ IF pc["bg"] = "none"
       THEN /\ pc' = [pc EXCEPT !["main"] = "closed"]
            /\ UNCHANGED <<workLock, stop>>
       ELSE /\ pc' = [pc EXCEPT !["main"] = "joining"]
            /\ workLock' = "main"
            /\ stop' = TRUE
    /\ UNCHANGED <<taskVars, rows, batch, bufLock, client, table, historyVars>>

\* join(timeout) returns, with the thread stopped or not, and flush(force=True)
\* begins.
Join ==
    /\ pc["main"] = "joining"
    /\ pc' = [pc EXCEPT !["main"] = "flush"]
    /\ UNCHANGED <<taskVars, rows, batch, bufLock, workLock, client, stop, table,
                   historyVars>>

\* close_buffer() returns and releases the worker's lock.
BufferClosed ==
    /\ pc["main"] = "drained"
    /\ workLock' = None
    /\ pc' = [pc EXCEPT !["main"] = "closed"]
    /\ UNCHANGED <<taskVars, rows, batch, bufLock, client, stop, table, historyVars>>

\* close_client(), after which the process has cleaned up.
CloseClient ==
    /\ pc["main"] = "closed"
    /\ workLock = None
    /\ client' = FALSE
    /\ pc' = [pc EXCEPT !["main"] = "exited"]
    /\ UNCHANGED <<taskVars, rows, batch, bufLock, workLock, stop, table, historyVars>>

\* The process is killed and a new one starts.  A message that was not yet
\* acknowledged is delivered again (acks_late).
Crash ==
    /\ crashes < MaxCrashes
    /\ crashes' = crashes + 1
    /\ killed' = killed \cup Range(rows) \cup Range(batch["main"]) \cup Range(batch["bg"])
    /\ queue' = IF running = None THEN queue ELSE queue \cup {running}
    /\ running' = None
    /\ todo' = {}
    /\ rows' = <<>>
    /\ batch' = [th \in Threads |-> <<>>]
    /\ pc' = [th \in Threads |-> IF th = "main" THEN "idle" ELSE "none"]
    /\ bufLock' = None
    /\ workLock' = None
    /\ client' = FALSE
    /\ stop' = FALSE
    /\ UNCHANGED <<retries, starts, finished, rejected, table, dropped, failed>>

Task ==
    \/ \E r \in AllRows : SkipInvalid(r) \/ TaskRaises(r) \/ AppendRow(r)
    \/ FinishTask
Flush(th) ==
    \/ TakeBufferLock(th)
    \/ GetClient(th)
    \/ InsertOk(th)
    \/ ReleaseBufferLock(th)
    \/ BackgroundFlushFails(th)
    \/ SyncFlushFails(th)
Shutdown == Join \/ BufferClosed \/ CloseClient

Next ==
    \/ \E m \in Messages : StartTask(m)
    \/ Task
    \/ BackgroundWakes
    \/ \E th \in Threads : Flush(th)
    \/ CloseBuffer
    \/ Shutdown
    \/ Crash

Spec == Init /\ [][Next]_vars

\* Threads are scheduled, waits with a timeout end, ClickHouse answers or fails.
\* A free lock is not kept from a waiting thread for ever (strong fairness where
\* the two threads compete for it).  Nothing forces a shutdown or a crash.
Fairness ==
    /\ \A m \in Messages : WF_vars(StartTask(m))
    /\ SF_vars(Task)
    /\ WF_vars(BackgroundWakes)
    /\ \A th \in Threads : SF_vars(Flush(th))
    /\ WF_vars(Shutdown)

FairSpec == Spec /\ Fairness
-----------------------------------------------------------------------------
MainPoints == {"idle", "task", "callback", "insert", "unlock", "requeue", "joining",
               "flush", "drained", "closed", "exited"}
BackgroundPoints == {"none", "waiting", "flush", "callback", "insert", "unlock",
                     "requeue", "stopped"}

\* Types, and who may hold which lock where.
TypeOK ==
    /\ queue \subseteq Messages
    /\ running \in Messages \cup {None}
    /\ running # None <=> pc["main"] = "task" \/ (bufLock = "main" /\ ~stop)
    /\ todo \subseteq AllRows
    /\ retries \in [Messages -> 0..MaxRetries]
    /\ starts \in [Messages -> Nat]
    /\ finished \subseteq Messages
    /\ rejected \subseteq Messages
    /\ rows \in Seq(AllRows)
    /\ Len(rows) < MaxBatch
    /\ batch \in [Threads -> Seq(AllRows)]
    /\ pc \in [Threads -> MainPoints \cup BackgroundPoints]
    /\ pc["main"] \in MainPoints
    /\ pc["bg"] \in BackgroundPoints
    /\ bufLock \in Threads \cup {None}
    /\ \A th \in Threads :
          bufLock = th <=> pc[th] \in {"callback", "insert", "unlock", "requeue"}
    /\ workLock = "main" <=> stop /\ pc["main"] \notin {"closed", "exited"}
    /\ workLock \in {None, "main"}
    /\ client \in BOOLEAN
    /\ stop \in BOOLEAN
    /\ table \in [AllRows -> Nat]
    /\ dropped \cup failed \cup killed \subseteq AllRows
    /\ crashes \in 0..MaxCrashes

Buffered == Range(rows) \cup Range(batch["main"]) \cup Range(batch["bg"])
InClickHouse == {r \in AllRows : table[r] > 0}

\* A row of an acknowledged message is in ClickHouse or in the process, or its
\* loss has one of two causes: a synchronous flush of its batch failed (the retry
\* covers only the message that triggered it), or the process was killed.
AckedRowsAccounted ==
    \A m \in finished : \A r \in RowsOf[m] \ Invalid :
        r \in Buffered \cup InClickHouse \cup dropped \cup killed

\* The batch of a flush that has not failed.
Live(th) == IF pc[th] = "requeue" THEN <<>> ELSE batch[th]

\* ClickHouse and the live flushes never hold more copies of a row than its
\* message was started: a retry or a redelivery duplicates rows, the buffer and
\* its two threads do not.
CopiesBounded ==
    \A r \in AllRows :
        table[r] + Count(rows, r) + Count(Live("main"), r) + Count(Live("bg"), r)
            <= starts[MessageOf(r)]

\* The thread that thread th waits for, or None.
WaitsFor(th) ==
    IF pc[th] \in {"flush", "requeue"} \/ (pc[th] = "task" /\ todo \ Invalid # {})
    THEN bufLock
    ELSE IF pc[th] = "callback" /\ ~client THEN workLock
    ELSE None

\* The threads wait for each other or for themselves only in two situations:
\* after a background flush failed, and in a shutdown that began before the
\* first ClickHouse client was built.
DeadlockCauses ==
    (\E th \in Threads : WaitsFor(th) # None /\ WaitsFor(WaitsFor(th)) # None) =>
        failed # {} \/ (stop /\ ~client)

\* A buffered row reaches ClickHouse while the process serves, unless a flush
\* fails.
RowsReachClickHouse ==
    \A r \in AllRows :
        r \in Range(rows) ~>
            r \in InClickHouse \/ failed \cup dropped # {} \/ r \in killed \/ stop

=============================================================================
