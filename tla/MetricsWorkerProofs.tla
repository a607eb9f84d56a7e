-------------------------- MODULE MetricsWorkerProofs --------------------------
(* Safety of MetricsWorker for any set of messages and rows, any batch size  *)
(* and any number of retries and crashes.  The inductive invariant is IInv:  *)
(* TypeOK, and the part each further property needs.                         *)
EXTENDS MetricsWorker, FiniteSetTheorems, TLAPS

\* Shutdown runs once the stop event is set; the rows left to append are those of
\* the message in progress; a thread carries a batch exactly inside a flush, and
\* one that puts its batch back has recorded the failure.
PhaseInv ==
    /\ pc["main"] \in {"idle", "task"} => ~stop
    /\ pc["main"] \in {"joining", "flush", "drained"} => stop
    /\ running = None => todo = {}
    /\ running # None => todo \subseteq RowsOf[running]
    /\ \A th \in Threads :
          batch[th] # <<>> <=> pc[th] \in {"callback", "insert", "requeue"}
    /\ \A th \in Threads : pc[th] = "requeue" => failed # {}

\* What may have become of a row that was taken from its message.
Accounted == Buffered \cup InClickHouse \cup dropped \cup killed

\* The message in progress owes only the rows it has not appended yet.
AckedInv ==
    /\ AckedRowsAccounted
    /\ running # None => (RowsOf[running] \ Invalid) \ todo \subseteq Accounted

Copies(r) == table[r] + Count(rows, r) + Count(Live("main"), r) + Count(Live("bg"), r)

Owed(r) == IF r \in todo THEN 1 ELSE 0

\* A row still to be appended has a start of its message to itself.
CopiesInv == \A r \in AllRows : Copies(r) + Owed(r) <= starts[MessageOf(r)]

IInv == TypeOK /\ PhaseInv /\ AckedInv /\ CopiesInv

-----------------------------------------------------------------------------
\* The two threads, and the one message each row belongs to.
LEMMA ThreadKinds ==
  /\ "main" \in Threads /\ "bg" \in Threads /\ "main" # "bg"
  /\ None \notin Messages /\ None # "main" /\ None # "bg"
  BY WorkerAssumption DEF Threads

LEMMA MessageOfRow ==
  ASSUME NEW m \in Messages, NEW r \in RowsOf[m]
  PROVE  r \in AllRows /\ MessageOf(r) = m
<1>1. r \in AllRows
  BY DEF AllRows
<1>2. MessageOf(r) \in Messages /\ r \in RowsOf[MessageOf(r)]
  BY DEF MessageOf
<1>3. MessageOf(r) = m
  BY <1>2, WorkerAssumption
<1>4. QED
  BY <1>1, <1>3

LEMMA MessageOfAny ==
  ASSUME NEW r \in AllRows
  PROVE  MessageOf(r) \in Messages /\ r \in RowsOf[MessageOf(r)]
  BY DEF AllRows, MessageOf

\* Counting the occurrences of a row.
LEMMA CountType ==
  ASSUME NEW S, NEW s \in Seq(S), NEW r
  PROVE  /\ IsFiniteSet({i \in DOMAIN s : s[i] = r})
         /\ Count(s, r) \in Nat
<1>1. DOMAIN s = 1..Len(s) /\ Len(s) \in Nat
  OBVIOUS
<1>2. IsFiniteSet(1..Len(s))
  BY <1>1, FS_Interval
<1>3. IsFiniteSet({i \in DOMAIN s : s[i] = r})
  BY <1>1, <1>2, FS_Subset
<1>4. QED
  BY <1>3, FS_CardinalityType DEF Count

LEMMA CountEmpty == ASSUME NEW r PROVE Count(<<>>, r) = 0
<1>1. {i \in DOMAIN <<>> : <<>>[i] = r} = {}
  OBVIOUS
<1>2. QED
  BY <1>1, FS_EmptySet DEF Count

LEMMA CountAppend ==
  ASSUME NEW S, NEW s \in Seq(S), NEW x \in S, NEW r
  PROVE  Count(Append(s, x), r) = Count(s, r) + (IF r = x THEN 1 ELSE 0)
<1> DEFINE T == {i \in DOMAIN s : s[i] = r}
           U == {i \in DOMAIN Append(s, x) : Append(s, x)[i] = r}
<1>1. Len(s) \in Nat /\ DOMAIN s = 1..Len(s) /\ DOMAIN Append(s, x) = 1..(Len(s) + 1)
  OBVIOUS
<1>2. Append(s, x)[Len(s) + 1] = x /\ \A i \in 1..Len(s) : Append(s, x)[i] = s[i]
  OBVIOUS
<1>3. IsFiniteSet(T) /\ Len(s) + 1 \notin T
  <2>1. Len(s) + 1 \notin T
    BY <1>1
  <2>2. IsFiniteSet(T)
    BY CountType
  <2>3. QED
    BY <2>1, <2>2
<1>4. CASE r = x
  <2>1. U = T \cup {Len(s) + 1}
    BY <1>1, <1>2, <1>4
  <2>2. Cardinality(U) = Cardinality(T) + 1
    BY <1>3, <2>1, FS_AddElement
  <2>3. QED
    BY <1>4, <2>2 DEF Count
<1>5. CASE r # x
  <2>1. U = T
    BY <1>1, <1>2, <1>5
  <2>2. Cardinality(T) \in Nat
    BY <1>3, FS_CardinalityType
  <2>3. Count(Append(s, x), r) = Count(s, r) /\ Count(s, r) \in Nat
    BY <2>1, <2>2 DEF Count
  <2>4. QED
    BY <1>5, <2>3
<1>6. QED
  BY <1>4, <1>5

LEMMA AppendNotEmpty ==
  ASSUME NEW S, NEW s \in Seq(S), NEW x \in S
  PROVE  Append(s, x) # <<>>
<1>1. DOMAIN Append(s, x) = 1..(Len(s) + 1) /\ Len(s) \in Nat
  OBVIOUS
<1>2. 1 \in DOMAIN Append(s, x) /\ 1 \notin DOMAIN <<>>
  BY <1>1
<1>3. QED
  BY <1>2

LEMMA CountInRange ==
  ASSUME NEW S, NEW s \in Seq(S), NEW r \in Range(s)
  PROVE  Count(s, r) > 0
<1> DEFINE T == {i \in DOMAIN s : s[i] = r}
<1>1. T # {}
  BY DEF Range
<1>2. IsFiniteSet(T) /\ Cardinality(T) \in Nat
  BY CountType, FS_CardinalityType
<1>3. Cardinality(T) # 0
  BY <1>1, <1>2, FS_EmptySet
<1>4. QED
  BY <1>2, <1>3 DEF Count

LEMMA RangeAppend ==
  ASSUME NEW S, NEW s \in Seq(S), NEW x \in S
  PROVE  Range(Append(s, x)) = Range(s) \cup {x}
<1>1. Len(s) \in Nat /\ DOMAIN s = 1..Len(s) /\ DOMAIN Append(s, x) = 1..(Len(s) + 1)
  OBVIOUS
<1>2. Append(s, x)[Len(s) + 1] = x /\ \A i \in 1..Len(s) : Append(s, x)[i] = s[i]
  OBVIOUS
<1>3. \A y \in Range(Append(s, x)) : y \in Range(s) \cup {x}
  BY <1>1, <1>2 DEF Range
<1>4. \A y \in Range(s) \cup {x} : y \in Range(Append(s, x))
  BY <1>1, <1>2 DEF Range
<1>5. QED
  BY <1>3, <1>4

LEMMA RangeType ==
  ASSUME NEW S, NEW s \in Seq(S)
  PROVE  Range(s) \subseteq S /\ (s # <<>> => Range(s) # {}) /\ Range(<<>>) = {}
<1>1. Range(s) \subseteq S
  BY DEF Range
<1>2. ASSUME s # <<>> PROVE s[1] \in Range(s)
  <2>1. Len(s) \in Nat /\ DOMAIN s = 1..Len(s) /\ Len(s) # 0
    BY <1>2
  <2>2. QED
    BY <2>1 DEF Range
<1>3. Range(<<>>) = {}
  BY DEF Range
<1>4. QED
  BY <1>1, <1>2, <1>3

-----------------------------------------------------------------------------
LEMMA InitTypes == Init => TypeOK /\ PhaseInv
<1> SUFFICES ASSUME Init PROVE TypeOK /\ PhaseInv
  OBVIOUS
<1> USE ThreadKinds, WorkerAssumption DEF Init
<1>1. TypeOK
  <2>1. rows \in Seq(AllRows) /\ Len(rows) < MaxBatch /\ batch \in [Threads -> Seq(AllRows)]
    OBVIOUS
  <2>2. /\ pc \in [Threads -> MainPoints \cup BackgroundPoints]
        /\ pc["main"] = "idle" /\ pc["bg"] = "none"
    BY DEF Threads, MainPoints, BackgroundPoints
  <2>3. retries \in [Messages -> 0..MaxRetries] /\ starts \in [Messages -> Nat]
        /\ table \in [AllRows -> Nat] /\ crashes \in 0..MaxCrashes
    OBVIOUS
  <2>4. QED
    BY <2>1, <2>2, <2>3 DEF TypeOK, Threads, MainPoints, BackgroundPoints
<1>2. PhaseInv
  BY DEF PhaseInv, Threads
<1>3. QED
  BY <1>1, <1>2

\* A batch in a flush is a nonempty sequence of rows.
LEMMA BatchRows ==
  ASSUME TypeOK, NEW th \in Threads
  PROVE  /\ Range(batch[th]) \subseteq AllRows
         /\ batch[th] # <<>> => Range(batch[th]) # {}
  BY RangeType DEF TypeOK

LEMMA TableType ==
  ASSUME TypeOK, NEW th \in Threads
  PROVE  TableWith(th) \in [AllRows -> Nat]
<1>1. \A r \in AllRows : Count(batch[th], r) \in Nat
  BY CountType DEF TypeOK
<1>2. QED
  BY <1>1 DEF TypeOK, TableWith

\* A thread that asks for the buffer's lock again still holds it.
LEMMA RequeueWaits ==
  ASSUME TypeOK, NEW th \in Threads, TakeBufferLock(th)
  PROVE  pc[th] = "flush" /\ bufLock = None
  BY ThreadKinds DEF TypeOK, TakeBufferLock, Threads

LEMMA NextTypeOK == TypeOK /\ PhaseInv /\ [Next]_vars => TypeOK'
<1> SUFFICES ASSUME TypeOK, PhaseInv, [Next]_vars PROVE TypeOK'
  OBVIOUS
<1> USE ThreadKinds, WorkerAssumption DEF TypeOK, taskVars, historyVars
<1>1. ASSUME NEW m \in Messages, StartTask(m) PROVE TypeOK'
  <2>1. /\ pc' \in [Threads -> MainPoints \cup BackgroundPoints]
        /\ pc'["main"] = "task"
        /\ pc'["bg"] \in BackgroundPoints
        /\ pc'["bg"] = IF pc["bg"] = "none" THEN "waiting" ELSE pc["bg"]
    BY <1>1 DEF StartTask, Threads, MainPoints, BackgroundPoints
  <2>2. todo' \subseteq AllRows /\ starts' \in [Messages -> Nat]
    BY <1>1 DEF StartTask, AllRows
  <2>3. /\ queue' \subseteq Messages /\ running' = m /\ pc["main"] = "idle"
        /\ UNCHANGED <<retries, finished, rejected, rows, batch, bufLock, workLock,
                       client, stop, table, historyVars>>
    BY <1>1 DEF StartTask
  <2>4. QED
    BY <2>1, <2>2, <2>3 DEF Threads, MainPoints, BackgroundPoints
<1>2. ASSUME NEW r \in AllRows, SkipInvalid(r) PROVE TypeOK'
  BY <1>2 DEF SkipInvalid, Threads
<1>3. ASSUME NEW r \in AllRows, TaskRaises(r) PROVE TypeOK'
  BY <1>3 DEF TaskRaises, Threads, MainPoints, BackgroundPoints
<1>4. ASSUME NEW r \in AllRows, AppendRow(r) PROVE TypeOK'
  <2>1. Append(rows, r) \in Seq(AllRows) /\ Len(Append(rows, r)) = Len(rows) + 1
    OBVIOUS
  <2>2. Len(rows) \in Nat /\ <<>> \in Seq(AllRows) /\ Len(<<>>) = 0
    OBVIOUS
  <2>3. /\ rows' \in Seq(AllRows)
        /\ Len(rows') < MaxBatch
        /\ batch' \in [Threads -> Seq(AllRows)]
    <3>1. CASE Len(rows) + 1 >= MaxBatch
      <4>1. rows' = <<>> /\ batch' = [batch EXCEPT !["main"] = Append(rows, r)]
        BY <1>4, <3>1 DEF AppendRow
      <4>2. batch' \in [Threads -> Seq(AllRows)]
        BY <2>1, <4>1
      <4>3. QED
        BY <2>2, <4>1, <4>2
    <3>2. CASE ~(Len(rows) + 1 >= MaxBatch)
      <4>1. rows' = Append(rows, r) /\ batch' = batch
        BY <1>4, <3>2 DEF AppendRow
      <4>2. Len(rows) + 1 < MaxBatch
        BY <2>2, <3>2
      <4>3. QED
        BY <2>1, <4>1, <4>2
    <3>3. QED
      BY <3>1, <3>2
  <2>4. \/ bufLock' = bufLock /\ pc' = pc
        \/ bufLock' = "main" /\ pc' = [pc EXCEPT !["main"] = "callback"]
    BY <1>4 DEF AppendRow
  <2>5. /\ bufLock = None /\ pc["main"] = "task" /\ todo' \subseteq AllRows
        /\ UNCHANGED <<queue, running, retries, starts, finished, rejected, workLock,
                       client, stop, table, dropped, failed, killed, crashes>>
    BY <1>4 DEF AppendRow
  <2>6. ~stop
    BY <2>5 DEF PhaseInv
  <2>7. QED
    BY <2>3, <2>4, <2>5, <2>6 DEF Threads, MainPoints, BackgroundPoints
<1>5. CASE FinishTask
  BY <1>5 DEF FinishTask, Threads, MainPoints, BackgroundPoints
<1>6. CASE BackgroundWakes
  BY <1>6 DEF BackgroundWakes, Threads, MainPoints, BackgroundPoints
<1>7. ASSUME NEW th \in Threads, TakeBufferLock(th) PROVE TypeOK'
  <2>1. pc[th] = "flush" /\ bufLock = None
    BY <1>7, RequeueWaits
  <2>2. th = "main" => stop
    BY <2>1 DEF PhaseInv
  <2>3. <<>> \in Seq(AllRows) /\ Len(<<>>) = 0
    OBVIOUS
  <2>4. CASE rows = <<>>
    BY <1>7, <2>1, <2>2, <2>4
    DEF TakeBufferLock, AfterFlush, Threads, MainPoints, BackgroundPoints
  <2>5. CASE rows # <<>>
    BY <1>7, <2>1, <2>2, <2>3, <2>5
    DEF TakeBufferLock, Threads, MainPoints, BackgroundPoints
  <2>6. QED
    BY <2>4, <2>5
<1>8. ASSUME NEW th \in Threads, GetClient(th) PROVE TypeOK'
  BY <1>8 DEF GetClient, Threads, MainPoints, BackgroundPoints
<1>9. ASSUME NEW th \in Threads, InsertOk(th) PROVE TypeOK'
  <2>1. TableWith(th) \in [AllRows -> Nat] /\ <<>> \in Seq(AllRows)
    BY TableType
  <2>2. QED
    BY <1>9, <2>1 DEF InsertOk, Threads, MainPoints, BackgroundPoints
<1>10. ASSUME NEW th \in Threads, ReleaseBufferLock(th) PROVE TypeOK'
  BY <1>10
  DEF ReleaseBufferLock, Background, AfterFlush, Threads, MainPoints, BackgroundPoints
<1>11. ASSUME NEW th \in Threads, BackgroundFlushFails(th) PROVE TypeOK'
  <2>1. table' \in [AllRows -> Nat] /\ Range(batch[th]) \subseteq AllRows
    BY <1>11, TableType, BatchRows DEF BackgroundFlushFails, CallbackRaises
  <2>2. pc[th] \in {"callback", "insert"}
    BY <1>11 DEF BackgroundFlushFails, CallbackRaises
  <2>3. QED
    BY <1>11, <2>1, <2>2
    DEF BackgroundFlushFails, Background, Threads, MainPoints, BackgroundPoints
<1>12. ASSUME NEW th \in Threads, SyncFlushFails(th) PROVE TypeOK'
  <2>1. table' \in [AllRows -> Nat] /\ Range(batch[th]) \subseteq AllRows
    BY <1>12, TableType, BatchRows DEF SyncFlushFails, CallbackRaises
  <2>2. pc[th] \in {"callback", "insert"} /\ th = "main" /\ ~stop /\ running # None
    BY <1>12 DEF SyncFlushFails, CallbackRaises, Background, Threads
  <2>3. retries' \in [Messages -> 0..MaxRetries] /\ queue' \subseteq Messages
        /\ rejected' \subseteq Messages
    <3>1. running \in Messages /\ retries[running] \in 0..MaxRetries
      BY <2>2
    <3>2. CASE retries[running] < MaxRetries
      <4>1. retries[running] + 1 \in 0..MaxRetries
        BY <3>1, <3>2
      <4>2. /\ queue' = queue \cup {running} /\ rejected' = rejected
            /\ retries' = [retries EXCEPT ![running] = retries[running] + 1]
        BY <1>12, <3>2 DEF SyncFlushFails
      <4>3. retries' \in [Messages -> 0..MaxRetries]
        BY <4>1, <4>2
      <4>4. QED
        BY <3>1, <4>2, <4>3
    <3>3. CASE ~(retries[running] < MaxRetries)
      BY <1>12, <3>1, <3>3 DEF SyncFlushFails
    <3>4. QED
      BY <3>2, <3>3
  <2>4. QED
    BY <1>12, <2>1, <2>2, <2>3
    DEF SyncFlushFails, Threads, MainPoints, BackgroundPoints
<1>13. CASE CloseBuffer
  <2>1. /\ pc["main"] = "idle" /\ ~stop /\ workLock = None
        /\ UNCHANGED <<taskVars, rows, batch, bufLock, client, table, historyVars>>
    BY <1>13 DEF CloseBuffer, PhaseInv
  <2>2. CASE pc["bg"] = "none"
    <3>1. pc' = [pc EXCEPT !["main"] = "closed"] /\ UNCHANGED <<workLock, stop>>
      BY <1>13, <2>2 DEF CloseBuffer
    <3> QED
      BY <2>1, <3>1 DEF Threads, MainPoints, BackgroundPoints
  <2>3. CASE pc["bg"] # "none"
    <3>1. pc' = [pc EXCEPT !["main"] = "joining"] /\ workLock' = "main" /\ stop' = TRUE
      BY <1>13, <2>3 DEF CloseBuffer
    <3> QED
      BY <2>1, <3>1 DEF Threads, MainPoints, BackgroundPoints
  <2>4. QED
    BY <2>2, <2>3
<1>14. CASE Join
  BY <1>14 DEF Join, Threads, MainPoints, BackgroundPoints
<1>15. CASE BufferClosed
  BY <1>15 DEF BufferClosed, Threads, MainPoints, BackgroundPoints
<1>16. CASE CloseClient
  BY <1>16 DEF CloseClient, Threads, MainPoints, BackgroundPoints
<1>17. CASE Crash
  <2>1. Range(rows) \subseteq AllRows
    BY RangeType
  <2>2. Range(batch["main"]) \subseteq AllRows /\ Range(batch["bg"]) \subseteq AllRows
    BY BatchRows
  <2>3. <<>> \in Seq(AllRows) /\ Len(<<>>) = 0
    OBVIOUS
  <2>4. QED
    <3>1. batch' \in [Threads -> Seq(AllRows)]
      BY <1>17, <2>3 DEF Crash
    <3>2. crashes' \in 0..MaxCrashes
      BY <1>17 DEF Crash
    <3>3. pc' \in [Threads -> MainPoints \cup BackgroundPoints]
          /\ pc'["main"] = "idle" /\ pc'["bg"] = "none"
      BY <1>17 DEF Crash, Threads, MainPoints, BackgroundPoints
    <3>4. killed' \subseteq AllRows /\ queue' \subseteq Messages
      BY <1>17, <2>1, <2>2 DEF Crash
    <3>5. /\ running' = None /\ todo' = {} /\ rows' = <<>> /\ bufLock' = None
          /\ workLock' = None /\ client' = FALSE /\ stop' = FALSE
          /\ UNCHANGED <<retries, starts, finished, rejected, table, dropped, failed>>
      BY <1>17 DEF Crash
    <3>6. rows' \in Seq(AllRows) /\ Len(rows') < MaxBatch
      BY <2>3, <3>5
    <3>7. QED
      BY <3>1, <3>2, <3>3, <3>4, <3>5, <3>6 DEF Threads, MainPoints, BackgroundPoints
<1>18. CASE UNCHANGED vars
  BY <1>18 DEF vars
<1>19. QED
  BY <1>1, <1>2, <1>3, <1>4, <1>5, <1>6, <1>7, <1>8, <1>9, <1>10, <1>11, <1>12, <1>13,
     <1>14, <1>15, <1>16, <1>17, <1>18
  DEF Next, Task, Flush, Shutdown

LEMMA NextPhaseInv == TypeOK /\ PhaseInv /\ [Next]_vars => PhaseInv'
<1> SUFFICES ASSUME TypeOK, PhaseInv, [Next]_vars PROVE PhaseInv'
  OBVIOUS
<1> USE ThreadKinds, WorkerAssumption DEF PhaseInv, taskVars, historyVars
<1>t. /\ pc \in [Threads -> MainPoints \cup BackgroundPoints]
      /\ pc["main"] \in MainPoints /\ pc["bg"] \in BackgroundPoints
      /\ batch \in [Threads -> Seq(AllRows)]
      /\ rows \in Seq(AllRows)
      /\ running \in Messages \cup {None}
      /\ stop \in BOOLEAN /\ bufLock \in Threads \cup {None}
  BY DEF TypeOK
<1> USE <1>t
<1>1. ASSUME NEW m \in Messages, StartTask(m) PROVE PhaseInv'
  BY <1>1 DEF StartTask, Threads
<1>2. ASSUME NEW r \in AllRows, SkipInvalid(r) PROVE PhaseInv'
  BY <1>2 DEF SkipInvalid, Threads
<1>3. ASSUME NEW r \in AllRows, TaskRaises(r) PROVE PhaseInv'
  BY <1>3 DEF TaskRaises, Threads
<1>4. ASSUME NEW r \in AllRows, AppendRow(r) PROVE PhaseInv'
  <2>1. Append(rows, r) # <<>>
    BY AppendNotEmpty
  <2>2. QED
    BY <1>4, <2>1 DEF AppendRow, Threads
<1>5. CASE FinishTask
  BY <1>5 DEF FinishTask, Threads
<1>6. CASE BackgroundWakes
  BY <1>6 DEF BackgroundWakes, Threads
<1>7. ASSUME NEW th \in Threads, TakeBufferLock(th) PROVE PhaseInv'
  <2>1. pc[th] = "flush"
    BY <1>7, RequeueWaits
  <2>2. QED
    BY <1>7, <2>1 DEF TakeBufferLock, AfterFlush, Threads
<1>8. ASSUME NEW th \in Threads, GetClient(th) PROVE PhaseInv'
  BY <1>8 DEF GetClient, Threads
<1>9. ASSUME NEW th \in Threads, InsertOk(th) PROVE PhaseInv'
  BY <1>9 DEF InsertOk, Threads
<1>10. ASSUME NEW th \in Threads, ReleaseBufferLock(th) PROVE PhaseInv'
  BY <1>10 DEF ReleaseBufferLock, Background, AfterFlush, Threads
<1>11. ASSUME NEW th \in Threads, BackgroundFlushFails(th) PROVE PhaseInv'
  <2>1. pc[th] \in {"callback", "insert"} /\ batch[th] # <<>>
    BY <1>11 DEF BackgroundFlushFails, CallbackRaises
  <2>2. Range(batch[th]) # {}
    BY <2>1, BatchRows
  <2>3. QED
    BY <1>11, <2>1, <2>2 DEF BackgroundFlushFails, Background, Threads
<1>12. ASSUME NEW th \in Threads, SyncFlushFails(th) PROVE PhaseInv'
  BY <1>12 DEF SyncFlushFails, CallbackRaises, Background, Threads
<1>13. CASE CloseBuffer
  BY <1>13 DEF CloseBuffer, Threads, TypeOK
<1>14. CASE Join
  BY <1>14 DEF Join, Threads
<1>15. CASE BufferClosed
  BY <1>15 DEF BufferClosed, Threads
<1>16. CASE CloseClient
  BY <1>16 DEF CloseClient, Threads
<1>17. CASE Crash
  BY <1>17 DEF Crash, Threads
<1>18. CASE UNCHANGED vars
  BY <1>18 DEF vars
<1>19. QED
  BY <1>1, <1>2, <1>3, <1>4, <1>5, <1>6, <1>7, <1>8, <1>9, <1>10, <1>11, <1>12, <1>13,
     <1>14, <1>15, <1>16, <1>17, <1>18
  DEF Next, Task, Flush, Shutdown

-----------------------------------------------------------------------------
\* What a thread that waits waits for.
LEMMA WaitCauses ==
  ASSUME TypeOK, PhaseInv, NEW th \in Threads, WaitsFor(th) # None
  PROVE  /\ WaitsFor(th) \in Threads
         /\ \/ WaitsFor(th) = bufLock
            \/ stop /\ ~client
<1> USE ThreadKinds DEF TypeOK
<1>1. CASE pc[th] \in {"flush", "requeue"} \/ (pc[th] = "task" /\ todo \ Invalid # {})
  BY <1>1 DEF WaitsFor
<1>2. CASE ~(pc[th] \in {"flush", "requeue"} \/ (pc[th] = "task" /\ todo \ Invalid # {}))
  <2>1. pc[th] = "callback" /\ ~client /\ WaitsFor(th) = workLock
    BY <1>2 DEF WaitsFor
  <2>2. workLock = "main"
    BY <2>1
  <2>3. stop
    BY <2>2
  <2>4. QED
    BY <2>1, <2>2, <2>3
<1>3. QED
  BY <1>1, <1>2

\* A circular wait has one of the two causes: the owner of the buffer's lock is in
\* a flush, and waits there only to put a failed batch back or for the client.
LEMMA DeadlockCausesStep == TypeOK /\ PhaseInv => DeadlockCauses
<1> SUFFICES ASSUME TypeOK, PhaseInv,
                    NEW th \in Threads, WaitsFor(th) # None, WaitsFor(WaitsFor(th)) # None
             PROVE  failed # {} \/ (stop /\ ~client)
  BY DEF DeadlockCauses
<1>1. WaitsFor(th) \in Threads /\ (WaitsFor(th) = bufLock \/ (stop /\ ~client))
  BY WaitCauses
<1>2. CASE WaitsFor(th) = bufLock
  <2> DEFINE o == WaitsFor(th)
  <2>1. o \in Threads /\ WaitsFor(o) # None
    BY <1>1
  <2>2. pc[o] \in {"callback", "insert", "unlock", "requeue"}
    BY <1>1, <1>2 DEF TypeOK
  <2>3. CASE pc[o] = "requeue"
    BY <2>1, <2>3 DEF PhaseInv
  <2>4. CASE pc[o] # "requeue"
    <3>1. WaitsFor(o) = workLock /\ ~client /\ workLock # None
      BY <2>1, <2>2, <2>4 DEF WaitsFor
    <3>2. QED
      BY <3>1 DEF TypeOK
  <2>5. QED
    BY <2>3, <2>4
<1>3. QED
  BY <1>1, <1>2

-----------------------------------------------------------------------------
\* What a flush inserts: its rows are in the table, and none leave it.
LEMMA Inserted ==
  ASSUME TypeOK, NEW th \in Threads, table' = TableWith(th)
  PROVE  /\ InClickHouse \subseteq InClickHouse'
         /\ Range(batch[th]) \subseteq InClickHouse'
<1>1. \A r \in AllRows : /\ Count(batch[th], r) \in Nat
                         /\ table[r] \in Nat
                         /\ table'[r] = table[r] + Count(batch[th], r)
  BY CountType DEF TypeOK, TableWith
<1>2. \A r \in Range(batch[th]) : r \in AllRows /\ Count(batch[th], r) > 0
  BY BatchRows, CountInRange DEF TypeOK
<1>3. QED
  BY <1>1, <1>2 DEF InClickHouse

\* Whatever becomes of a row, a step of the program does not lose sight of it.
LEMMA AccountedStays == TypeOK /\ PhaseInv /\ [Next]_vars => Accounted \subseteq Accounted'
<1> SUFFICES ASSUME TypeOK, PhaseInv, [Next]_vars PROVE Accounted \subseteq Accounted'
  OBVIOUS
<1> USE ThreadKinds DEF Accounted, Buffered
<1>t. /\ pc \in [Threads -> MainPoints \cup BackgroundPoints]
      /\ batch \in [Threads -> Seq(AllRows)]
      /\ rows \in Seq(AllRows)
      /\ Range(<<>>) = {}
  BY RangeType DEF TypeOK
<1> USE <1>t
<1>1. ASSUME NEW r \in AllRows, AppendRow(r) PROVE Accounted \subseteq Accounted'
  <2>1. Range(Append(rows, r)) = Range(rows) \cup {r}
    BY RangeAppend
  <2>2. batch["main"] = <<>>
    BY <1>1 DEF AppendRow, PhaseInv
  <2>3. UNCHANGED <<table, dropped, killed>>
    BY <1>1 DEF AppendRow, historyVars
  <2>4. Buffered \subseteq Buffered'
    BY <1>1, <2>1, <2>2 DEF AppendRow, Threads
  <2>5. QED
    BY <2>3, <2>4 DEF InClickHouse
<1>2. ASSUME NEW th \in Threads, TakeBufferLock(th) PROVE Accounted \subseteq Accounted'
  <2>1. pc[th] = "flush"
    BY <1>2, RequeueWaits
  <2>2. batch[th] = <<>>
    BY <2>1 DEF PhaseInv
  <2>3. UNCHANGED <<table, dropped, killed>>
    BY <1>2 DEF TakeBufferLock, historyVars
  <2>4. Buffered \subseteq Buffered'
    BY <1>2, <2>1, <2>2 DEF TakeBufferLock, Threads
  <2>5. QED
    BY <2>3, <2>4 DEF InClickHouse
<1>3. ASSUME NEW th \in Threads, InsertOk(th) PROVE Accounted \subseteq Accounted'
  <2>1. InClickHouse \cup Range(batch[th]) \subseteq InClickHouse'
    BY <1>3, Inserted DEF InsertOk
  <2>2. Buffered \subseteq Buffered' \cup Range(batch[th])
    BY <1>3 DEF InsertOk, Threads
  <2>3. UNCHANGED <<dropped, killed>>
    BY <1>3 DEF InsertOk, historyVars
  <2>4. QED
    BY <2>1, <2>2, <2>3
<1>4. ASSUME NEW th \in Threads, BackgroundFlushFails(th) PROVE Accounted \subseteq Accounted'
  <2>1. InClickHouse \subseteq InClickHouse'
    BY <1>4, Inserted DEF BackgroundFlushFails, CallbackRaises, InClickHouse
  <2>2. UNCHANGED <<rows, batch, dropped, killed>>
    BY <1>4 DEF BackgroundFlushFails
  <2>3. QED
    BY <2>1, <2>2
<1>5. ASSUME NEW th \in Threads, SyncFlushFails(th) PROVE Accounted \subseteq Accounted'
  <2>1. InClickHouse \subseteq InClickHouse'
    BY <1>5, Inserted DEF SyncFlushFails, CallbackRaises, InClickHouse
  <2>2. Buffered \subseteq Buffered' \cup Range(batch[th])
    BY <1>5 DEF SyncFlushFails, Threads
  <2>3. dropped' = dropped \cup Range(batch[th]) /\ killed' = killed
    BY <1>5 DEF SyncFlushFails
  <2>4. QED
    BY <2>1, <2>2, <2>3
<1>6. CASE Crash
  <2>1. killed' = killed \cup Buffered /\ UNCHANGED <<table, dropped>>
    BY <1>6 DEF Crash
  <2>2. QED
    BY <2>1 DEF InClickHouse
<1>7. ASSUME UNCHANGED <<rows, batch, table, dropped, killed>>
      PROVE  Accounted \subseteq Accounted'
  BY <1>7 DEF InClickHouse
<1>8. ASSUME NEW r \in AllRows, SkipInvalid(r) \/ TaskRaises(r)
      PROVE  Accounted \subseteq Accounted'
  BY <1>7, <1>8 DEF SkipInvalid, TaskRaises, historyVars
<1>9. ASSUME NEW th \in Threads, GetClient(th) \/ ReleaseBufferLock(th)
      PROVE  Accounted \subseteq Accounted'
  BY <1>7, <1>9 DEF GetClient, ReleaseBufferLock, historyVars
<1>10. ASSUME NEW m \in Messages, StartTask(m) PROVE Accounted \subseteq Accounted'
  BY <1>7, <1>10 DEF StartTask, historyVars
<1>11. CASE FinishTask \/ BackgroundWakes \/ CloseBuffer \/ Shutdown \/ UNCHANGED vars
  BY <1>7, <1>11 DEF FinishTask, BackgroundWakes, CloseBuffer, Shutdown, Join, BufferClosed,
     CloseClient, vars, historyVars
<1>12. QED
  BY <1>1, <1>2, <1>3, <1>4, <1>5, <1>6, <1>8, <1>9, <1>10, <1>11 DEF Next, Task, Flush

\* The message in progress changes only where a task starts and where it ends; in
\* between its rows leave `todo` when they are skipped or appended.
LEMMA NextAckedInv == TypeOK /\ PhaseInv /\ AckedInv /\ [Next]_vars => AckedInv'
<1> SUFFICES ASSUME TypeOK, PhaseInv, AckedInv, [Next]_vars PROVE AckedInv'
  OBVIOUS
<1> USE ThreadKinds
<1>a. Accounted \subseteq Accounted'
  BY AccountedStays
<1>f. \A m \in finished : RowsOf[m] \ Invalid \subseteq Accounted
  BY DEF AckedInv, AckedRowsAccounted, Accounted
<1>r. running # None => (RowsOf[running] \ Invalid) \ todo \subseteq Accounted
  BY DEF AckedInv
<1>q. ASSUME \A m \in finished' : RowsOf[m] \ Invalid \subseteq Accounted',
             running' # None => (RowsOf[running'] \ Invalid) \ todo' \subseteq Accounted'
      PROVE  AckedInv'
  BY <1>q DEF AckedInv, AckedRowsAccounted, Accounted
<1>1. ASSUME NEW m \in Messages, StartTask(m) PROVE AckedInv'
  <2>1. finished' = finished /\ running' = m /\ todo' = RowsOf[m]
    BY <1>1 DEF StartTask
  <2>2. QED
    BY <2>1, <1>a, <1>f, <1>q
<1>2. ASSUME NEW r \in AllRows, SkipInvalid(r) PROVE AckedInv'
  <2>1. finished' = finished /\ running' = running /\ todo' = todo \ {r} /\ r \in Invalid
    BY <1>2 DEF SkipInvalid
  <2>2. QED
    BY <2>1, <1>a, <1>f, <1>r, <1>q
<1>3. ASSUME NEW r \in AllRows, AppendRow(r) PROVE AckedInv'
  <2>1. finished' = finished /\ running' = running /\ todo' = todo \ {r}
    BY <1>3 DEF AppendRow
  <2>2. r \in Range(Append(rows, r))
    BY RangeAppend DEF TypeOK
  <2>3. r \in Buffered'
    BY <1>3, <2>2 DEF AppendRow, Buffered, TypeOK
  <2>4. r \in Accounted'
    BY <2>3 DEF Accounted
  <2>5. QED
    BY <2>1, <2>4, <1>a, <1>f, <1>r, <1>q
<1>4. CASE FinishTask
  <2>1. finished' = finished \cup {running} /\ running' = None /\ todo = {}
    BY <1>4 DEF FinishTask
  <2>2. running # None
    BY <1>4 DEF FinishTask, TypeOK
  <2>3. \A m \in finished' : RowsOf[m] \ Invalid \subseteq Accounted'
    BY <2>1, <2>2, <1>a, <1>f, <1>r
  <2>4. QED
    BY <2>1, <2>3, <1>q
<1>5. ASSUME finished' = finished, running' = None PROVE AckedInv'
  BY <1>5, <1>a, <1>f, <1>q
<1>6. ASSUME UNCHANGED <<finished, running, todo>> PROVE AckedInv'
  BY <1>6, <1>a, <1>f, <1>r, <1>q
<1>7. ASSUME NEW r \in AllRows, TaskRaises(r) PROVE AckedInv'
  BY <1>5, <1>7 DEF TaskRaises
<1>8. ASSUME NEW th \in Threads, Flush(th) PROVE AckedInv'
  <2>1. CASE SyncFlushFails(th)
    BY <1>5, <2>1 DEF SyncFlushFails
  <2>2. CASE ~SyncFlushFails(th)
    BY <1>6, <1>8, <2>2 DEF Flush, TakeBufferLock, GetClient, InsertOk, ReleaseBufferLock,
       BackgroundFlushFails, taskVars
  <2>3. QED
    BY <2>1, <2>2
<1>9. CASE Crash
  BY <1>5, <1>9 DEF Crash
<1>10. CASE BackgroundWakes \/ CloseBuffer \/ Shutdown \/ UNCHANGED vars
  BY <1>6, <1>10 DEF BackgroundWakes, CloseBuffer, Shutdown, Join, BufferClosed, CloseClient,
     vars, taskVars
<1>11. QED
  BY <1>1, <1>2, <1>3, <1>4, <1>7, <1>8, <1>9, <1>10 DEF Next, Task

-----------------------------------------------------------------------------
Other(th) == IF th = "main" THEN "bg" ELSE "main"

\* The summands of Copies are numbers, and their order does not matter.
Summands ==
    \A r \in AllRows :
        /\ table[r] \in Nat /\ Count(rows, r) \in Nat
        /\ \A th \in Threads : Count(batch[th], r) \in Nat /\ Count(Live(th), r) \in Nat
        /\ Copies(r) \in Nat
        /\ \A th \in Threads :
              Copies(r) = table[r] + Count(rows, r) + Count(Live(th), r)
                            + Count(Live(Other(th)), r)
        /\ starts[MessageOf(r)] \in Nat

LEMMA SummandsHold == TypeOK => Summands
<1> SUFFICES ASSUME TypeOK, NEW r \in AllRows
             PROVE  /\ table[r] \in Nat /\ Count(rows, r) \in Nat
                    /\ \A th \in Threads :
                          Count(batch[th], r) \in Nat /\ Count(Live(th), r) \in Nat
                    /\ Copies(r) \in Nat
                    /\ \A th \in Threads :
                          Copies(r) = table[r] + Count(rows, r) + Count(Live(th), r)
                                        + Count(Live(Other(th)), r)
                    /\ starts[MessageOf(r)] \in Nat
  BY DEF Summands
<1>1. table[r] \in Nat /\ Count(rows, r) \in Nat
  BY CountType DEF TypeOK
<1>2. \A th \in Threads : Count(batch[th], r) \in Nat /\ Count(Live(th), r) \in Nat
  <2> TAKE th \in Threads
  <2>1. batch[th] \in Seq(AllRows)
    BY DEF TypeOK
  <2>2. Count(batch[th], r) \in Nat
    BY <2>1, CountType
  <2>3. Live(th) = batch[th] \/ Live(th) = <<>>
    BY DEF Live
  <2>4. QED
    BY <2>2, <2>3, CountEmpty
<1>3. starts[MessageOf(r)] \in Nat
  BY MessageOfAny DEF TypeOK
<1>4. Count(Live("main"), r) \in Nat /\ Count(Live("bg"), r) \in Nat
  BY <1>2, ThreadKinds
<1>5. Copies(r) \in Nat
  BY <1>1, <1>4 DEF Copies
<1>6. ASSUME NEW th \in Threads
      PROVE  Copies(r) = table[r] + Count(rows, r) + Count(Live(th), r)
                           + Count(Live(Other(th)), r)
  <2>1. CASE th = "main"
    BY <2>1 DEF Copies, Other
  <2>2. CASE th = "bg"
    <3>1. Other(th) = "main"
      BY <2>2 DEF Other
    <3>2. QED
      BY <1>1, <1>4, <2>2, <3>1 DEF Copies
  <2>3. QED
    BY <2>1, <2>2 DEF Threads
<1>7. QED
  BY <1>1, <1>2, <1>3, <1>5, <1>6

LEMMA SummandsNext == TypeOK' => Summands'
  BY SummandsHold, PTL

\* A step that lets no copy appear and starts no message keeps the bound, and so
\* does one that makes a copy of a row that is owed.
LEMMA CopiesKept ==
  ASSUME TypeOK, CopiesInv, TypeOK', UNCHANGED starts,
         \A r \in AllRows : Copies(r)' + Owed(r)' <= Copies(r) + Owed(r)
  PROVE  CopiesInv'
<1> SUFFICES ASSUME NEW r \in AllRows
             PROVE  Copies(r)' + Owed(r)' <= starts'[MessageOf(r)]
  BY DEF CopiesInv
<1>1. Copies(r) + Owed(r) <= starts[MessageOf(r)]
  BY DEF CopiesInv
<1>2. Copies(r) \in Nat /\ starts[MessageOf(r)] \in Nat
  BY SummandsHold DEF Summands
<1>3. Copies(r)' \in Nat
  BY SummandsNext DEF Summands
<1>4. Owed(r) \in 0..1 /\ Owed(r)' \in 0..1
  BY DEF Owed
<1>5. Copies(r)' + Owed(r)' <= Copies(r) + Owed(r)
  OBVIOUS
<1>6. QED
  BY <1>1, <1>2, <1>3, <1>4, <1>5

LEMMA CopiesUntouched ==
  ASSUME TypeOK, CopiesInv, TypeOK', UNCHANGED <<starts, table, rows>>,
         todo' \subseteq todo, \A th \in Threads : Live(th)' = Live(th)
  PROVE  CopiesInv'
<1>1. ASSUME NEW r \in AllRows PROVE Copies(r)' + Owed(r)' <= Copies(r) + Owed(r)
  <2>1. Copies(r)' = Copies(r)
    BY ThreadKinds DEF Copies
  <2>2. Copies(r) \in Nat
    BY SummandsHold DEF Summands
  <2>3. Owed(r) \in Nat /\ Owed(r)' \in Nat /\ Owed(r)' <= Owed(r)
    BY DEF Owed
  <2>4. QED
    BY <2>1, <2>2, <2>3
<1>2. QED
  BY <1>1, CopiesKept

\* A flush that ends, well or not: its batch is gone, and the table has it at most
\* once more.
LEMMA CopiesFlushed ==
  ASSUME TypeOK, CopiesInv, TypeOK', NEW th \in Threads, UNCHANGED <<starts, rows>>,
         todo' \subseteq todo, pc[th] # "requeue",
         table' \in {table, TableWith(th)}, Live(th)' = <<>>,
         Live(Other(th))' = Live(Other(th))
  PROVE  CopiesInv'
<1>1. ASSUME NEW r \in AllRows PROVE Copies(r)' + Owed(r)' <= Copies(r) + Owed(r)
  <2> Other(th) \in Threads
    BY DEF Other, Threads
  <2>1. /\ table[r] \in Nat /\ Count(rows, r) \in Nat
        /\ Count(Live(th), r) \in Nat /\ Count(Live(Other(th)), r) \in Nat
    BY SummandsHold DEF Summands
  <2>2. Live(th) = batch[th]
    BY DEF Live
  <2>3. table'[r] = table[r] \/ table'[r] = table[r] + Count(Live(th), r)
    BY <2>2 DEF TableWith
  <2>4. Copies(r)' = table'[r] + Count(rows, r) + 0 + Count(Live(Other(th)), r)
    <3>1. Copies(r)' = table'[r] + Count(rows', r) + Count(Live(th)', r)
                         + Count(Live(Other(th))', r)
      BY SummandsNext DEF Summands
    <3>2. Count(Live(th)', r) = 0
      BY CountEmpty
    <3>3. QED
      BY <3>1, <3>2
  <2>5. Copies(r) = table[r] + Count(rows, r) + Count(Live(th), r) + Count(Live(Other(th)), r)
    BY SummandsHold DEF Summands
  <2>6. Owed(r) \in Nat /\ Owed(r)' \in Nat /\ Owed(r)' <= Owed(r)
    BY DEF Owed
  <2> DEFINE a == table[r]  b == Count(rows, r)  c == Count(Live(th), r)
             d == Count(Live(Other(th)), r)  e == table'[r]
  <2>7. QED
    BY <2>1, <2>3, <2>4, <2>5, <2>6
<1>2. QED
  BY <1>1, CopiesKept

\* An append moves a row that was owed into the buffer, or into a batch with it.
LEMMA CopiesAppended ==
  ASSUME TypeOK, PhaseInv, CopiesInv, TypeOK', NEW x \in AllRows, AppendRow(x)
  PROVE  CopiesInv'
<1> USE ThreadKinds
<1>t. /\ rows \in Seq(AllRows) /\ batch \in [Threads -> Seq(AllRows)]
      /\ pc \in [Threads -> MainPoints \cup BackgroundPoints]
  BY DEF TypeOK
<1>0. /\ pc["main"] = "task" /\ x \in todo /\ todo' = todo \ {x}
      /\ UNCHANGED <<table, starts>>
  BY DEF AppendRow
<1>1. Live("bg")' = Live("bg")
  BY <1>t DEF AppendRow, Live, Threads
<1>2. Live("main") = <<>>
  BY <1>0, <1>t DEF Live, PhaseInv
<1>3. \/ rows' = Append(rows, x) /\ Live("main")' = <<>>
      \/ rows' = <<>> /\ Live("main")' = Append(rows, x)
  <2>1. CASE Len(rows) + 1 >= MaxBatch
    BY <2>1, <1>t DEF AppendRow, Live, Threads
  <2>2. CASE ~(Len(rows) + 1 >= MaxBatch)
    BY <2>2, <1>2 DEF AppendRow, Live
  <2>3. QED
    BY <2>1, <2>2
<1>4. ASSUME NEW r \in AllRows PROVE Copies(r)' + Owed(r)' <= Copies(r) + Owed(r)
  <2> DEFINE one == IF r = x THEN 1 ELSE 0
  <2>1. table[r] \in Nat /\ Count(rows, r) \in Nat /\ Count(Live("bg"), r) \in Nat
    BY SummandsHold DEF Summands
  <2>2. Count(Append(rows, x), r) = Count(rows, r) + one
    BY <1>t, CountAppend
  <2>3. Count(<<>>, r) = 0
    BY CountEmpty
  <2>4. Copies(r) = table[r] + Count(rows, r) + 0 + Count(Live("bg"), r)
    BY <1>2, <2>3 DEF Copies
  <2>5. Copies(r)' = table[r] + Count(rows', r) + Count(Live("main")', r) + Count(Live("bg"), r)
    BY <1>0, <1>1 DEF Copies
  <2>6. \/ Count(rows', r) = Count(rows, r) + one /\ Count(Live("main")', r) = 0
        \/ Count(rows', r) = 0 /\ Count(Live("main")', r) = Count(rows, r) + one
    BY <1>3, <2>2, <2>3
  <2>7. Owed(r) = Owed(r)' + one
    BY <1>0 DEF Owed
  <2>8. one \in 0..1 /\ Owed(r)' \in 0..1
    BY DEF Owed
  <2> HIDE DEF one
  <2>9. Copies(r)' = Copies(r) + one
    BY <2>1, <2>4, <2>5, <2>6, <2>8
  <2>10. Copies(r) \in Nat
    BY SummandsHold DEF Summands
  <2>11. QED
    BY <2>7, <2>8, <2>9, <2>10
<1>5. QED
  BY <1>0, <1>4, CopiesKept

\* A flush that takes the buffer moves its rows to the batch.
LEMMA CopiesTaken ==
  ASSUME TypeOK, PhaseInv, CopiesInv, TypeOK', NEW th \in Threads, TakeBufferLock(th)
  PROVE  CopiesInv'
<1> USE ThreadKinds
<1>t. /\ rows \in Seq(AllRows) /\ batch \in [Threads -> Seq(AllRows)]
      /\ pc \in [Threads -> MainPoints \cup BackgroundPoints]
  BY DEF TypeOK
<1>0. pc[th] = "flush" /\ UNCHANGED <<table, starts, todo>>
  BY RequeueWaits DEF TakeBufferLock, taskVars
<1>1. Other(th) \in Threads /\ Other(th) # th /\ Live(Other(th))' = Live(Other(th))
  BY <1>t DEF TakeBufferLock, Live, Threads, Other
<1>2. Live(th) = <<>>
  BY <1>0 DEF Live, PhaseInv
<1>3. \/ rows' = rows /\ Live(th)' = <<>>
      \/ rows' = <<>> /\ Live(th)' = rows
  <2>1. CASE rows = <<>>
    BY <2>1, <1>0, <1>2, <1>t DEF TakeBufferLock, Live, AfterFlush
  <2>2. CASE rows # <<>>
    BY <2>2, <1>0, <1>t DEF TakeBufferLock, Live
  <2>3. QED
    BY <2>1, <2>2
<1>4. ASSUME NEW r \in AllRows PROVE Copies(r)' + Owed(r)' <= Copies(r) + Owed(r)
  <2>1. /\ table[r] \in Nat /\ Count(rows, r) \in Nat /\ Count(Live(Other(th)), r) \in Nat
        /\ Copies(r) \in Nat
    BY <1>1, SummandsHold DEF Summands
  <2>2. Count(<<>>, r) = 0
    BY CountEmpty
  <2>3. Copies(r) = table[r] + Count(rows, r) + 0 + Count(Live(Other(th)), r)
    BY <1>2, <2>2, SummandsHold DEF Summands
  <2>4. Copies(r)' = table'[r] + Count(rows', r) + Count(Live(th)', r)
                       + Count(Live(Other(th))', r)
    BY SummandsNext DEF Summands
  <2>5. \/ Count(rows', r) = Count(rows, r) /\ Count(Live(th)', r) = 0
        \/ Count(rows', r) = 0 /\ Count(Live(th)', r) = Count(rows, r)
    BY <1>3, <2>2
  <2>6. Copies(r)' = Copies(r)
    BY <1>0, <1>1, <2>1, <2>3, <2>4, <2>5
  <2>7. Owed(r)' = Owed(r) /\ Owed(r) \in Nat
    BY <1>0 DEF Owed
  <2>8. QED
    BY <2>1, <2>6, <2>7
<1>5. QED
  BY <1>0, <1>4, CopiesKept

\* A start pays for one copy of each of its message's rows.
LEMMA CopiesStarted ==
  ASSUME TypeOK, PhaseInv, CopiesInv, TypeOK', NEW m \in Messages, StartTask(m)
  PROVE  CopiesInv'
<1> USE ThreadKinds
<1>1. /\ todo' = RowsOf[m] /\ starts' = [starts EXCEPT ![m] = @ + 1]
      /\ UNCHANGED <<table, rows, batch>>
  BY DEF StartTask
<1>2. todo = {}
  BY DEF StartTask, TypeOK, PhaseInv
<1>3. \A th \in Threads : Live(th)' = Live(th)
  BY DEF StartTask, Live, TypeOK, Threads
<1> SUFFICES ASSUME NEW r \in AllRows
             PROVE  Copies(r)' + Owed(r)' <= starts'[MessageOf(r)]
  BY DEF CopiesInv
<1>4. Copies(r)' = Copies(r) /\ Copies(r) \in Nat /\ starts[MessageOf(r)] \in Nat
  <2>1. Copies(r)' = Copies(r)
    BY <1>1, <1>3 DEF Copies
  <2>2. QED
    BY <2>1, SummandsHold DEF Summands
<1>5. Copies(r) <= starts[MessageOf(r)]
  <2>1. Copies(r) + Owed(r) <= starts[MessageOf(r)] /\ Owed(r) = 0
    BY <1>2 DEF CopiesInv, Owed
  <2>2. QED
    BY <1>4, <2>1
<1>6. starts \in [Messages -> Nat] /\ MessageOf(r) \in Messages
  BY MessageOfAny DEF TypeOK
<1>7. CASE r \in RowsOf[m]
  <2>1. MessageOf(r) = m
    BY <1>7, MessageOfRow
  <2>2. starts'[MessageOf(r)] = starts[MessageOf(r)] + 1 /\ Owed(r)' = 1
    BY <1>1, <1>6, <1>7, <2>1 DEF Owed
  <2>3. QED
    BY <1>4, <1>5, <2>2
<1>8. CASE r \notin RowsOf[m]
  <2>1. starts'[MessageOf(r)] >= starts[MessageOf(r)] /\ Owed(r)' = 0
        /\ starts'[MessageOf(r)] \in Nat
    BY <1>1, <1>4, <1>6, <1>8 DEF Owed
  <2>2. QED
    BY <1>4, <1>5, <2>1
<1>9. QED
  BY <1>7, <1>8

\* A new process holds nothing, and nothing of it is owed.
LEMMA CopiesCrashed ==
  ASSUME TypeOK, CopiesInv, TypeOK', Crash
  PROVE  CopiesInv'
<1>1. /\ rows' = <<>> /\ todo' = {} /\ Live("main")' = <<>> /\ Live("bg")' = <<>>
      /\ UNCHANGED <<table, starts>>
  BY ThreadKinds DEF Crash, Live
<1>2. ASSUME NEW r \in AllRows PROVE Copies(r)' + Owed(r)' <= Copies(r) + Owed(r)
  <2>1. /\ table[r] \in Nat /\ Count(rows, r) \in Nat
        /\ Count(Live("main"), r) \in Nat /\ Count(Live("bg"), r) \in Nat
    BY SummandsHold, ThreadKinds DEF Summands
  <2>2. Copies(r)' = table[r] + 0 + 0 + 0 /\ Owed(r)' = 0 /\ Owed(r) \in Nat
    BY <1>1, CountEmpty DEF Copies, Owed
  <2>3. QED
    BY <2>1, <2>2 DEF Copies
<1>3. QED
  BY <1>1, <1>2, CopiesKept

LEMMA NextCopiesInv ==
  TypeOK /\ PhaseInv /\ CopiesInv /\ [Next]_vars => CopiesInv'
<1> SUFFICES ASSUME TypeOK, PhaseInv, CopiesInv, [Next]_vars PROVE CopiesInv'
  OBVIOUS
<1>t. TypeOK'
  BY NextTypeOK
<1>p. /\ pc \in [Threads -> MainPoints \cup BackgroundPoints]
      /\ batch \in [Threads -> Seq(AllRows)]
  BY DEF TypeOK
<1> USE <1>t, ThreadKinds
<1>1. ASSUME NEW m \in Messages, StartTask(m) PROVE CopiesInv'
  BY <1>1, CopiesStarted
<1>2. ASSUME NEW r \in AllRows, AppendRow(r) PROVE CopiesInv'
  BY <1>2, CopiesAppended
<1>3. ASSUME NEW th \in Threads, TakeBufferLock(th) PROVE CopiesInv'
  BY <1>3, CopiesTaken
<1>4. CASE Crash
  BY <1>4, CopiesCrashed
<1>5. ASSUME NEW th \in Threads, InsertOk(th) PROVE CopiesInv'
  <2>1. /\ UNCHANGED <<starts, rows, todo>> /\ pc[th] # "requeue"
        /\ table' = TableWith(th)
    BY <1>5 DEF InsertOk, taskVars
  <2>2. Live(th)' = <<>> /\ Live(Other(th))' = Live(Other(th))
    BY <1>5, <1>p DEF InsertOk, Live, Other, Threads
  <2>3. QED
    BY <2>1, <2>2, CopiesFlushed
<1>6. ASSUME NEW th \in Threads, BackgroundFlushFails(th) PROVE CopiesInv'
  <2>1. /\ UNCHANGED <<starts, rows, todo>> /\ pc[th] # "requeue"
        /\ table' \in {table, TableWith(th)}
    BY <1>6 DEF BackgroundFlushFails, CallbackRaises, taskVars
  <2>2. Live(th)' = <<>> /\ Live(Other(th))' = Live(Other(th))
    BY <1>6, <1>p DEF BackgroundFlushFails, Live, Other, Threads
  <2>3. QED
    BY <2>1, <2>2, CopiesFlushed
<1>7. ASSUME NEW th \in Threads, SyncFlushFails(th) PROVE CopiesInv'
  <2>1. /\ UNCHANGED <<starts, rows>> /\ todo' \subseteq todo /\ pc[th] # "requeue"
        /\ table' \in {table, TableWith(th)}
    BY <1>7 DEF SyncFlushFails, CallbackRaises
  <2>2. Live(th)' = <<>> /\ Live(Other(th))' = Live(Other(th))
    BY <1>7, <1>p DEF SyncFlushFails, Live, Other, Threads
  <2>3. QED
    BY <2>1, <2>2, CopiesFlushed
<1>8. ASSUME NEW r \in AllRows, SkipInvalid(r) \/ TaskRaises(r) PROVE CopiesInv'
  <2>1. UNCHANGED <<starts, table, rows>> /\ todo' \subseteq todo
    BY <1>8 DEF SkipInvalid, TaskRaises
  <2>2. \A th \in Threads : Live(th)' = Live(th)
    BY <1>8, <1>p DEF SkipInvalid, TaskRaises, Live, Threads
  <2>3. QED
    BY <2>1, <2>2, CopiesUntouched
<1>9. ASSUME NEW th \in Threads, GetClient(th) \/ ReleaseBufferLock(th) PROVE CopiesInv'
  <2>1. UNCHANGED <<starts, table, rows, todo>>
    BY <1>9 DEF GetClient, ReleaseBufferLock, taskVars
  <2>2. \A o \in Threads : Live(o)' = Live(o)
    BY <1>9, <1>p DEF GetClient, ReleaseBufferLock, AfterFlush, Live, Threads
  <2>3. QED
    BY <2>1, <2>2, CopiesUntouched
<1>10. CASE FinishTask \/ BackgroundWakes \/ CloseBuffer \/ Shutdown \/ UNCHANGED vars
  <2>1. UNCHANGED <<starts, table, rows, todo>>
    BY <1>10 DEF FinishTask, BackgroundWakes, CloseBuffer, Shutdown, Join, BufferClosed,
       CloseClient, vars, taskVars
  <2>2. \A th \in Threads : Live(th)' = Live(th)
    BY <1>10, <1>p DEF FinishTask, BackgroundWakes, CloseBuffer, Shutdown, Join, BufferClosed,
       CloseClient, vars, taskVars, Live, Threads
  <2>3. QED
    BY <2>1, <2>2, CopiesUntouched
<1>11. QED
  BY <1>1, <1>2, <1>3, <1>4, <1>5, <1>6, <1>7, <1>8, <1>9, <1>10 DEF Next, Task, Flush

-----------------------------------------------------------------------------
LEMMA InitIInv == Init => IInv
<1> SUFFICES ASSUME Init PROVE IInv
  OBVIOUS
<1>1. TypeOK /\ PhaseInv
  BY InitTypes
<1>2. AckedInv
  BY DEF Init, AckedInv, AckedRowsAccounted
<1>3. CopiesInv
  <2> SUFFICES ASSUME NEW r \in AllRows PROVE Copies(r) + Owed(r) <= starts[MessageOf(r)]
    BY DEF CopiesInv
  <2>1. rows = <<>> /\ Live("main") = <<>> /\ Live("bg") = <<>>
    BY ThreadKinds DEF Init, Live
  <2>2. Copies(r) = 0 /\ Owed(r) = 0
    BY <2>1, CountEmpty DEF Copies, Owed, Init
  <2>3. starts[MessageOf(r)] = 0
    BY MessageOfAny DEF Init
  <2>4. QED
    BY <2>2, <2>3
<1>4. QED
  BY <1>1, <1>2, <1>3 DEF IInv

\* The invariant of the worker's threads, rows and messages, over every step.
THEOREM Inductive == Spec => []IInv
<1>1. IInv /\ [Next]_vars => IInv'
  BY NextTypeOK, NextPhaseInv, NextAckedInv, NextCopiesInv DEF IInv
<1>2. QED
  BY <1>1, InitIInv, PTL DEF Spec

\* The types, and who may hold which lock where.
THEOREM TypeCorrect == Spec => []TypeOK
<1>1. IInv => TypeOK
  BY DEF IInv
<1>2. QED
  BY <1>1, Inductive, PTL

\* A row of an acknowledged message is in ClickHouse or still in the process, or
\* it was in a batch whose synchronous flush failed, or in a process that was
\* killed (BatchBuffer.append and flush, Celery's acknowledgement).
THEOREM AckedRowsAccountedHolds == Spec => []AckedRowsAccounted
<1>1. IInv => AckedRowsAccounted
  BY DEF IInv, AckedInv
<1>2. QED
  BY <1>1, Inductive, PTL

\* ClickHouse, the buffer and the live flushes hold a row at most as often as its
\* message was started (BatchBuffer, the task's retries and redeliveries).
THEOREM CopiesBoundedHolds == Spec => []CopiesBounded
<1>1. IInv => CopiesBounded
  <2> SUFFICES ASSUME IInv, NEW r \in AllRows PROVE Copies(r) <= starts[MessageOf(r)]
    BY DEF CopiesBounded, Copies
  <2>1. Copies(r) \in Nat /\ starts[MessageOf(r)] \in Nat
    BY SummandsHold DEF IInv, Summands
  <2>2. Copies(r) + Owed(r) <= starts[MessageOf(r)] /\ Owed(r) \in Nat
    BY DEF IInv, CopiesInv, Owed
  <2>3. QED
    BY <2>1, <2>2
<1>2. QED
  BY <1>1, Inductive, PTL

\* The worker's threads wait for each other, or for themselves, only after a
\* background flush failed or in a shutdown before the first client was built
\* (BatchBuffer._lock and MetricsWorker._lock).
THEOREM DeadlockCausesHolds == Spec => []DeadlockCauses
<1>1. IInv => DeadlockCauses
  BY DeadlockCausesStep DEF IInv
<1>2. QED
  BY <1>1, Inductive, PTL
=============================================================================
