----------------------------- MODULE CeleryBuffer -----------------------------
(***************************************************************************)
(* The gateway's event buffer (events/buffer.py): request threads add      *)
(* items, a full batch is sent by the thread that filled it, a one-shot    *)
(* daemon timer sends what is left, and close(), registered with atexit,   *)
(* sends the rest.  Every block under `_lock` is one step; the unlocked    *)
(* `_closed` test, the lock block and the send after it are steps of their *)
(* own, so other threads run between them.                                 *)
(*                                                                         *)
(* The order of items is abstracted away (the buffer and a batch are       *)
(* sets): nothing in the source orders two batches in flight.              *)
(***************************************************************************)
EXTENDS Naturals, FiniteSets

CONSTANTS
    Items,          \* the records the process emits; each is emitted once
    Adders,         \* threads that call add()
    Timers,         \* slots for threading.Timer threads: bounds how many live at once
    main,           \* the main thread, which runs the atexit hook
    BatchSize,      \* celery_events_batch_size
    NoTimer         \* `_timer is None`

ASSUME BufferAssumption ==
    /\ BatchSize \in Nat \ {0}
    /\ NoTimer \notin Timers
    /\ Adders \cap Timers = {}
    /\ main \notin Adders \cup Timers
    /\ IsFiniteSet(Items)

VARIABLES
    closed,         \* _closed
    buffer,         \* _buffer
    timer,          \* _timer: the timer a cancel would reach
    pc,             \* where each thread is
    hand,           \* the item a thread is adding, or the batch it is sending
    fresh,          \* items not emitted yet
    delivered,      \* items the broker has taken
    dropped,        \* items add() refused because the buffer was closed
    lost,           \* items gone with the process
    late,           \* history: items past the `_closed` test when close() set it
    returned,       \* history: items a failed send put back
    unconfirmed,    \* history: items the broker took in a send that raised
    redelivered     \* history: items the broker took again

threadVars == <<closed, buffer, timer, pc, hand>>
vars == <<threadVars, fresh, delivered, dropped, lost, late, returned,
          unconfirmed, redelivered>>

Threads == Adders \cup Timers \cup {main}

\* The points a thread can be at: an adder between the `_closed` test and the
\* lock ("checked"), a timer waiting for its interval ("pending") or for the
\* lock ("fired"), main inside close() before flush() has the lock ("closing").
Points(t) ==
    IF t \in Adders THEN {"idle", "checked", "sending"}
    ELSE IF t \in Timers THEN {"idle", "pending", "fired", "sending"}
    ELSE {"idle", "closing", "sending", "done", "ended"}

\* Where send_batch returns to.
AfterSend(t) == IF t = main THEN "done" ELSE "idle"

\* Items in batches some thread is sending.
InFlight == UNION {hand[t] : t \in {u \in Threads : pc[u] = "sending"}}

\* Items whose add() has passed the `_closed` test and does not have the lock yet.
Adding == UNION {hand[a] : a \in {b \in Threads : pc[b] = "checked"}}

Init ==
    /\ closed = FALSE
    /\ buffer = {}
    /\ timer = NoTimer
    /\ pc = [t \in Threads |-> "idle"]
    /\ hand = [t \in Threads |-> {}]
    /\ fresh = Items
    /\ delivered = {}
    /\ dropped = {}
    /\ lost = {}
    /\ late = {}
    /\ returned = {}
    /\ unconfirmed = {}
    /\ redelivered = {}
-----------------------------------------------------------------------------
\* pc once thread t has left the lock block with a batch: _take_all_unlocked
\* cancels `_timer`, which stops it only while it still waits for its interval.
\* A callback that already started goes on, and so does a timer `_timer` no
\* longer refers to.
pcAfterTake(t) ==
    [u \in Threads |->
        IF u = t THEN "sending"
        ELSE IF u = timer /\ pc[u] = "pending" THEN "idle"
        ELSE pc[u]]

\* _take_all_unlocked: copy, clear, cancel the timer.  `items` is what the list
\* holds at that point.
TakeAll(t, items) ==
    /\ hand' = [hand EXCEPT ![t] = items]
    /\ buffer' = {}
    /\ pc' = pcAfterTake(t)
    /\ timer' = NoTimer

\* add(), up to the lock: the `_closed` test is made without it.
AddCheck(a, i) ==
    /\ pc[a] = "idle"
    /\ pc[main] # "ended"
    /\ i \in fresh
    /\ fresh' = fresh \ {i}
    /\ IF closed
       THEN /\ dropped' = dropped \cup {i}
            /\ UNCHANGED <<pc, hand>>
       ELSE /\ pc' = [pc EXCEPT ![a] = "checked"]
            /\ hand' = [hand EXCEPT ![a] = {i}]
            /\ UNCHANGED dropped
    /\ UNCHANGED <<closed, buffer, timer, delivered, lost, late, returned,
                   unconfirmed, redelivered>>

\* add()'s lock block when the item fills the batch.
AppendFills(a) ==
    /\ pc[a] = "checked"
    /\ Cardinality(buffer \cup hand[a]) >= BatchSize
    /\ TakeAll(a, buffer \cup hand[a])
    /\ UNCHANGED <<closed, fresh, delivered, dropped, lost, late, returned,
                   unconfirmed, redelivered>>

\* A bug the properties must catch: no timer is started for the first item.
AppendWithoutTimer(a) ==
    /\ pc[a] = "checked"
    /\ Cardinality(buffer \cup hand[a]) < BatchSize
    /\ buffer' = buffer \cup hand[a]
    /\ hand' = [hand EXCEPT ![a] = {}]
    /\ pc' = [pc EXCEPT ![a] = "idle"]
    /\ UNCHANGED <<closed, timer, fresh, delivered, dropped, lost, late, returned,
                   unconfirmed, redelivered>>

\* add()'s lock block otherwise: start a timer unless there is one.
AppendWaits(a) ==
    /\ pc[a] = "checked"
    /\ Cardinality(buffer \cup hand[a]) < BatchSize
    /\ buffer' = buffer \cup hand[a]
    /\ hand' = [hand EXCEPT ![a] = {}]
    /\ \/ /\ timer # NoTimer
          /\ timer' = timer
          /\ pc' = [pc EXCEPT ![a] = "idle"]
       \/ /\ timer = NoTimer
          /\ \E t \in Timers :
                /\ pc[t] = "idle"
                /\ timer' = t
                /\ pc' = [pc EXCEPT ![a] = "idle", ![t] = "pending"]
    /\ UNCHANGED <<closed, fresh, delivered, dropped, lost, late, returned,
                   unconfirmed, redelivered>>

\* A timer's interval ends and its callback tests `_closed`, without the lock.
TimerFires(t) ==
    /\ pc[t] = "pending"
    /\ pc' = [pc EXCEPT ![t] = IF closed THEN "idle" ELSE "fired"]
    /\ UNCHANGED <<closed, buffer, timer, hand, fresh, delivered, dropped, lost,
                   late, returned, unconfirmed, redelivered>>

\* _on_timer's lock block.  `_timer` is cleared first, whichever timer it names.
OnTimer(t) ==
    /\ pc[t] = "fired"
    /\ \/ /\ buffer = {}
          /\ timer' = NoTimer
          /\ pc' = [pc EXCEPT ![t] = "idle"]
          /\ UNCHANGED <<buffer, hand>>
       \/ /\ buffer # {}
          /\ timer' = NoTimer
          /\ buffer' = {}
          /\ hand' = [hand EXCEPT ![t] = buffer]
          /\ pc' = [pc EXCEPT ![t] = "sending"]
    /\ UNCHANGED <<closed, fresh, delivered, dropped, lost, late, returned,
                   unconfirmed, redelivered>>

\* send_task returns.
SendOk(t) ==
    /\ pc[t] = "sending"
    /\ delivered' = delivered \cup hand[t]
    /\ redelivered' = redelivered \cup (hand[t] \cap delivered)
    /\ hand' = [hand EXCEPT ![t] = {}]
    /\ pc' = [pc EXCEPT ![t] = AfterSend(t)]
    /\ UNCHANGED <<closed, buffer, timer, fresh, dropped, lost, late, returned,
                   unconfirmed>>

\* Bugs the properties must catch: the except branch only logs; it puts the items
\* back and the thread keeps them.
PutBackForgets(t) ==
    /\ hand' = [hand EXCEPT ![t] = {}]
    /\ pc' = [pc EXCEPT ![t] = AfterSend(t)]
    /\ UNCHANGED <<closed, buffer, timer, fresh, dropped, lost, late, returned>>

\* The except branch of _send_batch: the items go back in front of the buffer.
\* No timer is started for them.
PutBack(t) ==
    /\ buffer' = buffer \cup hand[t]
    /\ hand' = [hand EXCEPT ![t] = {}]
    /\ pc' = [pc EXCEPT ![t] = AfterSend(t)]
    /\ returned' = returned \cup hand[t]
    /\ UNCHANGED <<closed, timer, fresh, dropped, lost, late>>

\* send_task raises; the broker has nothing.
SendFails(t) ==
    /\ pc[t] = "sending"
    /\ PutBack(t)
    /\ UNCHANGED <<delivered, unconfirmed, redelivered>>

\* send_task raises after the broker took the batch (the reply was lost).
SendUnconfirmed(t) ==
    /\ pc[t] = "sending"
    /\ PutBack(t)
    /\ delivered' = delivered \cup hand[t]
    /\ unconfirmed' = unconfirmed \cup hand[t]
    /\ redelivered' = redelivered \cup (hand[t] \cap delivered)

\* close() sets `_closed`, without the lock.
Close ==
    /\ pc[main] = "idle"
    /\ closed' = TRUE
    /\ pc' = [pc EXCEPT ![main] = "closing"]
    /\ late' = Adding
    /\ UNCHANGED <<buffer, timer, hand, fresh, delivered, dropped, lost, returned,
                   unconfirmed, redelivered>>

\* Bugs the properties must catch: close() does not flush; it flushes by clearing.
CloseWithoutFlush ==
    /\ pc[main] = "closing"
    /\ pc' = [pc EXCEPT ![main] = "done"]
    /\ UNCHANGED <<closed, buffer, timer, hand, fresh, delivered, dropped, lost,
                   late, returned, unconfirmed, redelivered>>

CloseClears ==
    /\ pc[main] = "closing"
    /\ pc' = [pc EXCEPT ![main] = "done"]
    /\ buffer' = {}
    /\ UNCHANGED <<closed, timer, hand, fresh, delivered, dropped, lost, late,
                   returned, unconfirmed, redelivered>>

\* flush()'s lock block, inside close().
CloseFlush ==
    /\ pc[main] = "closing"
    /\ \/ /\ buffer = {}
          /\ pc' = [pc EXCEPT ![main] = "done"]
          /\ UNCHANGED <<buffer, timer, hand>>
       \/ /\ buffer # {}
          /\ TakeAll(main, buffer)
    /\ UNCHANGED <<closed, fresh, delivered, dropped, lost, late, returned,
                   unconfirmed, redelivered>>

\* The interpreter ends once the hook has returned and no caller is inside
\* add().  Timer threads are daemons: they stop where they are.
End ==
    /\ pc[main] = "done"
    /\ \A a \in Adders : pc[a] = "idle"
    /\ lost' = lost \cup buffer \cup InFlight
    /\ buffer' = {}
    /\ hand' = [t \in Threads |-> {}]
    /\ pc' = [t \in Threads |-> IF t = main THEN "ended" ELSE "idle"]
    /\ UNCHANGED <<closed, timer, fresh, delivered, dropped, late, returned,
                   unconfirmed, redelivered>>

\* Nothing happens after that.
Ended == pc[main] = "ended" /\ UNCHANGED vars

Add(a) == AppendFills(a) \/ AppendWaits(a)
Send(t) == SendOk(t) \/ SendFails(t) \/ SendUnconfirmed(t)

Next ==
    \/ \E a \in Adders : (\E i \in Items : AddCheck(a, i)) \/ Add(a)
    \/ \E t \in Timers : TimerFires(t) \/ OnTimer(t)
    \/ \E t \in Threads : Send(t)
    \/ Close
    \/ CloseFlush
    \/ End
    \/ Ended

Spec == Init /\ [][Next]_vars

\* A thread past its first step is scheduled again, a timer's interval ends and
\* send_task returns or raises.  Nobody has to emit, and nobody has to close.
Fairness ==
    /\ \A a \in Adders : WF_vars(Add(a))
    /\ \A t \in Timers : WF_vars(TimerFires(t) \/ OnTimer(t))
    /\ \A t \in Threads : WF_vars(Send(t))
    /\ WF_vars(CloseFlush)

FairSpec == Spec /\ Fairness
-----------------------------------------------------------------------------
\* Types, and what each point of a thread says about what the thread carries.
TypeOK ==
    /\ closed \in BOOLEAN
    /\ closed <=> pc[main] # "idle"
    /\ buffer \subseteq Items
    /\ timer \in Timers \cup {NoTimer}
    /\ DOMAIN pc = Threads
    /\ \A t \in Threads : pc[t] \in Points(t)
    /\ hand \in [Threads -> SUBSET Items]
    /\ \A t \in Threads : hand[t] # {} <=> pc[t] \in {"checked", "sending"}
    /\ \A t \in Threads : pc[t] = "checked" => \E i \in Items : hand[t] = {i}
    /\ fresh \subseteq Items
    /\ delivered \subseteq Items
    /\ dropped \subseteq Items
    /\ lost \subseteq Items
    /\ late \subseteq Items
    /\ returned \subseteq Items
    /\ unconfirmed \subseteq Items
    /\ redelivered \subseteq Items

Carried == UNION {hand[t] : t \in Threads}

\* However adds, timers, failed sends and close() interleave, no record is
\* forgotten and none is held in two places at once (a record in the buffer and
\* in a batch, or in two batches, would be sent twice).
Conservation ==
    /\ Items = fresh \cup buffer \cup Carried \cup delivered \cup dropped \cup lost
    /\ \A t, u \in Threads : t # u => hand[t] \cap hand[u] = {}
    /\ Carried \cap (fresh \cup buffer \cup dropped \cup lost) = {}
    /\ buffer \cap (fresh \cup dropped \cup lost) = {}
    /\ fresh \cap (delivered \cup dropped \cup lost) = {}
    /\ dropped \cap (delivered \cup lost) = {}

\* The broker gets a record a second time only after a send that raised although
\* the broker had taken the batch; no interleaving of the buffer itself does it.
DuplicateOnlyIfUnconfirmed == redelivered \subseteq unconfirmed

\* While the process serves, a record in the buffer has a timer thread that will
\* flush it, whatever timers were cancelled, raced or forgotten by `_timer`: the
\* one exception is a record a failed send put back, which waits for the next add.
TimerCovers ==
    pc[main] = "idle" /\ ~ buffer \subseteq returned =>
        \E t \in Timers : pc[t] \in {"pending", "fired"}

\* A record the buffer accepted is lost with the process for one of three reasons
\* only: a send of it failed, its add() had passed the `_closed` test when close()
\* ran, or a timer thread (a daemon) was still sending it.
LossCauses ==
    [][lost' \ lost \subseteq
        returned \cup late \cup UNION {hand[t] : t \in Timers}]_vars

\* A record accepted while the process serves reaches the broker, unless a send of
\* it fails or the process ends with a timer still sending it.
EventuallySent ==
    \A i \in Items :
        i \in buffer /\ pc[main] = "idle" ~> i \in delivered \cup returned \cup lost

\* The buffer implements EventDelivery: an item being added is still fresh, and
\* the pending items are those in the buffer or in a batch in flight.
Delivery == INSTANCE EventDelivery WITH
    fresh <- fresh \cup Adding,
    pending <- buffer \cup InFlight,
    refused <- dropped
DeliverySpec == Delivery!Spec
=============================================================================
