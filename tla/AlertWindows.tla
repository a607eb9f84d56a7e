---------------------------- MODULE AlertWindows ----------------------------
(***************************************************************************)
(* The alerts that are sent once per window (alerting/): the dispatcher    *)
(* threads that handle an event for every rule watching it, and the        *)
(* scheduler of each replica that closes the tumbling windows.  They share *)
(* the alert store (Redis): counters, the set of open windows, and claims. *)
(* Every store, database and mail call is a step of its own.               *)
(*                                                                         *)
(* A window is a rule and a number.  For a window rule the number is where *)
(* the tumbling window starts; for a limit rule it is the limiter's        *)
(* window_id, which is the time it was opened.  Time counts the tumbling   *)
(* windows.  Keys expire long after their window: expiry is not modelled.  *)
(***************************************************************************)
EXTENDS Naturals, FiniteSets

CONSTANTS
    WindowRules,    \* rules with time aggregation `window` on one event
    LimitRules,     \* rules with `limit_window` on the same event
    Dispatchers,    \* threads of the alert executors
    Schedulers,     \* one per replica
    MaxTime,        \* bound: tumbling windows
    MaxEvents,      \* bound: events dispatched
    MaxFailures     \* bound: store and database calls that raise

Rules == WindowRules \cup LimitRules
Procs == Dispatchers \cup Schedulers
Windows == Rules \X (0..MaxTime)
Tumbling == WindowRules \X (0..MaxTime)

ASSUME AlertAssumption ==
    /\ WindowRules \cap LimitRules = {}
    /\ Dispatchers \cap Schedulers = {}
    /\ MaxTime \in Nat /\ MaxEvents \in Nat /\ MaxFailures \in Nat

VARIABLES
    now,
    enabled,        \* rules that exist and are enabled
    counter,        \* counter_key of each window, 0 when absent
    open,           \* alert:windows:open
    claimed,        \* closed_key and the limit claims
    pc,             \* where each thread is
    win,            \* the window each thread works on
    left,           \* rules a dispatcher, windows a scheduler still has to handle
    count,          \* what a scheduler took from the counter
    alerts,         \* history: alerts recorded, sent by mail or failed
    reported,       \* history: the events the alerts of a window count
    counted,        \* history: events counted in a window
    broken,         \* history: windows with a call that raised
    events,
    failures

storeVars == <<counter, open, claimed>>
procVars == <<pc, win, left, count>>
historyVars == <<alerts, reported, counted, broken, events, failures>>
vars == <<now, enabled, storeVars, procVars, historyVars>>

NoWindow == <<>>

Init ==
    /\ now = 0
    /\ enabled = Rules
    /\ counter = [w \in Windows |-> 0]
    /\ open = {}
    /\ claimed = {}
    /\ pc = [p \in Procs |-> "idle"]
    /\ win = [p \in Procs |-> NoWindow]
    /\ left = [p \in Procs |-> {}]
    /\ count = [p \in Procs |-> 0]
    /\ alerts = [w \in Windows |-> 0]
    /\ reported = [w \in Windows |-> 0]
    /\ counted = [w \in Windows |-> 0]
    /\ broken = {}
    /\ events = 0
    /\ failures = 0

\* Thread p goes on at point `to`, with window w.
Goes(p, to, w) ==
    /\ pc' = [pc EXCEPT ![p] = to]
    /\ win' = [win EXCEPT ![p] = w]

\* Thread p is done with its window: on to the loop over what is left.
Continues(p) == Goes(p, IF left[p] = {} THEN "idle" ELSE "loop", NoWindow)

TimePasses ==
    /\ now < MaxTime
    /\ now' = now + 1
    /\ UNCHANGED <<enabled, storeVars, procVars, historyVars>>

\* A rule is disabled, deleted, or moved to another window size.
RuleChanges(r) ==
    /\ r \in enabled
    /\ enabled' = enabled \ {r}
    /\ UNCHANGED <<now, storeVars, procVars, historyVars>>
-----------------------------------------------------------------------------
\* dispatch(): the rules watching the event are read from the database.
Dispatch(d) ==
    /\ pc[d] = "idle"
    /\ events < MaxEvents
    /\ events' = events + 1
    /\ enabled # {}
    /\ left' = [left EXCEPT ![d] = enabled]
    /\ Goes(d, "loop", NoWindow)
    /\ UNCHANGED <<now, enabled, storeVars, count, alerts, reported, counted, broken,
                   failures>>

\* The next rule's handler starts.  _count_in_window reads the clock; the limit's
\* event carries a window_id, which may have ended since.
HandleRule(d) ==
    /\ d \in Dispatchers
    /\ pc[d] = "loop"
    /\ \E r \in left[d] :
          /\ left' = [left EXCEPT ![d] = @ \ {r}]
          /\ \/ r \in WindowRules /\ Goes(d, "count", <<r, now>>)
             \/ r \in LimitRules /\ \E id \in 0..now : Goes(d, "limit", <<r, id>>)
    /\ UNCHANGED <<now, enabled, storeVars, count, historyVars>>

\* store.increment
Counts(d) ==
    /\ pc[d] = "count"
    /\ counter' = [counter EXCEPT ![win[d]] = @ + 1]
    /\ counted' = [counted EXCEPT ![win[d]] = @ + 1]
    /\ pc' = [pc EXCEPT ![d] = "register"]
    /\ UNCHANGED <<now, enabled, open, claimed, win, left, count, alerts, reported,
                   broken, events, failures>>

\* Mutant: only the event that finds the counter at one opens the window.
RegistersFirst(d) ==
    /\ pc[d] = "register"
    /\ open' = IF counter[win[d]] = 1 THEN open \cup {win[d]} ELSE open
    /\ Continues(d)
    /\ UNCHANGED <<now, enabled, counter, claimed, left, count, historyVars>>

\* store.open_window
Registers(d) ==
    /\ pc[d] = "register"
    /\ open' = open \cup {win[d]}
    /\ Continues(d)
    /\ UNCHANGED <<now, enabled, counter, claimed, left, count, historyVars>>

\* _send_once_per_limit_window up to its claim.
ClaimsLimit(d) ==
    /\ pc[d] = "limit"
    /\ claimed' = claimed \cup {win[d]}
    /\ IF win[d] \in claimed THEN Continues(d) ELSE Goes(d, "send", win[d])
    /\ UNCHANGED <<now, enabled, counter, open, left, count, historyVars>>
-----------------------------------------------------------------------------
\* Where the window ends, in numbers of tumbling windows.
End(w) == w[2] + 1

\* A tick: the due windows are read.
Tick(s) ==
    /\ pc[s] = "idle"
    /\ LET due == {w \in open : End(w) <= now}
       IN  /\ due # {}
           /\ left' = [left EXCEPT ![s] = due]
    /\ Goes(s, "loop", NoWindow)
    /\ UNCHANGED <<now, enabled, storeVars, count, historyVars>>

\* store.close_window: the window leaves the open ones, whoever removed it.
Unregisters(s) ==
    /\ s \in Schedulers
    /\ pc[s] = "loop"
    /\ \E w \in left[s] :
          /\ left' = [left EXCEPT ![s] = @ \ {w}]
          /\ open' = open \ {w}
          /\ Goes(s, "claim", w)
    /\ UNCHANGED <<now, enabled, counter, claimed, count, historyVars>>

\* Mutant: having unregistered the window is taken for the claim.
ClaimsByRemoval(s) ==
    /\ pc[s] = "claim"
    /\ claimed' = claimed \cup {win[s]}
    /\ Goes(s, "take", win[s])
    /\ UNCHANGED <<now, enabled, counter, open, left, count, historyVars>>

\* store.claim(closed_key): one scheduler goes on, the others drop the window.
Claims(s) ==
    /\ pc[s] = "claim"
    /\ claimed' = claimed \cup {win[s]}
    /\ IF win[s] \in claimed THEN Continues(s) ELSE Goes(s, "take", win[s])
    /\ UNCHANGED <<now, enabled, counter, open, left, count, historyVars>>

\* Mutant: the counter is read, not taken.
TakesCopy(s) ==
    /\ pc[s] = "take"
    /\ count' = [count EXCEPT ![s] = counter[win[s]]]
    /\ IF counter[win[s]] = 0 THEN Continues(s) ELSE Goes(s, "lookup", win[s])
    /\ UNCHANGED <<now, enabled, storeVars, left, historyVars>>

\* store.take
Takes(s) ==
    /\ pc[s] = "take"
    /\ count' = [count EXCEPT ![s] = counter[win[s]]]
    /\ counter' = [counter EXCEPT ![win[s]] = 0]
    /\ IF counter[win[s]] = 0 THEN Continues(s) ELSE Goes(s, "lookup", win[s])
    /\ UNCHANGED <<now, enabled, open, claimed, left, historyVars>>

\* The rule is read again: gone, disabled or changed, the window is dropped.
LooksUp(s) ==
    /\ pc[s] = "lookup"
    /\ IF win[s][1] \in enabled THEN Goes(s, "send", win[s]) ELSE Continues(s)
    /\ UNCHANGED <<now, enabled, storeVars, left, count, historyVars>>

\* _send: the mail goes out or fails; either way the alert is recorded, once.
Sends(p) ==
    /\ pc[p] = "send"
    /\ alerts' = [alerts EXCEPT ![win[p]] = @ + 1]
    /\ reported' = [reported EXCEPT
                       ![win[p]] = @ + IF p \in Schedulers THEN count[p] ELSE 1]
    /\ Continues(p)
    /\ UNCHANGED <<now, enabled, storeVars, left, count, counted, broken, events,
                   failures>>
-----------------------------------------------------------------------------
\* A call raises, done or not (its reply may be what was lost).  In a dispatcher
\* the event's other rules are skipped.
DispatchFails(d) ==
    /\ d \in Dispatchers
    /\ \/ /\ pc[d] = "count"
          /\ \E n \in {0, 1} :
                /\ counter' = [counter EXCEPT ![win[d]] = @ + n]
                /\ counted' = [counted EXCEPT ![win[d]] = @ + n]
          /\ UNCHANGED <<open, claimed>>
       \/ /\ pc[d] = "register"
          /\ open' \in {open, open \cup {win[d]}}
          /\ UNCHANGED <<counter, counted, claimed>>
       \/ /\ pc[d] = "limit"
          /\ claimed' \in {claimed, claimed \cup {win[d]}}
          /\ UNCHANGED <<counter, counted, open>>
    /\ broken' = broken \cup {win[d]}
    /\ left' = [left EXCEPT ![d] = {}]
    /\ Goes(d, "idle", NoWindow)

\* close_window is outside the try: the tick ends.
UnregisterFails(s) ==
    /\ s \in Schedulers
    /\ pc[s] = "loop"
    /\ \E w \in left[s] :
          /\ open' \in {open, open \ {w}}
          /\ broken' = broken \cup {w}
    /\ left' = [left EXCEPT ![s] = {}]
    /\ Goes(s, "idle", NoWindow)
    /\ UNCHANGED <<counter, counted, claimed>>

\* Inside the try the next window follows.
CloseFails(s) ==
    /\ s \in Schedulers
    /\ \/ /\ pc[s] = "claim"
          /\ claimed' \in {claimed, claimed \cup {win[s]}}
          /\ UNCHANGED counter
       \/ /\ pc[s] = "take"
          /\ counter' \in {counter, [counter EXCEPT ![win[s]] = 0]}
          /\ UNCHANGED claimed
       \/ /\ pc[s] = "lookup"
          /\ UNCHANGED <<counter, claimed>>
    /\ broken' = broken \cup {win[s]}
    /\ Continues(s)
    /\ UNCHANGED <<open, left, counted>>

Fails(p) ==
    /\ failures < MaxFailures
    /\ failures' = failures + 1
    /\ DispatchFails(p) \/ UnregisterFails(p) \/ CloseFails(p)
    /\ UNCHANGED <<now, enabled, count, alerts, reported, events>>

DispatcherStep(d) ==
    HandleRule(d) \/ Counts(d) \/ Registers(d) \/ ClaimsLimit(d) \/ Sends(d)
SchedulerStep(s) ==
    Tick(s) \/ Unregisters(s) \/ Claims(s) \/ Takes(s) \/ LooksUp(s) \/ Sends(s)

\* Between events and ticks every thread waits.
Waits == (\A p \in Procs : pc[p] = "idle") /\ UNCHANGED vars

Next ==
    \/ TimePasses
    \/ \E r \in Rules : RuleChanges(r)
    \/ \E d \in Dispatchers : Dispatch(d) \/ DispatcherStep(d)
    \/ \E s \in Schedulers : SchedulerStep(s)
    \/ \E p \in Procs : Fails(p)
    \/ Waits

Spec == Init /\ [][Next]_vars

\* The scheduler ticks for the gateway's lifetime and a thread goes on with what
\* it began; nobody has to emit an event.
Fairness ==
    /\ \A d \in Dispatchers : WF_vars(DispatcherStep(d))
    /\ \A s \in Schedulers : WF_vars(SchedulerStep(s))

FairSpec == Spec /\ Fairness
-----------------------------------------------------------------------------
Points == {"idle", "loop", "count", "register", "limit", "send", "claim", "take",
           "lookup"}

\* A dispatcher counts and registers tumbling windows and alerts limit windows; a
\* scheduler closes and alerts tumbling ones.
ThreadOK(p) ==
    /\ pc[p] \in Points
    /\ IF pc[p] \in {"idle", "loop"} THEN win[p] = NoWindow ELSE win[p] \in Windows
    /\ p \in Dispatchers => pc[p] \notin {"claim", "take", "lookup"}
    /\ p \in Schedulers => pc[p] \notin {"count", "register", "limit"}
    /\ pc[p] \in {"count", "register", "claim", "take", "lookup"} => win[p] \in Tumbling
    /\ pc[p] = "limit" => win[p] \notin Tumbling
    /\ pc[p] = "send" => (p \in Schedulers <=> win[p] \in Tumbling)

ThreadsOK ==
    /\ pc \in [Procs -> Points]
    /\ DOMAIN win = Procs
    /\ \A p \in Procs : ThreadOK(p)
    /\ left \in [Procs -> SUBSET (Rules \cup Tumbling)]
    /\ \A d \in Dispatchers : left[d] \subseteq Rules
    /\ \A s \in Schedulers : left[s] \subseteq Tumbling
    /\ count \in [Procs -> Nat]

StoreOK ==
    /\ now \in 0..MaxTime
    /\ enabled \subseteq Rules
    /\ counter \in [Windows -> Nat]
    /\ open \subseteq Tumbling
    /\ claimed \subseteq Windows
    /\ alerts \in [Windows -> Nat]
    /\ reported \in [Windows -> Nat]
    /\ counted \in [Windows -> Nat]
    /\ broken \subseteq Windows
    /\ events \in 0..MaxEvents
    /\ failures \in 0..MaxFailures

\* Types, and what each point says about the window a thread works on.
TypeOK == ThreadsOK /\ StoreOK

\* Whatever replicas read the same due windows, whatever late events register a
\* window again and whatever fails, a window has at most one alert.
AlertOnce == \A w \in Windows : alerts[w] <= 1

\* An alert reports every event counted in its window, except those counted after
\* the counter was taken: nothing is reported twice or left out.
AlertCountsEvents ==
    \A w \in Tumbling :
        alerts[w] = 1 => reported[w] + counter[w] = counted[w]

\* The claim, which is the window's only one, is never spent on an empty counter.
ClaimNotWasted ==
    \A s \in Schedulers : pc[s] = "take" => counter[win[s]] > 0

\* A window with events and no claim is registered, or a thread is about to
\* register or to claim it, or a call about it raised.
WindowCovered ==
    \A w \in Tumbling :
        counter[w] > 0 /\ w \notin claimed =>
            \/ w \in open
            \/ w \in broken
            \/ \E p \in Procs : win[p] = w /\ pc[p] \in {"register", "claim"}

\* A closed window with events gets its alert while its rule stays as it is,
\* unless a call about it raised.
WindowAlerted ==
    \A w \in Tumbling :
        counter[w] > 0 /\ w \notin claimed /\ End(w) <= now ~>
            alerts[w] = 1 \/ w[1] \notin enabled \/ w \in broken

=============================================================================
