----------------------------- MODULE RouteLimits -----------------------------
(***************************************************************************)
(* The limits a request passes: the fixed-window counters (limiter/), kept *)
(* in Redis and shared by every replica, and the requests that check them, *)
(* call a model and charge them (limiting/).  Slots are the requests being *)
(* served at one time on all replicas.  Each slot serves one kind of       *)
(* request; Plan gives the order of the storage calls and of the model     *)
(* calls its handler makes (module RouteHandlers).                         *)
(*                                                                         *)
(* Every storage call and every model call is an await: the slots          *)
(* interleave between any two steps.  A check reads the counter and        *)
(* charges nothing, and the charge may come much later.                    *)
(***************************************************************************)
EXTENDS Integers, Sequences, FiniteSets, FiniteSetsExt

CONSTANTS
    Slots,          \* requests served concurrently
    Windows,        \* configured windows: a route, credential or project limit
    Plan,           \* the steps of each slot's handler
    Limit,          \* WindowConfig.limit of each window
    Percentages,    \* alert_threshold_percentages
    Usages,         \* what a model call may report, in the windows' units
    MaxAmount,      \* the largest amount charged at once
    LeastCheck,     \* the smallest cost a check of each window asks room for
    MaxSerial,      \* bound: how often each window is opened
    MaxBreaks,      \* bound: how often a charge or its events are cut off
    MaxAhead        \* bound: no request starts when more was charged unchecked

Checks == [op : {"check"}, win : Windows, costs : SUBSET (0..MaxAmount),
           soft : {FALSE}]
Charges == [op : {"charge"}, win : Windows, soft : BOOLEAN]
Calls == [op : {"call"}, bills : [Windows -> Nat], soft : BOOLEAN]

\* Every step of the requests served at one time.
AllSteps == UNION {{s} \X DOMAIN Plan[s] : s \in Slots}

ASSUME LimitsAssumption ==
    /\ IsFiniteSet(AllSteps)
    /\ MaxAmount \in Nat
    /\ Usages \subseteq 0..MaxAmount
    /\ Percentages \subseteq Nat \ {0}
    /\ Limit \in [Windows -> Nat \ {0}]
    /\ LeastCheck \in [Windows -> Nat]
    /\ \A w \in Windows : LeastCheck[w] <= Limit[w]
    /\ Plan \in [Slots -> Seq(Checks \cup Charges \cup Calls)]
    /\ \A s \in Slots : Plan[s] # <<>>
    /\ \A s \in Slots : \A i \in DOMAIN Plan[s] :
           Plan[s][i].op = "check" =>
               \A c \in Plan[s][i].costs : LeastCheck[Plan[s][i].win] <= c
    /\ MaxSerial \in Nat \ {0}
    /\ MaxBreaks \in Nat
    /\ MaxAhead \in Nat

VARIABLES
    pc,         \* each slot's next step; 0 when it serves no request
    amount,     \* what its last check estimated or its last call reported
    pending,    \* thresholds it crossed and has not emitted yet
    live,       \* windows whose key exists
    count,      \* the counter of each window, 0 when it has no key
    serial,     \* how often each window was opened: the current window_id
    emitted,    \* history: LIMIT_THRESHOLD events per window_id and percentage
    missed,     \* history: crossed thresholds whose event was lost
    spend,      \* history: what model calls billed while the window is current
    lost,       \* history: spend whose charge was never made
    ahead,      \* history: charged by requests that had not checked the window
    breaks

windowVars == <<live, count, serial>>
eventVars == <<emitted, missed>>
billVars == <<spend, lost, ahead, breaks>>
vars == <<pc, amount, pending, windowVars, eventVars, billVars>>

NoEvent == [win |-> {}, id |-> 0, pcts |-> {}]
Thresholds == Windows \X (1..MaxSerial) \X Percentages

Init ==
    /\ pc = [s \in Slots |-> 0]
    /\ amount = [s \in Slots |-> 0]
    /\ pending = [s \in Slots |-> NoEvent]
    /\ live = {}
    /\ count = [w \in Windows |-> 0]
    /\ serial = [w \in Windows |-> 0]
    /\ emitted = [t \in Thresholds |-> 0]
    /\ missed = {}
    /\ spend = [w \in Windows |-> 0]
    /\ lost = [w \in Windows |-> 0]
    /\ ahead = [w \in Windows |-> 0]
    /\ breaks = 0

Step(s) == Plan[s][pc[s]]
At(s, op) == pc[s] # 0 /\ pending[s] = NoEvent /\ Step(s).op = op
After(s) == IF pc[s] = Len(Plan[s]) THEN 0 ELSE pc[s] + 1

\* A failure at step i of a soft part: the handler goes on at step n, behind
\* the charges of that part.
GoesOnAt(s, i, n) ==
    /\ n \in i..Len(Plan[s])
    /\ ~(Plan[s][n].op = "charge" /\ Plan[s][n].soft)
    /\ \A j \in i..(n - 1) : Plan[s][j].op = "charge" /\ Plan[s][j].soft

Idle(s) == pc[s] = 0 /\ pending[s] = NoEvent

\* A request arrives; the slot's previous one has nothing left to do.
Start(s) ==
    /\ Idle(s)
    /\ \A w \in Windows : ahead[w] <= MaxAhead
    /\ pc' = [pc EXCEPT ![s] = 1]
    /\ UNCHANGED <<amount, pending, windowVars, eventVars, billVars>>

\* Mutant: a test that forgets the cost and compares with <=.
HasRoomIgnoringCost(w, cost) == count[w] <= Limit[w]

\* BaseFixedWindowLimiter.test: a missing window counts as empty.
HasRoom(w, cost) == count[w] + cost <= Limit[w]

CheckPasses(s) ==
    /\ At(s, "check")
    /\ \E cost \in Step(s).costs :
           /\ HasRoom(Step(s).win, cost)
           /\ amount' = [amount EXCEPT ![s] = cost]
    /\ pc' = [pc EXCEPT ![s] = After(s)]
    /\ UNCHANGED <<pending, windowVars, eventVars, billVars>>

\* The request is refused (HTTP 429): nothing is charged and what it charged
\* on other windows stays.
CheckFails(s) ==
    /\ At(s, "check")
    /\ \E cost \in Step(s).costs : ~HasRoom(Step(s).win, cost)
    /\ pc' = [pc EXCEPT ![s] = 0]
    /\ amount' = [amount EXCEPT ![s] = 0]
    /\ UNCHANGED <<pending, windowVars, eventVars, billVars>>

\* Mutants of the crossing test: a threshold the counter already stood on is
\* crossed again; a threshold reached exactly is not crossed.
CrossedAgain(w, old, new) ==
    {p \in Percentages : old * 100 <= p * Limit[w] /\ p * Limit[w] <= new * 100}
CrossedStrictly(w, old, new) ==
    {p \in Percentages : old * 100 < p * Limit[w] /\ p * Limit[w] < new * 100}

\* The percentages of the limit that a counter going from old to new crosses.
Crossed(w, old, new) ==
    {p \in Percentages : old * 100 < p * Limit[w] /\ p * Limit[w] <= new * 100}

\* The slot's request checked w before step i.
Checked(s, i, w) ==
    \E j \in 1..(i - 1) : Plan[s][j].op = "check" /\ Plan[s][j].win = w

\* Mutant: the charge writes what it adds to the counter it read.
ChargeOverwrites(s) ==
    /\ At(s, "charge")
    /\ LET w == Step(s).win
           id == IF w \in live THEN serial[w] ELSE serial[w] + 1
           crossed == Crossed(w, count[w], count[w] + amount[s])
       IN  /\ count' = [count EXCEPT ![w] = amount[s]]
           /\ serial' = [serial EXCEPT ![w] = id]
           /\ live' = live \cup {w}
           /\ pending' = IF crossed = {} THEN pending
                         ELSE [pending EXCEPT ![s] =
                                  [win |-> {w}, id |-> id, pcts |-> crossed]]
           /\ ahead' = IF Checked(s, pc[s], w) THEN ahead
                       ELSE [ahead EXCEPT ![w] = @ + amount[s]]
    /\ pc' = [pc EXCEPT ![s] = After(s)]
    /\ amount' = [amount EXCEPT ![s] = IF After(s) = 0 THEN 0 ELSE @]
    /\ UNCHANGED <<eventVars, spend, lost, breaks>>

\* Storage.increment: the first charge after an expiry opens a new window.
Charge(s) ==
    /\ At(s, "charge")
    /\ LET w == Step(s).win
           id == IF w \in live THEN serial[w] ELSE serial[w] + 1
           crossed == Crossed(w, count[w], count[w] + amount[s])
       IN  /\ count' = [count EXCEPT ![w] = @ + amount[s]]
           /\ serial' = [serial EXCEPT ![w] = id]
           /\ live' = live \cup {w}
           /\ pending' = IF crossed = {} THEN pending
                         ELSE [pending EXCEPT ![s] =
                                  [win |-> {w}, id |-> id, pcts |-> crossed]]
           /\ ahead' = IF Checked(s, pc[s], w) THEN ahead
                       ELSE [ahead EXCEPT ![w] = @ + amount[s]]
    /\ pc' = [pc EXCEPT ![s] = After(s)]
    /\ amount' = [amount EXCEPT ![s] = IF After(s) = 0 THEN 0 ELSE @]
    /\ UNCHANGED <<eventVars, spend, lost, breaks>>

\* The events of the crossed thresholds, after the await of get_window_stats.
EmitThresholds(s) ==
    /\ pending[s] # NoEvent
    /\ emitted' = [t \in Thresholds |->
                      IF /\ t[1] \in pending[s].win
                         /\ t[2] = pending[s].id
                         /\ t[3] \in pending[s].pcts
                      THEN emitted[t] + 1 ELSE emitted[t]]
    /\ pending' = [pending EXCEPT ![s] = NoEvent]
    /\ UNCHANGED <<pc, amount, windowVars, missed, billVars>>

\* The model (or a judge model) answers and reports its usage.
Call(s) ==
    /\ At(s, "call")
    /\ \E u \in Usages :
           /\ amount' = [amount EXCEPT ![s] = u]
           /\ spend' = [w \in Windows |-> spend[w] + u * Step(s).bills[w]]
    /\ pc' = [pc EXCEPT ![s] = After(s)]
    /\ UNCHANGED <<pending, windowVars, eventVars, lost, ahead, breaks>>

\* A guardrail blocks the request, the cache answers it, or every model of the
\* fallback chain fails: no model is billed.
EndsUncalled(s) ==
    /\ At(s, "call")
    /\ ~Step(s).soft
    /\ pc' = [pc EXCEPT ![s] = 0]
    /\ amount' = [amount EXCEPT ![s] = 0]
    /\ UNCHANGED <<pending, windowVars, eventVars, billVars>>

\* A call the handler can do without fails: a router's model, the second asking
\* of a WARN judge, the embedding for the semantic cache.
DoesWithout(s) ==
    /\ At(s, "call")
    /\ Step(s).soft
    /\ \E n \in 1..Len(Plan[s]) :
           GoesOnAt(s, pc[s] + 1, n) /\ pc' = [pc EXCEPT ![s] = n]
    /\ UNCHANGED <<amount, pending, windowVars, eventVars, billVars>>

\* How many charges on w a handler at step i still owes for its last call.
OwedAt(steps, i, w) ==
    Cardinality({k \in i..Len(steps) :
        /\ steps[k].op = "charge"
        /\ steps[k].win = w
        /\ \E j \in 1..(i - 1) : steps[j].op = "call"
        /\ \A j \in i..k : steps[j].op # "call"})
Owed ==
    [s \in Slots |-> [i \in DOMAIN Plan[s] |-> [w \in Windows |-> OwedAt(Plan[s], i, w)]]]

Owing(s, w) == IF pc[s] = 0 THEN 0 ELSE Owed[s][pc[s]][w]

\* What is lost when the slot's charges are cut off: the events of its last
\* charge, and the charges still owed for its last call.
CutsOff(s) ==
    /\ breaks < MaxBreaks
    /\ breaks' = breaks + 1
    /\ missed' = missed \cup {t \in Thresholds :
                     /\ t[1] \in pending[s].win
                     /\ t[2] = pending[s].id
                     /\ t[3] \in pending[s].pcts}
    /\ lost' = [w \in Windows |-> lost[w] + amount[s] * Owing(s, w)]
    /\ pending' = [pending EXCEPT ![s] = NoEvent]
    /\ UNCHANGED <<windowVars, emitted, spend, ahead>>

\* A storage call raises, or the client of a stream goes away before the usage
\* is counted: the charges and events still due are never made.
Breaks(s) ==
    /\ \/ pending[s] # NoEvent
       \/ At(s, "check")
       \/ At(s, "charge")
    /\ CutsOff(s)
    /\ pc' = [pc EXCEPT ![s] = 0]
    /\ amount' = [amount EXCEPT ![s] = 0]

\* A storage call of a soft charge raises: the rest of the part is skipped and
\* the request goes on.
Forgoes(s) ==
    /\ \/ At(s, "charge") /\ Step(s).soft
       \/ /\ pending[s] # NoEvent
          /\ pc[s] > 1
          /\ Plan[s][pc[s] - 1].soft
    /\ CutsOff(s)
    /\ \E n \in 1..Len(Plan[s]) :
           GoesOnAt(s, pc[s], n) /\ pc' = [pc EXCEPT ![s] = n]
    /\ UNCHANGED amount

\* The window's key expires, or clear_limit_counter deletes it.
WindowEnds(w) ==
    /\ w \in live
    /\ serial[w] < MaxSerial
    /\ live' = live \ {w}
    /\ count' = [count EXCEPT ![w] = 0]
    /\ spend' = [spend EXCEPT ![w] = 0]
    /\ lost' = [lost EXCEPT ![w] = 0]
    /\ ahead' = [ahead EXCEPT ![w] = 0]
    /\ UNCHANGED <<pc, amount, pending, serial, eventVars, breaks>>

\* MaxAhead is used up: the model, not the system, serves no more requests.
Exhausted ==
    /\ \A s \in Slots : Idle(s)
    /\ \E w \in Windows : ahead[w] > MaxAhead
    /\ UNCHANGED vars

RequestStep(s) ==
    \/ Start(s)
    \/ CheckPasses(s)
    \/ CheckFails(s)
    \/ Charge(s)
    \/ EmitThresholds(s)
    \/ Call(s)
    \/ EndsUncalled(s)
    \/ DoesWithout(s)
    \/ Breaks(s)
    \/ Forgoes(s)

Next ==
    \/ \E s \in Slots : RequestStep(s)
    \/ \E w \in Windows : WindowEnds(w)
    \/ Exhausted

Spec == Init /\ [][Next]_vars

-----------------------------------------------------------------------------
Events ==
    {NoEvent} \cup [win : {{w} : w \in Windows}, id : 1..MaxSerial,
                    pcts : SUBSET Percentages]

TypeOK ==
    /\ pc \in [Slots -> Nat]
    /\ \A s \in Slots : pc[s] <= Len(Plan[s])
    /\ amount \in [Slots -> 0..MaxAmount]
    /\ pending \in [Slots -> Events]
    /\ live \subseteq Windows
    /\ count \in [Windows -> Nat]
    /\ serial \in [Windows -> 0..MaxSerial]
    /\ \A w \in Windows \ live : count[w] = 0 /\ serial[w] < MaxSerial
    /\ \A w \in live : serial[w] > 0
    /\ emitted \in [Thresholds -> Nat]
    /\ missed \subseteq Thresholds
    /\ spend \in [Windows -> Nat]
    /\ lost \in [Windows -> Nat]
    /\ ahead \in [Windows -> Nat]
    /\ breaks \in 0..MaxBreaks

\* The charges on w that one request of each slot makes after it checked w.
ChargeSteps(w) ==
    {c \in AllSteps : LET step == Plan[c[1]][c[2]]
                      IN  /\ step.op = "charge" /\ step.win = w
                          /\ Checked(c[1], c[2], w)}

\* The check and the charge are two storage calls, so a window can go over its
\* limit.  Beside what was charged ahead of its own request's check (the
\* Responses handler routes and judges first), it never goes further than every
\* slot having passed the check with the counter at its highest and then
\* charging all its request charges.
Ceiling ==
    [w \in Windows |->
        Limit[w] - LeastCheck[w] + MaxAmount * Cardinality(ChargeSteps(w))]
OvershootBounded == \A w \in Windows : count[w] <= Ceiling[w] + ahead[w]

\* The requests that crossed threshold t and did not emit its event yet.
PendingFor(t) ==
    {s \in Slots : /\ pending[s].win = {t[1]}
                   /\ pending[s].id = t[2]
                   /\ t[3] \in pending[s].pcts}

\* However the charges of concurrent requests interleave, a threshold is
\* reported at most once per window_id (limit_event.crossed_percentages works on
\* the counter the atomic increment returned), ...
ThresholdOnce ==
    \A t \in Thresholds : emitted[t] + Cardinality(PendingFor(t)) <= 1

\* ... and one the counter of the current window has reached was reported, will
\* be, or was lost with the request that crossed it.
ThresholdReported ==
    \A w \in live, p \in Percentages :
        LET t == <<w, serial[w], p>>
        IN  p * Limit[w] <= count[w] * 100
                <=> emitted[t] > 0 \/ PendingFor(t) # {} \/ t \in missed

\* A handler that charges what a call billed before it checks or calls again.
ChargesInTime(steps, windows) ==
    \A i \in DOMAIN steps, w \in windows :
        /\ steps[i].op = "check" => OwedAt(steps, i, w) = 0
        /\ steps[i].op = "call" => steps[i].bills[w] <= OwedAt(steps, i + 1, w)

PlansInTime == \A s \in Slots : ChargesInTime(Plan[s], Windows)

Outstanding(w) == [s \in Slots |-> amount[s] * Owing(s, w)]

\* What the models billed on a window is on its counter, is still to be charged
\* by a running request, or belongs to a request that broke off: a limit is on
\* the spend, not only on what happens to be counted.
SpendAccounted ==
    \A w \in Windows : spend[w] <= count[w] + lost[w] + SumFunction(Outstanding(w))
=============================================================================
