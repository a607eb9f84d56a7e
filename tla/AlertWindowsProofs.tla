-------------------------- MODULE AlertWindowsProofs --------------------------
(* Safety of AlertWindows for any number of replicas, dispatcher threads,     *)
(* rules, windows and failing calls.                                          *)
EXTENDS AlertWindows, TLAPS

\* Thread p moved, every other thread stayed.
LEMMA GoesAt ==
    ASSUME ThreadsOK, NEW p \in Procs, NEW to \in Points, NEW w, Goes(p, to, w)
    PROVE  /\ pc'[p] = to /\ win'[p] = w
           /\ \A q \in Procs : q # p => pc'[q] = pc[q] /\ win'[q] = win[q]
           /\ pc' \in [Procs -> Points] /\ DOMAIN win' = Procs
  BY DEF Goes, ThreadsOK

LEMMA ContinuesAt ==
    ASSUME ThreadsOK, NEW p \in Procs, Continues(p)
    PROVE  /\ pc'[p] \in {"idle", "loop"} /\ win'[p] = NoWindow
           /\ \A q \in Procs : q # p => pc'[q] = pc[q] /\ win'[q] = win[q]
           /\ pc' \in [Procs -> Points] /\ DOMAIN win' = Procs
  BY GoesAt DEF Continues, Points

\* A thread that moves keeps ThreadsOK if it arrives as ThreadOK asks.
LEMMA MoveOK ==
    ASSUME ThreadsOK, NEW p \in Procs,
           pc' \in [Procs -> Points], DOMAIN win' = Procs,
           \A q \in Procs : q # p => pc'[q] = pc[q] /\ win'[q] = win[q],
           ThreadOK(p)',
           left' \in [Procs -> SUBSET (Rules \cup Tumbling)],
           \A d \in Dispatchers : left'[d] \subseteq Rules,
           \A s \in Schedulers : left'[s] \subseteq Tumbling,
           count' \in [Procs -> Nat]
    PROVE  ThreadsOK'
<1>1. ASSUME NEW q \in Procs PROVE ThreadOK(q)'
  <2>1. CASE q = p
    BY <2>1
  <2>2. CASE q # p
    BY <2>2 DEF ThreadsOK, ThreadOK
  <2> QED
    BY <2>1, <2>2
<1> QED
  BY <1>1 DEF ThreadsOK

\* The same for a thread that is done with its window and leaves `left` alone.
LEMMA ContinueOK ==
    ASSUME ThreadsOK, NEW p \in Procs, Continues(p), UNCHANGED left,
           count' \in [Procs -> Nat]
    PROVE  ThreadsOK'
<1>1. ThreadOK(p)'
  BY ContinuesAt DEF ThreadOK, Points
<1> QED
  BY <1>1, ContinuesAt, MoveOK DEF ThreadsOK

LEMMA WindowType ==
    /\ \A w \in Tumbling : w \in Windows /\ w[1] \in WindowRules
    /\ \A r \in WindowRules, n \in 0..MaxTime : <<r, n>> \in Tumbling
    /\ \A r \in LimitRules, n \in 0..MaxTime :
           <<r, n>> \in Windows /\ <<r, n>> \notin Tumbling
  BY AlertAssumption DEF Tumbling, Windows, Rules

LEMMA InitTypeOK == Init => TypeOK
<1> SUFFICES ASSUME Init PROVE TypeOK
  OBVIOUS
<1>1. StoreOK
  BY AlertAssumption DEF Init, StoreOK
<1>2. \A p \in Procs : ThreadOK(p)
  BY DEF Init, ThreadOK, Points
<1>3. pc \in [Procs -> Points]
  BY DEF Init, Points
<1>4. DOMAIN win = Procs /\ left = [p \in Procs |-> {}] /\ count \in [Procs -> Nat]
  BY DEF Init
<1>5. /\ left \in [Procs -> SUBSET (Rules \cup Tumbling)]
      /\ \A d \in Dispatchers : left[d] = {}
      /\ \A s \in Schedulers : left[s] = {}
  BY <1>4 DEF Procs
<1> QED
  BY <1>1, <1>2, <1>3, <1>4, <1>5 DEF TypeOK, ThreadsOK

LEMMA NextTypeOK == TypeOK /\ [Next]_vars => TypeOK'
<1> SUFFICES ASSUME TypeOK, [Next]_vars PROVE TypeOK'
  OBVIOUS
<1>0. ThreadsOK /\ StoreOK
  BY DEF TypeOK
<1> USE AlertAssumption
<1>1. CASE TimePasses
  BY <1>0, <1>1 DEF TimePasses, TypeOK, ThreadsOK, StoreOK, ThreadOK, storeVars,
     procVars, historyVars
<1>2. ASSUME NEW r \in Rules, RuleChanges(r) PROVE TypeOK'
  BY <1>0, <1>2 DEF RuleChanges, TypeOK, ThreadsOK, StoreOK, ThreadOK, storeVars,
     procVars, historyVars
<1>3. ASSUME NEW d \in Dispatchers, Dispatch(d) PROVE TypeOK'
  <2>1. d \in Procs /\ Goes(d, "loop", NoWindow) /\ left' = [left EXCEPT ![d] = enabled]
    BY <1>3 DEF Dispatch, Procs
  <2>2. ThreadOK(d)'
    BY <1>0, <2>1, GoesAt DEF ThreadOK, Points
  <2>3. left' \in [Procs -> SUBSET (Rules \cup Tumbling)]
    BY <1>0, <2>1 DEF ThreadsOK, StoreOK
  <2>4. ThreadsOK'
    <3>1. /\ \A x \in Dispatchers : left'[x] \subseteq Rules
          /\ \A x \in Schedulers : left'[x] \subseteq Tumbling
      BY <1>0, <2>1 DEF ThreadsOK, StoreOK, Procs
    <3>2. count' = count /\ "loop" \in Points
      BY <1>3 DEF Dispatch, Points
    <3>3. count' \in [Procs -> Nat]
      BY <1>0, <3>2 DEF ThreadsOK
    <3> QED
      BY <1>0, <2>1, <2>2, <2>3, <3>1, <3>2, <3>3, GoesAt, MoveOK
  <2> QED
    BY <1>0, <1>3, <2>4 DEF Dispatch, TypeOK, StoreOK, storeVars
<1>4. ASSUME NEW d \in Dispatchers, HandleRule(d) PROVE TypeOK'
  <2>1. PICK r \in left[d] :
          /\ left' = [left EXCEPT ![d] = @ \ {r}]
          /\ \/ r \in WindowRules /\ Goes(d, "count", <<r, now>>)
             \/ r \in LimitRules /\ \E id \in 0..now : Goes(d, "limit", <<r, id>>)
    BY <1>4 DEF HandleRule
  <2>2. d \in Procs /\ left' \in [Procs -> SUBSET (Rules \cup Tumbling)]
        /\ \A e \in Dispatchers : left'[e] \subseteq Rules
        /\ \A s \in Schedulers : left'[s] \subseteq Tumbling
    BY <1>0, <2>1 DEF ThreadsOK, Procs
  <2>3. CASE r \in WindowRules /\ Goes(d, "count", <<r, now>>)
    <3>1. <<r, now>> \in Tumbling /\ <<r, now>> \in Windows
      BY <1>0, <2>3, WindowType DEF StoreOK
    <3>2. ThreadOK(d)'
      BY <1>0, <2>2, <2>3, <3>1, GoesAt DEF ThreadOK, Points
    <3> QED
      BY <1>0, <1>4, <2>2, <2>3, <3>2, GoesAt, MoveOK
         DEF HandleRule, TypeOK, ThreadsOK, StoreOK, Points, storeVars, historyVars
  <2>4. CASE r \in LimitRules /\ \E id \in 0..now : Goes(d, "limit", <<r, id>>)
    <3>1. PICK id \in 0..now : Goes(d, "limit", <<r, id>>)
      BY <2>4
    <3>2. <<r, id>> \notin Tumbling /\ <<r, id>> \in Windows
      BY <1>0, <2>4, WindowType DEF StoreOK
    <3>3. ThreadOK(d)'
      BY <1>0, <2>2, <3>1, <3>2, GoesAt DEF ThreadOK, Points
    <3> QED
      BY <1>0, <1>4, <2>2, <3>1, <3>3, GoesAt, MoveOK
         DEF HandleRule, TypeOK, ThreadsOK, StoreOK, Points, storeVars, historyVars
  <2> QED
    BY <2>1, <2>3, <2>4
<1>5. ASSUME NEW d \in Dispatchers, Counts(d) PROVE TypeOK'
  <2>1. d \in Procs /\ win[d] \in Windows /\ win[d] \in Tumbling
    BY <1>0, <1>5 DEF Counts, ThreadsOK, ThreadOK, Procs
  <2>2. StoreOK'
    <3>1. counter' \in [Windows -> Nat] /\ counted' \in [Windows -> Nat]
      BY <1>0, <1>5, <2>1 DEF Counts, StoreOK
    <3> QED
      BY <1>0, <1>5, <3>1 DEF Counts, StoreOK
  <2>3. /\ pc'[d] = "register" /\ pc' \in [Procs -> Points]
        /\ \A q \in Procs : q # d => pc'[q] = pc[q]
        /\ win' = win /\ left' = left /\ count' = count
    BY <1>0, <1>5, <2>1 DEF Counts, ThreadsOK, Points
  <2>4. ThreadOK(d)'
    <3>1. win'[d] = win[d] /\ d \notin Schedulers
      BY <2>3
    <3> QED
      BY <2>1, <2>3, <3>1 DEF ThreadOK, Points
  <2>5. ThreadsOK'
    BY <1>0, <2>1, <2>3, <2>4, MoveOK DEF ThreadsOK
  <2> QED
    BY <2>2, <2>5 DEF TypeOK
<1>6. ASSUME NEW d \in Dispatchers, Registers(d) PROVE TypeOK'
  <2>1. d \in Procs /\ win[d] \in Tumbling
    BY <1>0, <1>6 DEF Registers, ThreadsOK, ThreadOK, Procs
  <2>2. StoreOK'
    BY <1>0, <1>6, <2>1 DEF Registers, StoreOK, historyVars
  <2> QED
    BY <1>0, <1>6, <2>1, <2>2, ContinueOK DEF Registers, TypeOK, ThreadsOK
<1>7. ASSUME NEW d \in Dispatchers, ClaimsLimit(d) PROVE TypeOK'
  <2>1. d \in Procs /\ win[d] \in Windows /\ win[d] \notin Tumbling /\ d \notin Schedulers
    BY <1>0, <1>7 DEF ClaimsLimit, ThreadsOK, ThreadOK, Procs
  <2>2. StoreOK'
    BY <1>0, <1>7, <2>1 DEF ClaimsLimit, StoreOK, historyVars
  <2>3. CASE Continues(d)
    BY <1>0, <1>7, <2>1, <2>2, <2>3, ContinueOK DEF ClaimsLimit, TypeOK, ThreadsOK
  <2>4. CASE Goes(d, "send", win[d])
    <3>1. ThreadOK(d)'
      BY <1>0, <2>1, <2>4, GoesAt DEF ThreadOK, Points
    <3> QED
      BY <1>0, <1>7, <2>1, <2>2, <2>4, <3>1, GoesAt, MoveOK
         DEF ClaimsLimit, TypeOK, ThreadsOK, Points
  <2> QED
    BY <1>7, <2>3, <2>4 DEF ClaimsLimit
<1>8. ASSUME NEW s \in Schedulers, Tick(s) PROVE TypeOK'
  <2>1. s \in Procs /\ Goes(s, "loop", NoWindow)
        /\ left' \in [Procs -> SUBSET (Rules \cup Tumbling)]
        /\ \A e \in Dispatchers : left'[e] \subseteq Rules
        /\ \A q \in Schedulers : left'[q] \subseteq Tumbling
    BY <1>0, <1>8 DEF Tick, Procs, ThreadsOK, StoreOK
  <2>2. ThreadOK(s)'
    BY <1>0, <2>1, GoesAt DEF ThreadOK, Points
  <2> QED
    BY <1>0, <1>8, <2>1, <2>2, GoesAt, MoveOK
       DEF Tick, TypeOK, ThreadsOK, StoreOK, Points, storeVars, historyVars
<1>9. ASSUME NEW s \in Schedulers, Unregisters(s) PROVE TypeOK'
  <2>1. PICK w \in left[s] :
          /\ left' = [left EXCEPT ![s] = @ \ {w}]
          /\ open' = open \ {w}
          /\ Goes(s, "claim", w)
    BY <1>9 DEF Unregisters
  <2>2. s \in Procs /\ left' \in [Procs -> SUBSET (Rules \cup Tumbling)]
        /\ \A e \in Dispatchers : left'[e] \subseteq Rules
        /\ \A q \in Schedulers : left'[q] \subseteq Tumbling
    BY <1>0, <2>1 DEF ThreadsOK, Procs
  <2>3. ThreadOK(s)'
    <3>1. w \in Tumbling
      BY <1>0 DEF ThreadsOK
    <3>2. w \in Windows
      BY <3>1, WindowType
    <3>3. s \notin Dispatchers
      OBVIOUS
    <3>4. pc'[s] = "claim" /\ win'[s] = w
      BY <1>0, <2>1, <2>2, GoesAt DEF Points
    <3>5. win'[s] \in Windows /\ win'[s] \in Tumbling
      BY <3>1, <3>2, <3>4, Zenon
    <3> QED
      BY <3>3, <3>4, <3>5 DEF ThreadOK, Points
  <2>4. ThreadsOK'
    BY <1>0, <1>9, <2>1, <2>2, <2>3, GoesAt, MoveOK
       DEF Unregisters, ThreadsOK, Points
  <2> QED
    BY <1>0, <1>9, <2>1, <2>4 DEF Unregisters, TypeOK, StoreOK, historyVars
<1>10. ASSUME NEW s \in Schedulers, Claims(s) PROVE TypeOK'
  <2>1. s \in Procs /\ win[s] \in Windows /\ win[s] \in Tumbling /\ s \notin Dispatchers
    BY <1>0, <1>10 DEF Claims, ThreadsOK, ThreadOK, Procs
  <2>2. StoreOK'
    BY <1>0, <1>10, <2>1 DEF Claims, StoreOK, historyVars
  <2>3. CASE Continues(s)
    BY <1>0, <1>10, <2>1, <2>2, <2>3, ContinueOK DEF Claims, TypeOK, ThreadsOK
  <2>4. CASE Goes(s, "take", win[s])
    <3>1. ThreadOK(s)'
      BY <1>0, <2>1, <2>4, GoesAt DEF ThreadOK, Points
    <3> QED
      BY <1>0, <1>10, <2>1, <2>2, <2>4, <3>1, GoesAt, MoveOK
         DEF Claims, TypeOK, ThreadsOK, Points
  <2> QED
    BY <1>10, <2>3, <2>4 DEF Claims
<1>11. ASSUME NEW s \in Schedulers, Takes(s) PROVE TypeOK'
  <2>1. s \in Procs /\ win[s] \in Windows /\ win[s] \in Tumbling /\ s \notin Dispatchers
    BY <1>0, <1>11 DEF Takes, ThreadsOK, ThreadOK, Procs
  <2>2. StoreOK' /\ count' \in [Procs -> Nat]
    BY <1>0, <1>11, <2>1 DEF Takes, ThreadsOK, StoreOK, historyVars
  <2>3. CASE Continues(s)
    BY <1>0, <1>11, <2>1, <2>2, <2>3, ContinueOK DEF Takes, TypeOK
  <2>4. CASE Goes(s, "lookup", win[s])
    <3>1. ThreadOK(s)'
      BY <1>0, <2>1, <2>4, GoesAt DEF ThreadOK, Points
    <3> QED
      BY <1>0, <1>11, <2>1, <2>2, <2>4, <3>1, GoesAt, MoveOK
         DEF Takes, TypeOK, ThreadsOK, Points
  <2> QED
    BY <1>11, <2>3, <2>4 DEF Takes
<1>12. ASSUME NEW s \in Schedulers, LooksUp(s) PROVE TypeOK'
  <2>1. s \in Procs /\ win[s] \in Windows /\ win[s] \in Tumbling /\ s \notin Dispatchers
    BY <1>0, <1>12 DEF LooksUp, ThreadsOK, ThreadOK, Procs
  <2>2. StoreOK'
    BY <1>0, <1>12 DEF LooksUp, StoreOK, storeVars, historyVars
  <2>3. CASE Continues(s)
    BY <1>0, <1>12, <2>1, <2>2, <2>3, ContinueOK DEF LooksUp, TypeOK, ThreadsOK
  <2>4. CASE Goes(s, "send", win[s])
    <3>1. ThreadOK(s)'
      BY <1>0, <2>1, <2>4, GoesAt DEF ThreadOK, Points
    <3> QED
      BY <1>0, <1>12, <2>1, <2>2, <2>4, <3>1, GoesAt, MoveOK
         DEF LooksUp, TypeOK, ThreadsOK, Points
  <2> QED
    BY <1>12, <2>3, <2>4 DEF LooksUp
<1>13. ASSUME NEW p \in Procs, Sends(p) PROVE TypeOK'
  <2>1. win[p] \in Windows /\ count[p] \in Nat
    BY <1>0, <1>13 DEF Sends, ThreadsOK, ThreadOK
  <2>2. StoreOK'
    BY <1>0, <1>13, <2>1 DEF Sends, StoreOK, storeVars
  <2> QED
    BY <1>0, <1>13, <2>2, ContinueOK DEF Sends, TypeOK, ThreadsOK
<1>14. ASSUME NEW p \in Procs, Fails(p) PROVE TypeOK'
  <2>1. failures' \in 0..MaxFailures /\ UNCHANGED <<now, enabled, count, alerts, reported, events>>
    BY <1>0, <1>14 DEF Fails, StoreOK
  <2>2. CASE DispatchFails(p)
    <3>1. win[p] \in Windows /\ (pc[p] = "register" => win[p] \in Tumbling)
      BY <1>0, <2>2 DEF DispatchFails, ThreadsOK, ThreadOK
    <3>2. counter' \in [Windows -> Nat] /\ counted' \in [Windows -> Nat]
      BY <1>0, <2>2, <3>1 DEF DispatchFails, StoreOK
    <3>3. StoreOK'
      BY <1>0, <2>1, <2>2, <3>1, <3>2 DEF DispatchFails, StoreOK
    <3>4. ThreadOK(p)'
      BY <1>0, <2>2, GoesAt DEF DispatchFails, ThreadOK, Points
    <3>5. left' \in [Procs -> SUBSET (Rules \cup Tumbling)]
          /\ \A e \in Dispatchers : left'[e] \subseteq Rules
          /\ \A q \in Schedulers : left'[q] \subseteq Tumbling
      BY <1>0, <2>2 DEF DispatchFails, ThreadsOK
    <3> QED
      BY <1>0, <2>1, <2>2, <3>3, <3>4, <3>5, GoesAt, MoveOK
         DEF DispatchFails, TypeOK, ThreadsOK, Points
  <2>3. CASE UnregisterFails(p)
    <3>1. PICK w \in left[p] : open' \in {open, open \ {w}} /\ broken' = broken \cup {w}
      BY <2>3 DEF UnregisterFails
    <3>2. w \in Windows
      BY <1>0, <2>3, <3>1, WindowType DEF UnregisterFails, ThreadsOK
    <3>3. StoreOK'
      BY <1>0, <2>1, <2>3, <3>1, <3>2 DEF UnregisterFails, StoreOK
    <3>4. ThreadOK(p)'
      BY <1>0, <2>3, GoesAt DEF UnregisterFails, ThreadOK, Points
    <3>5. left' \in [Procs -> SUBSET (Rules \cup Tumbling)]
          /\ \A e \in Dispatchers : left'[e] \subseteq Rules
          /\ \A q \in Schedulers : left'[q] \subseteq Tumbling
      BY <1>0, <2>3 DEF UnregisterFails, ThreadsOK
    <3> QED
      BY <1>0, <2>1, <2>3, <3>3, <3>4, <3>5, GoesAt, MoveOK
         DEF UnregisterFails, TypeOK, ThreadsOK, Points
  <2>4. CASE CloseFails(p)
    <3>1. win[p] \in Windows
      BY <1>0, <2>4 DEF CloseFails, ThreadsOK, ThreadOK
    <3>2. StoreOK'
      BY <1>0, <2>1, <2>4, <3>1 DEF CloseFails, StoreOK
    <3> QED
      BY <1>0, <2>1, <2>4, <3>2, ContinueOK DEF CloseFails, TypeOK, ThreadsOK
  <2> QED
    BY <1>14, <2>2, <2>3, <2>4 DEF Fails
<1>15. CASE UNCHANGED vars
  BY <1>0, <1>15 DEF vars, TypeOK, ThreadsOK, StoreOK, ThreadOK, storeVars,
     procVars, historyVars
<1> QED
  BY <1>1, <1>2, <1>3, <1>4, <1>5, <1>6, <1>7, <1>8, <1>9, <1>10, <1>11, <1>12,
     <1>13, <1>14, <1>15
     DEF Next, DispatcherStep, SchedulerStep, Waits, Procs

\* A dispatcher counts and registers tumbling windows only, and a scheduler
\* closes tumbling windows only; every counter and history has its type.
THEOREM TypeCorrect == Spec => []TypeOK
<1>1. Init => TypeOK
  BY InitTypeOK
<1>2. TypeOK /\ [Next]_vars => TypeOK'
  BY NextTypeOK
<1> QED
  BY <1>1, <1>2, PTL DEF Spec
-----------------------------------------------------------------------------
\* The points where a thread has the window's claim and may still alert it.
Holding == {"take", "lookup", "send"}

\* A window that a thread holds is claimed and has no alert yet; no two threads
\* hold the same window; a window with an alert is claimed and has only that one.
ClaimInv ==
    /\ \A p \in Procs : pc[p] \in Holding => win[p] \in claimed /\ alerts[win[p]] = 0
    /\ \A p, q \in Procs :
          p # q /\ pc[p] \in Holding /\ pc[q] \in Holding => win[p] # win[q]
    /\ \A w \in Windows : alerts[w] <= 1 /\ (alerts[w] > 0 => w \in claimed)

\* The other threads stay where they are.
Others(p) == \A q \in Procs : q # p => pc'[q] = pc[q] /\ win'[q] = win[q]

\* A thread that holds no window afterwards, or goes on with the one it holds.
LEMMA ClaimKept ==
    ASSUME ClaimInv, NEW p \in Procs, Others(p),
           claimed \subseteq claimed', UNCHANGED alerts,
           pc'[p] \in Holding => pc[p] \in Holding /\ win'[p] = win[p]
    PROVE  ClaimInv'
<1>1. ASSUME NEW q \in Procs, pc'[q] \in Holding
      PROVE  pc[q] \in Holding /\ win'[q] = win[q]
  BY <1>1 DEF Others
<1>2. ASSUME NEW q \in Procs, pc'[q] \in Holding
      PROVE  win'[q] \in claimed' /\ alerts'[win'[q]] = 0
  BY <1>1, <1>2 DEF ClaimInv
<1>3. ASSUME NEW q \in Procs, NEW r \in Procs, q # r, pc'[q] \in Holding,
             pc'[r] \in Holding
      PROVE  win'[q] # win'[r]
  BY <1>1, <1>3 DEF ClaimInv
<1>4. \A w \in Windows : alerts'[w] <= 1 /\ (alerts'[w] > 0 => w \in claimed')
  BY DEF ClaimInv
<1> QED
  BY <1>2, <1>3, <1>4 DEF ClaimInv

\* A thread that claims a window nobody had claimed.
LEMMA ClaimTaken ==
    ASSUME TypeOK, ClaimInv, NEW p \in Procs, Others(p), win[p] \in Windows,
           win[p] \notin claimed, claimed' = claimed \cup {win[p]},
           UNCHANGED alerts, win'[p] = win[p]
    PROVE  ClaimInv'
<1>1. alerts[win[p]] = 0
  BY DEF ClaimInv, TypeOK, StoreOK
<1>2. ASSUME NEW q \in Procs, q # p, pc'[q] \in Holding
      PROVE  pc[q] \in Holding /\ win'[q] = win[q] /\ win[q] \in claimed
             /\ alerts[win[q]] = 0
  BY <1>2 DEF ClaimInv, Others
<1>3. ASSUME NEW q \in Procs, pc'[q] \in Holding
      PROVE  win'[q] \in claimed' /\ alerts'[win'[q]] = 0
  BY <1>1, <1>2, <1>3
<1>4. ASSUME NEW q \in Procs, NEW r \in Procs, q # r, pc'[q] \in Holding,
             pc'[r] \in Holding
      PROVE  win'[q] # win'[r]
  <2>1. CASE q = p
    BY <1>2, <1>4, <2>1
  <2>2. CASE r = p
    BY <1>2, <1>4, <2>2
  <2>3. CASE q # p /\ r # p
    BY <1>2, <1>4, <2>3 DEF ClaimInv
  <2> QED
    BY <2>1, <2>2, <2>3
<1>5. \A w \in Windows : alerts'[w] <= 1 /\ (alerts'[w] > 0 => w \in claimed')
  BY DEF ClaimInv
<1> QED
  BY <1>3, <1>4, <1>5 DEF ClaimInv

\* A holder that sends its alert.
LEMMA ClaimSpent ==
    ASSUME TypeOK, ClaimInv, NEW p \in Procs, Sends(p)
    PROVE  ClaimInv'
<1>1. /\ ThreadsOK /\ pc[p] \in Holding /\ win[p] \in Windows /\ win[p] \in claimed
      /\ alerts[win[p]] = 0 /\ alerts \in [Windows -> Nat] /\ claimed' = claimed
  BY DEF Sends, TypeOK, StoreOK, ThreadsOK, ThreadOK, ClaimInv, Holding, storeVars
<1>2. /\ alerts'[win[p]] = 1
      /\ \A w \in Windows : w # win[p] => alerts'[w] = alerts[w]
  BY <1>1 DEF Sends
<1>3. pc'[p] \notin Holding /\ Others(p)
  <2>1. Continues(p)
    BY DEF Sends
  <2>2. pc'[p] \in {"idle", "loop"} /\ Others(p)
    BY <1>1, <2>1, ContinuesAt DEF Others
  <2> QED
    BY <2>2 DEF Holding
<1>4. ASSUME NEW q \in Procs, pc'[q] \in Holding
      PROVE  /\ pc[q] \in Holding /\ win'[q] = win[q] /\ q # p
             /\ win[q] # win[p] /\ win[q] \in Windows
  <2>1. q # p /\ pc[q] \in Holding /\ win'[q] = win[q]
    BY <1>3, <1>4 DEF Others
  <2>2. win[q] # win[p]
    BY <1>1, <2>1 DEF ClaimInv
  <2>3. win[q] \in Windows
    BY <1>1, <2>1 DEF ThreadsOK, ThreadOK, Holding
  <2> QED
    BY <2>1, <2>2, <2>3
<1>5. ASSUME NEW q \in Procs, pc'[q] \in Holding
      PROVE  win'[q] \in claimed' /\ alerts'[win'[q]] = 0
  BY <1>1, <1>2, <1>4, <1>5 DEF ClaimInv
<1>6. ASSUME NEW q \in Procs, NEW r \in Procs, q # r, pc'[q] \in Holding,
             pc'[r] \in Holding
      PROVE  win'[q] # win'[r]
  BY <1>4, <1>6 DEF ClaimInv
<1>7. ASSUME NEW w \in Windows
      PROVE  alerts'[w] <= 1 /\ (alerts'[w] > 0 => w \in claimed')
  BY <1>1, <1>2 DEF ClaimInv
<1> QED
  BY <1>5, <1>6, <1>7 DEF ClaimInv

\* A thread that is done with its window holds none.
LEMMA ContinuesKeepsClaims ==
    ASSUME ThreadsOK, ClaimInv, NEW p \in Procs, Continues(p),
           claimed \subseteq claimed', UNCHANGED alerts
    PROVE  ClaimInv'
<1>1. pc'[p] \in {"idle", "loop"} /\ Others(p)
  BY ContinuesAt DEF Others
<1>2. pc'[p] \notin Holding
  BY <1>1 DEF Holding
<1> QED
  BY <1>1, <1>2, ClaimKept

\* A thread that goes on at a point where it holds no window.
LEMMA GoesKeepsClaims ==
    ASSUME ThreadsOK, ClaimInv, NEW p \in Procs, NEW to \in Points \ Holding, NEW w,
           Goes(p, to, w), claimed \subseteq claimed', UNCHANGED alerts
    PROVE  ClaimInv'
<1>1. pc'[p] = to /\ Others(p)
  BY GoesAt DEF Others
<1> QED
  BY <1>1, ClaimKept

LEMMA InitClaimInv == Init => ClaimInv
<1> SUFFICES ASSUME Init PROVE ClaimInv
  OBVIOUS
<1>1. \A p \in Procs : pc[p] \notin Holding
  BY DEF Init, Holding
<1>2. \A w \in Windows : alerts[w] = 0
  BY DEF Init
<1> QED
  BY <1>1, <1>2 DEF ClaimInv

LEMMA NextClaimInv == TypeOK /\ ClaimInv /\ [Next]_vars => ClaimInv'
<1> SUFFICES ASSUME TypeOK, ClaimInv, [Next]_vars PROVE ClaimInv'
  OBVIOUS
<1>0. ThreadsOK
  BY DEF TypeOK
<1>P. \A p \in Dispatchers \cup Schedulers : p \in Procs
  BY DEF Procs
<1>1. CASE TimePasses
  BY <1>1 DEF TimePasses, ClaimInv, storeVars, procVars, historyVars
<1>2. ASSUME NEW r \in Rules, RuleChanges(r) PROVE ClaimInv'
  BY <1>2 DEF RuleChanges, ClaimInv, storeVars, procVars, historyVars
<1>3. ASSUME NEW d \in Dispatchers, Dispatch(d) PROVE ClaimInv'
  <2>1. Goes(d, "loop", NoWindow) /\ claimed' = claimed /\ alerts' = alerts
    BY <1>3 DEF Dispatch, storeVars
  <2> QED
    BY <1>0, <1>P, <2>1, GoesKeepsClaims DEF Points, Holding
<1>4. ASSUME NEW d \in Dispatchers, HandleRule(d) PROVE ClaimInv'
  <2>1. claimed' = claimed /\ alerts' = alerts
    BY <1>4 DEF HandleRule, storeVars, historyVars
  <2>2. PICK w : Goes(d, "count", w) \/ Goes(d, "limit", w)
    BY <1>4 DEF HandleRule
  <2> QED
    BY <1>0, <1>P, <2>1, <2>2, GoesKeepsClaims DEF Points, Holding
<1>5. ASSUME NEW d \in Dispatchers, Counts(d) PROVE ClaimInv'
  <2>1. pc' = [pc EXCEPT ![d] = "register"] /\ win' = win /\ claimed' = claimed
        /\ alerts' = alerts
    BY <1>5 DEF Counts
  <2>2. pc'[d] = "register" /\ Others(d)
    BY <1>0, <1>P, <2>1 DEF ThreadsOK, Others
  <2> QED
    BY <1>P, <2>1, <2>2, ClaimKept DEF Holding
<1>6. ASSUME NEW d \in Dispatchers, Registers(d) PROVE ClaimInv'
  BY <1>0, <1>P, <1>6, ContinuesKeepsClaims DEF Registers, historyVars
<1>7. ASSUME NEW d \in Dispatchers, ClaimsLimit(d) PROVE ClaimInv'
  <2>1. d \in Procs /\ win[d] \in Windows /\ alerts' = alerts
        /\ claimed' = claimed \cup {win[d]}
    BY <1>0, <1>P, <1>7 DEF ClaimsLimit, ThreadsOK, ThreadOK, historyVars
  <2>2. CASE Continues(d)
    BY <1>0, <2>1, <2>2, ContinuesKeepsClaims
  <2>3. CASE win[d] \notin claimed /\ Goes(d, "send", win[d])
    <3>1. Others(d) /\ win'[d] = win[d]
      BY <1>0, <2>1, <2>3, GoesAt DEF Others, Points
    <3> QED
      BY <2>1, <2>3, <3>1, ClaimTaken
  <2> QED
    BY <1>7, <2>2, <2>3 DEF ClaimsLimit
<1>8. ASSUME NEW s \in Schedulers, Tick(s) PROVE ClaimInv'
  <2>1. Goes(s, "loop", NoWindow) /\ claimed' = claimed /\ alerts' = alerts
    BY <1>8 DEF Tick, storeVars, historyVars
  <2> QED
    BY <1>0, <1>P, <2>1, GoesKeepsClaims DEF Points, Holding
<1>9. ASSUME NEW s \in Schedulers, Unregisters(s) PROVE ClaimInv'
  <2>1. PICK w \in left[s] : Goes(s, "claim", w)
    BY <1>9 DEF Unregisters
  <2>2. claimed' = claimed /\ alerts' = alerts
    BY <1>9 DEF Unregisters, historyVars
  <2> QED
    BY <1>0, <1>P, <2>1, <2>2, GoesKeepsClaims DEF Points, Holding
<1>10. ASSUME NEW s \in Schedulers, Claims(s) PROVE ClaimInv'
  <2>1. s \in Procs /\ win[s] \in Windows /\ alerts' = alerts
        /\ claimed' = claimed \cup {win[s]}
    BY <1>0, <1>P, <1>10 DEF Claims, ThreadsOK, ThreadOK, historyVars
  <2>2. CASE Continues(s)
    BY <1>0, <2>1, <2>2, ContinuesKeepsClaims
  <2>3. CASE win[s] \notin claimed /\ Goes(s, "take", win[s])
    <3>1. Others(s) /\ win'[s] = win[s]
      BY <1>0, <2>1, <2>3, GoesAt DEF Others, Points
    <3> QED
      BY <2>1, <2>3, <3>1, ClaimTaken
  <2> QED
    BY <1>10, <2>2, <2>3 DEF Claims
<1>11. ASSUME NEW s \in Schedulers, Takes(s) PROVE ClaimInv'
  <2>1. s \in Procs /\ pc[s] \in Holding /\ alerts' = alerts /\ claimed' = claimed
    BY <1>P, <1>11 DEF Takes, Holding, historyVars
  <2>2. CASE Continues(s)
    BY <1>0, <2>1, <2>2, ContinuesKeepsClaims
  <2>3. CASE Goes(s, "lookup", win[s])
    <3>1. Others(s) /\ win'[s] = win[s]
      BY <1>0, <2>1, <2>3, GoesAt DEF Others, Points
    <3> QED
      BY <2>1, <3>1, ClaimKept
  <2> QED
    BY <1>11, <2>2, <2>3 DEF Takes
<1>12. ASSUME NEW s \in Schedulers, LooksUp(s) PROVE ClaimInv'
  <2>1. s \in Procs /\ pc[s] \in Holding /\ alerts' = alerts /\ claimed' = claimed
    BY <1>P, <1>12 DEF LooksUp, Holding, storeVars, historyVars
  <2>2. CASE Continues(s)
    BY <1>0, <2>1, <2>2, ContinuesKeepsClaims
  <2>3. CASE Goes(s, "send", win[s])
    <3>1. Others(s) /\ win'[s] = win[s]
      BY <1>0, <2>1, <2>3, GoesAt DEF Others, Points
    <3> QED
      BY <2>1, <3>1, ClaimKept
  <2> QED
    BY <1>12, <2>2, <2>3 DEF LooksUp
<1>13. ASSUME NEW p \in Procs, Sends(p) PROVE ClaimInv'
  BY <1>13, ClaimSpent
<1>14. ASSUME NEW p \in Procs, Fails(p) PROVE ClaimInv'
  <2>1. alerts' = alerts
    BY <1>14 DEF Fails
  <2>2. CASE DispatchFails(p)
    <3>1. claimed \subseteq claimed' /\ Goes(p, "idle", NoWindow)
      BY <2>2 DEF DispatchFails
    <3> QED
      BY <1>0, <2>1, <3>1, GoesKeepsClaims DEF Points, Holding
  <2>3. CASE UnregisterFails(p)
    <3>1. claimed' = claimed /\ Goes(p, "idle", NoWindow)
      BY <2>3 DEF UnregisterFails
    <3> QED
      BY <1>0, <2>1, <3>1, GoesKeepsClaims DEF Points, Holding
  <2>4. CASE CloseFails(p)
    <3>1. claimed \subseteq claimed' /\ Continues(p)
      BY <2>4 DEF CloseFails
    <3> QED
      BY <1>0, <2>1, <3>1, ContinuesKeepsClaims
  <2> QED
    BY <1>14, <2>2, <2>3, <2>4 DEF Fails
<1>15. CASE UNCHANGED vars
  BY <1>15 DEF vars, ClaimInv, storeVars, procVars, historyVars
<1> QED
  BY <1>1, <1>2, <1>3, <1>4, <1>5, <1>6, <1>7, <1>8, <1>9, <1>10, <1>11, <1>12,
     <1>13, <1>14, <1>15
     DEF Next, DispatcherStep, SchedulerStep, Waits, Procs

\* However many replicas close a window and whatever calls raise, a window has at
\* most one alert.
THEOREM AlertsOnce == Spec => []AlertOnce
<1>1. Init => TypeOK /\ ClaimInv
  BY InitTypeOK, InitClaimInv
<1>2. TypeOK /\ ClaimInv /\ [Next]_vars => (TypeOK /\ ClaimInv)'
  BY NextTypeOK, NextClaimInv
<1>3. ClaimInv => AlertOnce
  BY DEF ClaimInv, AlertOnce
<1> QED
  BY <1>1, <1>2, <1>3, PTL DEF Spec
-----------------------------------------------------------------------------
\* Thread p is about to register or to claim window w.
Works(p, w) == pc[p] \in {"register", "claim"} /\ win[p] = w

\* WindowCovered is kept by a step of p that puts every window it starts to count
\* or unregisters in its own hands or among the broken ones, and leaves none.
LEMMA CoverKept ==
    ASSUME WindowCovered, NEW p \in Procs, Others(p), claimed \subseteq claimed',
           broken \subseteq broken',
           \A w \in Tumbling : counter'[w] > 0 /\ ~ (counter[w] > 0)
               => w \in broken' \/ Works(p, w)',
           \A w \in Tumbling : w \in open /\ w \notin open'
               => w \in broken' \/ Works(p, w)',
           \A w \in Tumbling : Works(p, w)
               => w \in open' \/ w \in broken' \/ w \in claimed'
    PROVE  WindowCovered'
<1> SUFFICES ASSUME NEW w \in Tumbling, counter'[w] > 0, w \notin claimed',
                    w \notin open', w \notin broken'
             PROVE  \E q \in Procs : Works(q, w)'
  BY DEF WindowCovered, Works
<1>1. CASE ~ (counter[w] > 0) \/ w \in open
  BY <1>1
<1>2. CASE counter[w] > 0 /\ w \notin open
  <2>1. w \notin claimed /\ w \notin broken
    OBVIOUS
  <2>2. PICK q \in Procs : Works(q, w)
    BY <1>2, <2>1 DEF WindowCovered, Works
  <2>3. q # p
    BY <2>2
  <2> QED
    BY <2>2, <2>3 DEF Works, Others
<1> QED
  BY <1>1, <1>2

LEMMA NextWindowCovered == TypeOK /\ WindowCovered /\ [Next]_vars => WindowCovered'
<1> SUFFICES ASSUME TypeOK, WindowCovered, [Next]_vars PROVE WindowCovered'
  OBVIOUS
<1>0. ThreadsOK /\ counter \in [Windows -> Nat]
  BY DEF TypeOK, StoreOK
<1>P. \A p \in Dispatchers \cup Schedulers : p \in Procs
  BY DEF Procs
\* Most steps move a thread that neither registers nor claims.
<1>Q. ASSUME NEW p \in Procs, Others(p), UNCHANGED <<counter, open>>,
             claimed \subseteq claimed', broken \subseteq broken',
             pc[p] \notin {"register", "claim"} \/ win[p] \in broken' \cup claimed'
      PROVE  WindowCovered'
  BY <1>Q, CoverKept DEF Works
<1>1. CASE TimePasses
  BY <1>1 DEF TimePasses, WindowCovered, storeVars, procVars, historyVars
<1>2. ASSUME NEW r \in Rules, RuleChanges(r) PROVE WindowCovered'
  BY <1>2 DEF RuleChanges, WindowCovered, storeVars, procVars, historyVars
<1>3. ASSUME NEW d \in Dispatchers, Dispatch(d) PROVE WindowCovered'
  <2>1. Goes(d, "loop", NoWindow) /\ pc[d] = "idle"
        /\ UNCHANGED <<counter, open, claimed, broken>>
    BY <1>3 DEF Dispatch, storeVars
  <2>2. Others(d)
    BY <1>0, <1>P, <2>1, GoesAt DEF Points, Others
  <2> QED
    BY <1>P, <1>Q, <2>1, <2>2
<1>4. ASSUME NEW d \in Dispatchers, HandleRule(d) PROVE WindowCovered'
  <2>1. PICK w : Goes(d, "count", w) \/ Goes(d, "limit", w)
    BY <1>4 DEF HandleRule
  <2>2. Others(d)
    BY <1>0, <1>P, <2>1, GoesAt DEF Points, Others
  <2>3. pc[d] = "loop" /\ UNCHANGED <<counter, open, claimed, broken>>
    BY <1>4 DEF HandleRule, storeVars, historyVars
  <2> QED
    BY <1>P, <1>Q, <2>2, <2>3
<1>5. ASSUME NEW d \in Dispatchers, Counts(d) PROVE WindowCovered'
  <2>1. /\ d \in Procs /\ pc[d] = "count" /\ pc' = [pc EXCEPT ![d] = "register"]
        /\ UNCHANGED <<win, open, claimed, broken>>
        /\ counter' = [counter EXCEPT ![win[d]] = @ + 1]
    BY <1>P, <1>5 DEF Counts
  <2>2. Others(d) /\ pc'[d] = "register"
    BY <1>0, <2>1 DEF ThreadsOK, Others
  <2>3. \A w \in Tumbling : w # win[d] => counter'[w] = counter[w]
    BY <1>0, <2>1, WindowType
  <2>4. \A w \in Tumbling : w = win[d] => Works(d, w)'
    BY <2>1, <2>2 DEF Works
  <2>5. \A w : ~ Works(d, w)
    BY <2>1 DEF Works
  <2> QED
    BY <2>1, <2>2, <2>3, <2>4, <2>5, CoverKept
<1>6. ASSUME NEW d \in Dispatchers, Registers(d) PROVE WindowCovered'
  <2>1. /\ d \in Procs /\ Continues(d) /\ UNCHANGED <<counter, claimed, broken>>
        /\ open' = open \cup {win[d]}
    BY <1>P, <1>6 DEF Registers, historyVars
  <2>2. Others(d)
    BY <1>0, <2>1, ContinuesAt DEF Others
  <2>3. \A w : Works(d, w) => w \in open'
    BY <2>1 DEF Works
  <2> QED
    BY <2>1, <2>2, <2>3, CoverKept
<1>7. ASSUME NEW d \in Dispatchers, ClaimsLimit(d) PROVE WindowCovered'
  <2>1. /\ d \in Procs /\ (Continues(d) \/ Goes(d, "send", win[d]))
        /\ pc[d] = "limit" /\ UNCHANGED <<counter, open, broken>>
        /\ claimed \subseteq claimed'
    BY <1>P, <1>7 DEF ClaimsLimit, historyVars
  <2>2. Others(d)
    BY <1>0, <1>P, <2>1, ContinuesAt, GoesAt DEF Others, Points
  <2> QED
    BY <1>P, <1>Q, <2>1, <2>2
<1>8. ASSUME NEW s \in Schedulers, Tick(s) PROVE WindowCovered'
  <2>1. Goes(s, "loop", NoWindow) /\ pc[s] = "idle"
        /\ UNCHANGED <<counter, open, claimed, broken>>
    BY <1>8 DEF Tick, storeVars, historyVars
  <2>2. Others(s)
    BY <1>0, <1>P, <2>1, GoesAt DEF Points, Others
  <2> QED
    BY <1>P, <1>Q, <2>1, <2>2
<1>9. ASSUME NEW s \in Schedulers, Unregisters(s) PROVE WindowCovered'
  <2>1. PICK v \in left[s] : open' = open \ {v} /\ Goes(s, "claim", v)
    BY <1>9 DEF Unregisters
  <2>2. s \in Procs /\ pc[s] = "loop" /\ UNCHANGED <<counter, claimed, broken>>
    BY <1>P, <1>9 DEF Unregisters, historyVars
  <2>3. pc'[s] = "claim" /\ win'[s] = v /\ Others(s)
    BY <1>0, <2>1, <2>2, GoesAt DEF Points, Others
  <2>4. \A w : w \in open /\ w \notin open' => Works(s, w)'
    BY <2>1, <2>3 DEF Works
  <2>5. \A w : ~ Works(s, w)
    BY <2>2 DEF Works
  <2> QED
    BY <2>2, <2>3, <2>4, <2>5, CoverKept
<1>10. ASSUME NEW s \in Schedulers, Claims(s) PROVE WindowCovered'
  <2>1. /\ s \in Procs /\ (Continues(s) \/ Goes(s, "take", win[s]))
        /\ UNCHANGED <<counter, open, broken>> /\ claimed' = claimed \cup {win[s]}
    BY <1>P, <1>10 DEF Claims, historyVars
  <2>2. Others(s)
    BY <1>0, <1>P, <2>1, ContinuesAt, GoesAt DEF Others, Points
  <2> QED
    BY <1>P, <1>Q, <2>1, <2>2
<1>11. ASSUME NEW s \in Schedulers, Takes(s) PROVE WindowCovered'
  <2>1. /\ s \in Procs /\ (Continues(s) \/ Goes(s, "lookup", win[s]))
        /\ pc[s] = "take" /\ UNCHANGED <<open, claimed, broken>>
        /\ counter' = [counter EXCEPT ![win[s]] = 0]
    BY <1>P, <1>11 DEF Takes, historyVars
  <2>2. Others(s)
    BY <1>0, <1>P, <2>1, ContinuesAt, GoesAt DEF Others, Points
  <2>3. \A w \in Tumbling : counter'[w] > 0 => counter[w] > 0
    BY <1>0, <2>1, WindowType
  <2>4. \A w : ~ Works(s, w)
    BY <2>1 DEF Works
  <2> QED
    BY <1>P, <2>1, <2>2, <2>3, <2>4, CoverKept
<1>12. ASSUME NEW s \in Schedulers, LooksUp(s) PROVE WindowCovered'
  <2>1. /\ (Continues(s) \/ Goes(s, "send", win[s]))
        /\ pc[s] = "lookup" /\ UNCHANGED <<counter, open, claimed, broken>>
    BY <1>12 DEF LooksUp, storeVars, historyVars
  <2>2. Others(s)
    BY <1>0, <1>P, <2>1, ContinuesAt, GoesAt DEF Others, Points
  <2> QED
    BY <1>P, <1>Q, <2>1, <2>2
<1>13. ASSUME NEW p \in Procs, Sends(p) PROVE WindowCovered'
  <2>1. Continues(p) /\ pc[p] = "send" /\ UNCHANGED <<counter, open, claimed, broken>>
    BY <1>13 DEF Sends, storeVars
  <2>2. Others(p)
    BY <1>0, <2>1, ContinuesAt DEF Others
  <2> QED
    BY <1>Q, <2>1, <2>2
<1>14. ASSUME NEW p \in Procs, Fails(p) PROVE WindowCovered'
  <2>1. CASE DispatchFails(p)
    <3>1. /\ Goes(p, "idle", NoWindow) /\ broken' = broken \cup {win[p]}
          /\ claimed \subseteq claimed' /\ open \subseteq open' /\ win[p] \in Windows
      BY <1>0, <2>1 DEF DispatchFails, ThreadsOK, ThreadOK
    <3>2. Others(p)
      BY <1>0, <3>1, GoesAt DEF Points, Others
    <3>3. \A w \in Tumbling : w # win[p] => counter'[w] = counter[w]
      BY <1>0, <2>1, WindowType DEF DispatchFails
    <3>4. \A w : Works(p, w) => w \in broken'
      BY <3>1 DEF Works
    <3> QED
      BY <3>1, <3>2, <3>3, <3>4, CoverKept
  <2>2. CASE UnregisterFails(p)
    <3>1. PICK v \in left[p] : open' \in {open, open \ {v}} /\ broken' = broken \cup {v}
      BY <2>2 DEF UnregisterFails
    <3>2. pc[p] = "loop" /\ Goes(p, "idle", NoWindow) /\ UNCHANGED <<counter, claimed>>
      BY <2>2 DEF UnregisterFails
    <3>3. Others(p)
      BY <1>0, <3>2, GoesAt DEF Points, Others
    <3>4. \A w : ~ Works(p, w)
      BY <3>2 DEF Works
    <3> QED
      BY <3>1, <3>2, <3>3, <3>4, CoverKept
  <2>3. CASE CloseFails(p)
    <3>1. /\ Continues(p) /\ broken' = broken \cup {win[p]}
          /\ claimed \subseteq claimed' /\ open' = open
      BY <2>3 DEF CloseFails
    <3>2. Others(p)
      BY <1>0, <3>1, ContinuesAt DEF Others
    <3>3. \A w \in Tumbling : counter'[w] > 0 => counter[w] > 0
      BY <1>0, <2>3, WindowType DEF CloseFails
    <3>4. \A w : Works(p, w) => w \in broken'
      BY <3>1 DEF Works
    <3> QED
      BY <3>1, <3>2, <3>3, <3>4, CoverKept
  <2> QED
    BY <1>14, <2>1, <2>2, <2>3 DEF Fails
<1>15. CASE UNCHANGED vars
  BY <1>15 DEF vars, WindowCovered, storeVars, procVars, historyVars
<1> QED
  BY <1>1, <1>2, <1>3, <1>4, <1>5, <1>6, <1>7, <1>8, <1>9, <1>10, <1>11, <1>12,
     <1>13, <1>14, <1>15
     DEF Next, DispatcherStep, SchedulerStep, Waits, Procs

\* A window with events and no claim is registered, in a thread's hands, or had a
\* call that raised: no order of counting, registering and closing forgets it.
THEOREM WindowsCovered == Spec => []WindowCovered
<1>1. Init => TypeOK /\ WindowCovered
  <2>1. Init => WindowCovered
    BY WindowType DEF Init, WindowCovered
  <2> QED
    BY <2>1, InitTypeOK
<1>2. TypeOK /\ WindowCovered /\ [Next]_vars => (TypeOK /\ WindowCovered)'
  BY NextTypeOK, NextWindowCovered
<1> QED
  BY <1>1, <1>2, PTL DEF Spec
-----------------------------------------------------------------------------
\* Window w is claimed or has events.
Full(w) == w \in claimed \/ counter[w] > 0

\* Every window that can still be claimed has events: those registered, those a
\* scheduler read as due, those about to be registered or claimed.  A window being
\* taken has events too.
EventInv ==
    /\ \A w \in open : Full(w)
    /\ \A s \in Schedulers : \A w \in left[s] : Full(w)
    /\ \A p \in Procs : pc[p] \in {"register", "claim"} => Full(win[p])
    /\ \A p \in Procs : pc[p] = "take" => counter[win[p]] > 0

\* A step of p keeps EventInv if full windows stay full, what others are taking
\* keeps its events, and p leaves only full windows to be claimed or taken.
LEMMA EventKept ==
    ASSUME ThreadsOK, StoreOK, EventInv, NEW p \in Procs, Others(p),
           \A w \in Tumbling : Full(w) => Full(w)',
           \A q \in Procs : q # p /\ pc[q] = "take" => counter'[win[q]] > 0,
           \A w \in open' : w \in open \/ Full(w)',
           \A s \in Schedulers : \A w \in left'[s] : w \in left[s] \cup open,
           pc'[p] \in {"register", "claim"} => Full(win[p])',
           pc'[p] = "take" => counter'[win'[p]] > 0
    PROVE  EventInv'
<1>1. \A w \in open' : Full(w)'
  BY DEF EventInv, StoreOK
<1>2. ASSUME NEW s \in Schedulers, NEW w \in left'[s] PROVE Full(w)'
  <2>1. w \in Tumbling /\ Full(w)
    BY <1>2 DEF EventInv, StoreOK, ThreadsOK
  <2> QED
    BY <2>1
<1>3. ASSUME NEW q \in Procs, pc'[q] \in {"register", "claim"} PROVE Full(win[q])'
  <2>1. CASE q = p
    BY <1>3, <2>1
  <2>2. CASE q # p
    <3>1. pc[q] \in {"register", "claim"} /\ win'[q] = win[q]
      BY <1>3, <2>2 DEF Others
    <3>2. win[q] \in Tumbling /\ Full(win[q])
      BY <3>1 DEF EventInv, ThreadsOK, ThreadOK
    <3> QED
      BY <3>1, <3>2 DEF Full
  <2> QED
    BY <2>1, <2>2
<1>4. ASSUME NEW q \in Procs, pc'[q] = "take" PROVE counter'[win'[q]] > 0
  BY <1>4 DEF Others
<1> QED
  BY <1>1, <1>2, <1>3, <1>4 DEF EventInv

LEMMA NextEventInv == TypeOK /\ ClaimInv /\ EventInv /\ [Next]_vars => EventInv'
<1> SUFFICES ASSUME TypeOK, ClaimInv, EventInv, [Next]_vars PROVE EventInv'
  OBVIOUS
<1>0. ThreadsOK /\ StoreOK /\ counter \in [Windows -> Nat]
  BY DEF TypeOK, StoreOK
<1>P. \A p \in Dispatchers \cup Schedulers : p \in Procs
  BY DEF Procs
\* A step that counts nothing and leaves p with no window to claim or to take.
<1>Q. ASSUME NEW p \in Procs, Others(p), UNCHANGED counter,
             claimed \subseteq claimed', open' \subseteq open,
             \A s \in Schedulers : \A w \in left'[s] : w \in left[s] \cup open,
             pc'[p] \notin {"register", "claim", "take"}
      PROVE  EventInv'
  <2>1. \A w : Full(w) => Full(w)'
    BY <1>Q DEF Full
  <2>2. \A q \in Procs : q # p /\ pc[q] = "take" => counter'[win[q]] > 0
    BY <1>Q DEF EventInv
  <2> QED
    BY <1>0, <1>Q, <2>1, <2>2, EventKept
<1>1. CASE TimePasses
  BY <1>1 DEF TimePasses, EventInv, Full, storeVars, procVars, historyVars
<1>2. ASSUME NEW r \in Rules, RuleChanges(r) PROVE EventInv'
  BY <1>2 DEF RuleChanges, EventInv, Full, storeVars, procVars, historyVars
<1>3. ASSUME NEW d \in Dispatchers, Dispatch(d) PROVE EventInv'
  <2>1. Goes(d, "loop", NoWindow) /\ UNCHANGED <<counter, open, claimed>>
        /\ left' = [left EXCEPT ![d] = enabled]
    BY <1>3 DEF Dispatch, storeVars
  <2>2. Others(d) /\ pc'[d] = "loop"
    BY <1>0, <1>P, <2>1, GoesAt DEF Points, Others
  <2>3. \A s \in Schedulers : left'[s] = left[s]
    BY <1>0, <1>P, <2>1, AlertAssumption DEF ThreadsOK
  <2> QED
    BY <1>P, <1>Q, <2>1, <2>2, <2>3
<1>4. ASSUME NEW d \in Dispatchers, HandleRule(d) PROVE EventInv'
  <2>0. PICK r \in left[d] :
          /\ left' = [left EXCEPT ![d] = @ \ {r}]
          /\ \E w : Goes(d, "count", w) \/ Goes(d, "limit", w)
    BY <1>4 DEF HandleRule
  <2>1. PICK w : Goes(d, "count", w) \/ Goes(d, "limit", w)
    BY <2>0
  <2>2. Others(d) /\ pc'[d] \in {"count", "limit"}
    BY <1>0, <1>P, <2>1, GoesAt DEF Points, Others
  <2>3. UNCHANGED <<counter, open, claimed>>
    BY <1>4 DEF HandleRule, storeVars
  <2>4. \A s \in Schedulers : left'[s] = left[s]
    BY <1>0, <1>P, <2>0, AlertAssumption DEF ThreadsOK
  <2> QED
    BY <1>P, <1>Q, <2>2, <2>3, <2>4
<1>5. ASSUME NEW d \in Dispatchers, Counts(d) PROVE EventInv'
  <2>1. /\ d \in Procs /\ pc[d] = "count" /\ pc' = [pc EXCEPT ![d] = "register"]
        /\ UNCHANGED <<win, left, open, claimed>> /\ win[d] \in Windows
        /\ counter' = [counter EXCEPT ![win[d]] = @ + 1]
    BY <1>0, <1>P, <1>5 DEF Counts, ThreadsOK, ThreadOK
  <2>2. Others(d) /\ pc'[d] = "register"
    BY <1>0, <2>1 DEF ThreadsOK, Others
  <2>3. /\ counter'[win[d]] > 0
        /\ \A w \in Windows : counter[w] > 0 => counter'[w] > 0
    BY <1>0, <2>1
  <2>4. \A w \in Tumbling : Full(w) => Full(w)'
    BY <2>1, <2>3, WindowType DEF Full
  <2>5. \A q \in Procs : q # d /\ pc[q] = "take" => counter'[win[q]] > 0
    BY <1>0, <2>3 DEF EventInv, ThreadsOK, ThreadOK
  <2>6. Full(win[d])'
    BY <2>1, <2>3 DEF Full
  <2> QED
    BY <1>0, <2>1, <2>2, <2>4, <2>5, <2>6, EventKept
<1>6. ASSUME NEW d \in Dispatchers, Registers(d) PROVE EventInv'
  <2>1. /\ d \in Procs /\ Continues(d) /\ UNCHANGED <<counter, claimed, left>>
        /\ open' = open \cup {win[d]} /\ pc[d] = "register"
    BY <1>P, <1>6 DEF Registers, historyVars
  <2>2. Others(d) /\ pc'[d] \in {"idle", "loop"}
    BY <1>0, <2>1, ContinuesAt DEF Others
  <2>3. \A w : Full(w) => Full(w)'
    BY <2>1 DEF Full
  <2>4. \A w \in open' : w \in open \/ Full(w)'
    BY <2>1, <2>3 DEF EventInv
  <2>5. \A q \in Procs : pc[q] = "take" => counter'[win[q]] > 0
    BY <2>1 DEF EventInv
  <2> QED
    BY <1>0, <2>1, <2>2, <2>3, <2>4, <2>5, EventKept
<1>7. ASSUME NEW d \in Dispatchers, ClaimsLimit(d) PROVE EventInv'
  <2>1. /\ d \in Procs /\ (Continues(d) \/ Goes(d, "send", win[d]))
        /\ UNCHANGED <<counter, open, left>> /\ claimed \subseteq claimed'
    BY <1>P, <1>7 DEF ClaimsLimit, historyVars
  <2>2. Others(d) /\ pc'[d] \in {"idle", "loop", "send"}
    BY <1>0, <2>1, ContinuesAt, GoesAt DEF Others, Points
  <2> QED
    BY <1>Q, <2>1, <2>2
<1>8. ASSUME NEW s \in Schedulers, Tick(s) PROVE EventInv'
  <2>1. Goes(s, "loop", NoWindow) /\ UNCHANGED <<counter, open, claimed>>
        /\ \E due \in SUBSET open : left' = [left EXCEPT ![s] = due]
    BY <1>8 DEF Tick, storeVars, historyVars
  <2>2. Others(s) /\ pc'[s] = "loop"
    BY <1>0, <1>P, <2>1, GoesAt DEF Points, Others
  <2>3. \A q \in Schedulers : \A w \in left'[q] : w \in left[q] \cup open
    BY <1>0, <1>P, <2>1 DEF ThreadsOK
  <2> QED
    BY <1>P, <1>Q, <2>1, <2>2, <2>3
<1>9. ASSUME NEW s \in Schedulers, Unregisters(s) PROVE EventInv'
  <2>1. PICK v \in left[s] : /\ open' = open \ {v} /\ Goes(s, "claim", v)
                             /\ left' = [left EXCEPT ![s] = @ \ {v}]
    BY <1>9 DEF Unregisters
  <2>2. s \in Procs /\ UNCHANGED <<counter, claimed>> /\ Full(v)
    BY <1>P, <1>9, <2>1 DEF Unregisters, historyVars, EventInv
  <2>3. pc'[s] = "claim" /\ win'[s] = v /\ Others(s)
    BY <1>0, <2>1, <2>2, GoesAt DEF Points, Others
  <2>4. \A w : Full(w) => Full(w)'
    BY <2>2 DEF Full
  <2>5. Full(win[s])'
    BY <2>2, <2>3 DEF Full
  <2>6. \A q \in Procs : pc[q] = "take" => counter'[win[q]] > 0
    BY <2>2 DEF EventInv
  <2>7. \A q \in Schedulers : \A w \in left'[q] : w \in left[q] \cup open
    BY <1>0, <1>P, <2>1 DEF ThreadsOK
  <2> QED
    BY <1>0, <2>1, <2>2, <2>3, <2>4, <2>5, <2>6, <2>7, EventKept
<1>10. ASSUME NEW s \in Schedulers, Claims(s) PROVE EventInv'
  <2>1. /\ s \in Procs /\ pc[s] = "claim" /\ claimed' = claimed \cup {win[s]}
        /\ UNCHANGED <<counter, open, left>>
    BY <1>P, <1>10 DEF Claims, historyVars
  <2>2. CASE Continues(s)
    <3>1. Others(s) /\ pc'[s] \in {"idle", "loop"}
      BY <1>0, <2>1, <2>2, ContinuesAt DEF Others
    <3> QED
      BY <1>Q, <2>1, <3>1
  <2>3. CASE win[s] \notin claimed /\ Goes(s, "take", win[s])
    <3>1. Others(s) /\ pc'[s] = "take" /\ win'[s] = win[s]
      BY <1>0, <2>1, <2>3, GoesAt DEF Others, Points
    <3>2. counter[win[s]] > 0
      BY <2>1, <2>3 DEF EventInv, Full
    <3>3. \A w : Full(w) => Full(w)'
      BY <2>1 DEF Full
    <3>4. \A q \in Procs : pc[q] = "take" => counter'[win[q]] > 0
      BY <2>1 DEF EventInv
    <3> QED
      BY <1>0, <2>1, <3>1, <3>2, <3>3, <3>4, EventKept
  <2> QED
    BY <1>10, <2>2, <2>3 DEF Claims
<1>11. ASSUME NEW s \in Schedulers, Takes(s) PROVE EventInv'
  <2>1. /\ s \in Procs /\ pc[s] = "take" /\ UNCHANGED <<open, claimed, left>>
        /\ (Continues(s) \/ Goes(s, "lookup", win[s]))
        /\ counter' = [counter EXCEPT ![win[s]] = 0]
    BY <1>P, <1>11 DEF Takes, historyVars
  <2>2. Others(s) /\ pc'[s] \in {"idle", "loop", "lookup"}
    BY <1>0, <2>1, ContinuesAt, GoesAt DEF Others, Points
  <2>3. win[s] \in claimed
    BY <2>1 DEF ClaimInv, Holding
  <2>4. \A w \in Tumbling : Full(w) => Full(w)'
    BY <1>0, <2>1, <2>3, WindowType DEF Full
  <2>5. ASSUME NEW q \in Procs, q # s, pc[q] = "take" PROVE counter'[win[q]] > 0
    <3>1. win[q] # win[s] /\ win[q] \in Windows /\ counter[win[q]] > 0
      BY <1>0, <2>1, <2>5 DEF ClaimInv, Holding, EventInv, ThreadsOK, ThreadOK
    <3> QED
      BY <1>0, <2>1, <3>1
  <2> QED
    BY <1>0, <2>1, <2>2, <2>4, <2>5, EventKept
<1>12. ASSUME NEW s \in Schedulers, LooksUp(s) PROVE EventInv'
  <2>1. /\ s \in Procs /\ (Continues(s) \/ Goes(s, "send", win[s]))
        /\ UNCHANGED <<counter, open, claimed, left>>
    BY <1>P, <1>12 DEF LooksUp, storeVars, historyVars
  <2>2. Others(s) /\ pc'[s] \in {"idle", "loop", "send"}
    BY <1>0, <2>1, ContinuesAt, GoesAt DEF Others, Points
  <2> QED
    BY <1>Q, <2>1, <2>2
<1>13. ASSUME NEW p \in Procs, Sends(p) PROVE EventInv'
  <2>1. Continues(p) /\ UNCHANGED <<counter, open, claimed, left>>
    BY <1>13 DEF Sends, storeVars
  <2>2. Others(p) /\ pc'[p] \in {"idle", "loop"}
    BY <1>0, <2>1, ContinuesAt DEF Others
  <2> QED
    BY <1>Q, <2>1, <2>2
<1>14. ASSUME NEW p \in Procs, Fails(p) PROVE EventInv'
  <2>1. CASE DispatchFails(p)
    <3>1. /\ Goes(p, "idle", NoWindow) /\ left' = [left EXCEPT ![p] = {}]
          /\ claimed \subseteq claimed' /\ win[p] \in Windows
      BY <1>0, <2>1 DEF DispatchFails, ThreadsOK, ThreadOK
    <3>2. Others(p) /\ pc'[p] = "idle"
      BY <1>0, <3>1, GoesAt DEF Points, Others
    <3>3. \A w \in Windows : counter[w] > 0 => counter'[w] > 0
      BY <1>0, <2>1 DEF DispatchFails
    <3>4. \A w \in Tumbling : Full(w) => Full(w)'
      BY <3>1, <3>3, WindowType DEF Full
    <3>5. \A q \in Procs : pc[q] = "take" => counter'[win[q]] > 0
      BY <1>0, <3>3 DEF EventInv, ThreadsOK, ThreadOK
    <3>6. \A w \in open' : w \in open \/ Full(w)'
      <4>1. CASE pc[p] = "register"
        <5>1. Full(win[p]) /\ win[p] \in Tumbling
          BY <1>0, <4>1 DEF EventInv, ThreadsOK, ThreadOK
        <5>2. open' \subseteq open \cup {win[p]}
          BY <2>1, <4>1 DEF DispatchFails
        <5> QED
          BY <3>4, <5>1, <5>2
      <4>2. CASE pc[p] # "register"
        BY <2>1, <4>2 DEF DispatchFails
      <4> QED
        BY <4>1, <4>2
    <3>7. \A q \in Schedulers : \A w \in left'[q] : w \in left[q]
      BY <1>0, <1>P, <3>1 DEF ThreadsOK
    <3> QED
      BY <1>0, <3>2, <3>4, <3>5, <3>6, <3>7, EventKept
  <2>2. CASE UnregisterFails(p)
    <3>1. /\ Goes(p, "idle", NoWindow) /\ left' = [left EXCEPT ![p] = {}]
          /\ UNCHANGED <<counter, claimed>> /\ open' \subseteq open
      BY <2>2 DEF UnregisterFails
    <3>2. Others(p) /\ pc'[p] = "idle"
      BY <1>0, <3>1, GoesAt DEF Points, Others
    <3>3. \A q \in Schedulers : \A w \in left'[q] : w \in left[q]
      BY <1>0, <1>P, <3>1 DEF ThreadsOK
    <3> QED
      BY <1>Q, <3>1, <3>2, <3>3
  <2>3. CASE CloseFails(p)
    <3>1. /\ Continues(p) /\ claimed \subseteq claimed' /\ UNCHANGED <<open, left>>
      BY <2>3 DEF CloseFails
    <3>2. Others(p) /\ pc'[p] \in {"idle", "loop"}
      BY <1>0, <3>1, ContinuesAt DEF Others
    <3>3. CASE counter' = counter
      BY <1>Q, <3>1, <3>2, <3>3
    <3>4. CASE pc[p] = "take" /\ counter' = [counter EXCEPT ![win[p]] = 0]
      <4>1. win[p] \in claimed
        BY <3>4 DEF ClaimInv, Holding
      <4>2. \A w \in Tumbling : Full(w) => Full(w)'
        BY <1>0, <3>1, <3>4, <4>1, WindowType DEF Full
      <4>3. ASSUME NEW q \in Procs, q # p, pc[q] = "take" PROVE counter'[win[q]] > 0
        <5>1. win[q] # win[p] /\ win[q] \in Windows /\ counter[win[q]] > 0
          BY <1>0, <3>4, <4>3 DEF ClaimInv, Holding, EventInv, ThreadsOK, ThreadOK
        <5> QED
          BY <1>0, <3>4, <5>1
      <4> QED
        BY <1>0, <3>1, <3>2, <4>2, <4>3, EventKept
    <3> QED
      BY <2>3, <3>3, <3>4 DEF CloseFails
  <2> QED
    BY <1>14, <2>1, <2>2, <2>3 DEF Fails
<1>15. CASE UNCHANGED vars
  BY <1>15 DEF vars, EventInv, Full, storeVars, procVars, historyVars
<1> QED
  BY <1>1, <1>2, <1>3, <1>4, <1>5, <1>6, <1>7, <1>8, <1>9, <1>10, <1>11, <1>12,
     <1>13, <1>14, <1>15
     DEF Next, DispatcherStep, SchedulerStep, Waits, Procs

\* No order of counting, registering and closing spends a window's claim, which is
\* its only one, on an empty counter.
THEOREM ClaimsNotWasted == Spec => []ClaimNotWasted
<1>1. Init => TypeOK /\ ClaimInv /\ EventInv
  <2>1. Init => EventInv
    BY DEF Init, EventInv, Procs
  <2> QED
    BY <2>1, InitTypeOK, InitClaimInv
<1>2. TypeOK /\ ClaimInv /\ EventInv /\ [Next]_vars
        => (TypeOK /\ ClaimInv /\ EventInv)'
  BY NextTypeOK, NextClaimInv, NextEventInv
<1>3. EventInv => ClaimNotWasted
  BY DEF EventInv, ClaimNotWasted, Procs
<1> QED
  BY <1>1, <1>2, <1>3, PTL DEF Spec
-----------------------------------------------------------------------------
\* Where the events of tumbling window w are: on its counter until it is claimed
\* and taken, then with the scheduler that took them, then in its alert.
CountsInv ==
    /\ \A w \in Tumbling : alerts[w] = 0 => reported[w] = 0
    /\ \A w \in Tumbling : w \notin claimed => counter[w] = counted[w]
    /\ \A s \in Schedulers : pc[s] = "take" => counter[win[s]] = counted[win[s]]
    /\ \A s \in Schedulers :
          pc[s] \in {"lookup", "send"} => count[s] + counter[win[s]] = counted[win[s]]
    /\ AlertCountsEvents

\* A step that counts, takes and sends nothing, and after which p holds no window
\* or the one it held, at the same side of `take`.
LEMMA CountsKept ==
    ASSUME CountsInv, NEW p \in Procs, Others(p), claimed \subseteq claimed',
           UNCHANGED <<counter, counted, count, alerts, reported>>,
           pc'[p] = "take" => counter[win'[p]] = counted[win'[p]],
           pc'[p] \in {"lookup", "send"} /\ p \in Schedulers =>
               pc[p] = "lookup" /\ win'[p] = win[p]
    PROVE  CountsInv'
<1>1. \A w \in Tumbling : alerts'[w] = 0 => reported'[w] = 0
  BY DEF CountsInv
<1>2. \A w \in Tumbling : w \notin claimed' => counter'[w] = counted'[w]
  BY DEF CountsInv
<1>3. ASSUME NEW s \in Schedulers, pc'[s] = "take"
      PROVE  counter'[win'[s]] = counted'[win'[s]]
  BY <1>3 DEF CountsInv, Others, Procs
<1>4. ASSUME NEW s \in Schedulers, pc'[s] \in {"lookup", "send"}
      PROVE  count'[s] + counter'[win'[s]] = counted'[win'[s]]
  <2>1. pc[s] \in {"lookup", "send"} /\ win'[s] = win[s]
    BY <1>4 DEF Others, Procs
  <2> QED
    BY <2>1 DEF CountsInv
<1>5. AlertCountsEvents'
  BY DEF CountsInv, AlertCountsEvents
<1> QED
  BY <1>1, <1>2, <1>3, <1>4, <1>5 DEF CountsInv

\* An event is counted in p's window, or is not; p holds no window.
LEMMA CountsGrow ==
    ASSUME ThreadsOK, StoreOK, CountsInv, NEW p \in Procs, Others(p),
           win[p] \in Windows, NEW n \in {0, 1},
           counter' = [counter EXCEPT ![win[p]] = @ + n],
           counted' = [counted EXCEPT ![win[p]] = @ + n],
           UNCHANGED <<claimed, count, alerts, reported>>,
           pc'[p] \notin Holding
    PROVE  CountsInv'
<1>1. \A w \in Windows : \/ counter'[w] = counter[w] /\ counted'[w] = counted[w]
                         \/ /\ counter'[w] = counter[w] + n
                            /\ counted'[w] = counted[w] + n
  BY DEF StoreOK
<1>2. \A w \in Windows : counter[w] \in Nat /\ counted[w] \in Nat /\ reported[w] \in Nat
  BY DEF StoreOK
<1>3. \A w \in Tumbling : w \in Windows
  BY WindowType
<1>4. ASSUME NEW s \in Schedulers, pc'[s] \in Holding
      PROVE  /\ pc'[s] = pc[s] /\ win'[s] = win[s] /\ win[s] \in Windows
             /\ count[s] \in Nat
  BY <1>4 DEF Others, Procs, Holding, ThreadsOK, ThreadOK
<1>5. \A w \in Tumbling : w \notin claimed' => counter'[w] = counted'[w]
  BY <1>1, <1>2, <1>3 DEF CountsInv
<1>6. ASSUME NEW s \in Schedulers, pc'[s] = "take"
      PROVE  counter'[win'[s]] = counted'[win'[s]]
  BY <1>1, <1>2, <1>4, <1>6 DEF CountsInv, Holding
<1>7. ASSUME NEW s \in Schedulers, pc'[s] \in {"lookup", "send"}
      PROVE  count'[s] + counter'[win'[s]] = counted'[win'[s]]
  <2>1. /\ pc[s] \in {"lookup", "send"} /\ win'[s] = win[s] /\ win[s] \in Windows
        /\ count'[s] = count[s] /\ count[s] \in Nat
    BY <1>4, <1>7 DEF Holding
  <2>2. count[s] + counter[win[s]] = counted[win[s]]
    BY <2>1 DEF CountsInv
  <2> QED
    BY <1>1, <1>2, <2>1, <2>2
<1>8. AlertCountsEvents'
  <2> SUFFICES ASSUME NEW w \in Tumbling, alerts'[w] = 1
               PROVE  reported'[w] + counter'[w] = counted'[w]
    BY DEF AlertCountsEvents
  <2>1. reported[w] + counter[w] = counted[w]
    BY DEF CountsInv, AlertCountsEvents
  <2> QED
    BY <1>1, <1>2, <1>3, <2>1
<1> QED
  BY <1>5, <1>6, <1>7, <1>8 DEF CountsInv

\* Scheduler s empties the counter of the window it claimed: it goes on with the
\* events it took, or drops the window.
LEMMA CountsTaken ==
    ASSUME TypeOK, ClaimInv, CountsInv, NEW s \in Schedulers, pc[s] = "take",
           Others(s), counter' = [counter EXCEPT ![win[s]] = 0],
           UNCHANGED <<counted, claimed, alerts, reported>>,
           pc'[s] \in {"idle", "loop", "lookup"},
           pc'[s] = "lookup" => win'[s] = win[s] /\ count'[s] = counter[win[s]],
           \A q \in Schedulers : q # s => count'[q] = count[q]
    PROVE  CountsInv'
<1>1. /\ s \in Procs /\ win[s] \in Tumbling /\ win[s] \in Windows
      /\ win[s] \in claimed /\ alerts[win[s]] = 0
      /\ counter[win[s]] = counted[win[s]]
      /\ counter \in [Windows -> Nat] /\ counted \in [Windows -> Nat]
  BY DEF TypeOK, ThreadsOK, ThreadOK, StoreOK, ClaimInv, CountsInv, Holding, Procs
<1>2. counter'[win[s]] = 0 /\ \A w \in Windows : w # win[s] => counter'[w] = counter[w]
  BY <1>1
<1>3. ASSUME NEW q \in Schedulers, q # s, pc'[q] \in Holding
      PROVE  /\ pc'[q] = pc[q] /\ win'[q] = win[q] /\ count'[q] = count[q]
             /\ counter'[win[q]] = counter[win[q]]
  <2>1. q \in Procs /\ pc'[q] = pc[q] /\ win'[q] = win[q] /\ count'[q] = count[q]
    BY <1>3 DEF Others, Procs
  <2>2. win[q] # win[s]
    BY <1>1, <1>3, <2>1 DEF ClaimInv, Holding
  <2>3. win[q] \in Windows
    BY <1>3, <2>1 DEF TypeOK, ThreadsOK, ThreadOK, Holding
  <2> QED
    BY <1>2, <2>1, <2>2, <2>3
<1>4. \A w \in Tumbling : w \notin claimed' => counter'[w] = counted'[w]
  BY <1>1, <1>2, WindowType DEF CountsInv
<1>5. ASSUME NEW q \in Schedulers, pc'[q] = "take"
      PROVE  counter'[win'[q]] = counted'[win'[q]]
  <2>1. q # s
    BY <1>5
  <2> QED
    BY <1>3, <1>5, <2>1 DEF CountsInv, Holding
<1>6. ASSUME NEW q \in Schedulers, pc'[q] \in {"lookup", "send"}
      PROVE  count'[q] + counter'[win'[q]] = counted'[win'[q]]
  <2>1. CASE q = s
    BY <1>1, <1>2, <1>6, <2>1
  <2>2. CASE q # s
    BY <1>3, <1>6, <2>2 DEF CountsInv, Holding
  <2> QED
    BY <2>1, <2>2
<1>7. AlertCountsEvents'
  <2> SUFFICES ASSUME NEW w \in Tumbling, alerts'[w] = 1
               PROVE  reported'[w] + counter'[w] = counted'[w]
    BY DEF AlertCountsEvents
  <2>1. w # win[s] /\ w \in Windows
    BY <1>1, WindowType
  <2> QED
    BY <1>2, <2>1 DEF CountsInv, AlertCountsEvents
<1> QED
  BY <1>4, <1>5, <1>6, <1>7 DEF CountsInv

\* A thread sends the alert of its window.
LEMMA CountsSent ==
    ASSUME TypeOK, ClaimInv, CountsInv, NEW p \in Procs, Sends(p)
    PROVE  CountsInv'
<1>1. /\ ThreadsOK /\ pc[p] = "send" /\ win[p] \in Windows /\ alerts[win[p]] = 0
      /\ p \in Schedulers <=> win[p] \in Tumbling
      /\ alerts \in [Windows -> Nat] /\ reported \in [Windows -> Nat]
      /\ counter \in [Windows -> Nat] /\ counted \in [Windows -> Nat]
      /\ count \in [Procs -> Nat]
  BY DEF Sends, TypeOK, ThreadsOK, ThreadOK, StoreOK, ClaimInv, Holding
<1>2. /\ UNCHANGED <<counter, counted, claimed, count>>
      /\ alerts'[win[p]] = 1
      /\ \A w \in Windows : w # win[p] => alerts'[w] = alerts[w]
                                          /\ reported'[w] = reported[w]
      /\ p \in Schedulers => reported'[win[p]] = reported[win[p]] + count[p]
  BY <1>1 DEF Sends, storeVars
<1>3. pc'[p] \in {"idle", "loop"} /\ Others(p)
  BY <1>1, ContinuesAt DEF Sends, Others
<1>4. \A w \in Tumbling : alerts'[w] = 0 => reported'[w] = 0
  BY <1>2, WindowType DEF CountsInv
<1>5. \A w \in Tumbling : w \notin claimed' => counter'[w] = counted'[w]
  BY <1>2 DEF CountsInv
<1>6. ASSUME NEW s \in Schedulers, pc'[s] = "take"
      PROVE  counter'[win'[s]] = counted'[win'[s]]
  BY <1>2, <1>3, <1>6 DEF CountsInv, Others, Procs
<1>7. ASSUME NEW s \in Schedulers, pc'[s] \in {"lookup", "send"}
      PROVE  count'[s] + counter'[win'[s]] = counted'[win'[s]]
  <2>1. pc[s] \in {"lookup", "send"} /\ win'[s] = win[s]
    BY <1>3, <1>7 DEF Others, Procs
  <2> QED
    BY <1>2, <2>1 DEF CountsInv
<1>8. AlertCountsEvents'
  <2> SUFFICES ASSUME NEW w \in Tumbling, alerts'[w] = 1
               PROVE  reported'[w] + counter'[w] = counted'[w]
    BY DEF AlertCountsEvents
  <2>1. CASE w = win[p]
    <3>1. p \in Schedulers /\ reported[w] = 0 /\ reported'[w] = reported[w] + count[p]
      BY <1>1, <1>2, <2>1 DEF CountsInv
    <3>2. count[p] + counter[w] = counted[w]
      BY <1>1, <2>1, <3>1 DEF CountsInv
    <3>3. count[p] \in Nat
      BY <1>1
    <3> QED
      BY <1>2, <3>1, <3>2, <3>3
  <2>2. CASE w # win[p]
    <3>1. w \in Windows
      BY WindowType
    <3> QED
      BY <1>2, <2>2, <3>1 DEF CountsInv, AlertCountsEvents
  <2> QED
    BY <2>1, <2>2
<1> QED
  BY <1>4, <1>5, <1>6, <1>7, <1>8 DEF CountsInv

LEMMA NextCountsInv == TypeOK /\ ClaimInv /\ CountsInv /\ [Next]_vars => CountsInv'
<1> SUFFICES ASSUME TypeOK, ClaimInv, CountsInv, [Next]_vars PROVE CountsInv'
  OBVIOUS
<1>0. ThreadsOK /\ StoreOK
  BY DEF TypeOK
<1>P. \A p \in Dispatchers \cup Schedulers : p \in Procs
  BY DEF Procs
\* A step that counts, takes and sends nothing and leaves p with no window it took.
<1>K. ASSUME NEW p \in Procs, Others(p), claimed \subseteq claimed',
             UNCHANGED <<counter, counted, count, alerts, reported>>,
             pc'[p] \notin Holding
      PROVE  CountsInv'
  BY <1>K, CountsKept DEF Holding
<1>1. CASE TimePasses
  BY <1>1 DEF TimePasses, CountsInv, AlertCountsEvents, storeVars, procVars, historyVars
<1>2. ASSUME NEW r \in Rules, RuleChanges(r) PROVE CountsInv'
  BY <1>2 DEF RuleChanges, CountsInv, AlertCountsEvents, storeVars, procVars, historyVars
<1>3. ASSUME NEW d \in Dispatchers, Dispatch(d) PROVE CountsInv'
  <2>1. /\ Goes(d, "loop", NoWindow)
        /\ UNCHANGED <<claimed, counter, counted, count, alerts, reported>>
    BY <1>3 DEF Dispatch, storeVars
  <2>2. Others(d) /\ pc'[d] = "loop"
    BY <1>0, <1>P, <2>1, GoesAt DEF Points, Others
  <2> QED
    BY <1>P, <1>K, <2>1, <2>2 DEF Holding
<1>4. ASSUME NEW d \in Dispatchers, HandleRule(d) PROVE CountsInv'
  <2>1. PICK w : Goes(d, "count", w) \/ Goes(d, "limit", w)
    BY <1>4 DEF HandleRule
  <2>2. Others(d) /\ pc'[d] \in {"count", "limit"}
    BY <1>0, <1>P, <2>1, GoesAt DEF Points, Others
  <2>3. UNCHANGED <<claimed, counter, counted, count, alerts, reported>>
    BY <1>4 DEF HandleRule, storeVars, historyVars
  <2> QED
    BY <1>P, <1>K, <2>2, <2>3 DEF Holding
<1>5. ASSUME NEW d \in Dispatchers, Counts(d) PROVE CountsInv'
  <2>1. /\ d \in Procs /\ pc' = [pc EXCEPT ![d] = "register"]
        /\ UNCHANGED <<win, claimed, count, alerts, reported>> /\ win[d] \in Windows
        /\ counter' = [counter EXCEPT ![win[d]] = @ + 1]
        /\ counted' = [counted EXCEPT ![win[d]] = @ + 1]
    BY <1>0, <1>P, <1>5 DEF Counts, ThreadsOK, ThreadOK
  <2>2. Others(d) /\ pc'[d] = "register"
    BY <1>0, <2>1 DEF ThreadsOK, Others
  <2> QED
    BY <1>0, <2>1, <2>2, CountsGrow DEF Holding
<1>6. ASSUME NEW d \in Dispatchers, Registers(d) PROVE CountsInv'
  <2>1. /\ d \in Procs /\ Continues(d)
        /\ UNCHANGED <<claimed, counter, counted, count, alerts, reported>>
    BY <1>P, <1>6 DEF Registers, historyVars
  <2>2. Others(d) /\ pc'[d] \in {"idle", "loop"}
    BY <1>0, <2>1, ContinuesAt DEF Others
  <2> QED
    BY <1>K, <2>1, <2>2 DEF Holding
<1>7. ASSUME NEW d \in Dispatchers, ClaimsLimit(d) PROVE CountsInv'
  <2>1. /\ d \in Procs /\ (Continues(d) \/ Goes(d, "send", win[d]))
        /\ UNCHANGED <<counter, counted, count, alerts, reported>>
        /\ claimed \subseteq claimed'
    BY <1>P, <1>7 DEF ClaimsLimit, historyVars
  <2>2. Others(d) /\ pc'[d] \in {"idle", "loop", "send"}
    BY <1>0, <2>1, ContinuesAt, GoesAt DEF Others, Points
  <2>3. d \notin Schedulers /\ pc'[d] # "take"
    BY <2>2, AlertAssumption
  <2> QED
    BY <2>1, <2>2, <2>3, CountsKept
<1>8. ASSUME NEW s \in Schedulers, Tick(s) PROVE CountsInv'
  <2>1. /\ Goes(s, "loop", NoWindow)
        /\ UNCHANGED <<claimed, counter, counted, count, alerts, reported>>
    BY <1>8 DEF Tick, storeVars, historyVars
  <2>2. Others(s) /\ pc'[s] = "loop"
    BY <1>0, <1>P, <2>1, GoesAt DEF Points, Others
  <2> QED
    BY <1>P, <1>K, <2>1, <2>2 DEF Holding
<1>9. ASSUME NEW s \in Schedulers, Unregisters(s) PROVE CountsInv'
  <2>1. PICK v : Goes(s, "claim", v)
    BY <1>9 DEF Unregisters
  <2>2. UNCHANGED <<claimed, counter, counted, count, alerts, reported>>
    BY <1>9 DEF Unregisters, historyVars
  <2>3. Others(s) /\ pc'[s] = "claim"
    BY <1>0, <1>P, <2>1, GoesAt DEF Points, Others
  <2> QED
    BY <1>P, <1>K, <2>2, <2>3 DEF Holding
<1>10. ASSUME NEW s \in Schedulers, Claims(s) PROVE CountsInv'
  <2>1. /\ s \in Procs /\ claimed \subseteq claimed' /\ win[s] \in Tumbling
        /\ UNCHANGED <<counter, counted, count, alerts, reported>>
    BY <1>0, <1>P, <1>10 DEF Claims, historyVars, ThreadsOK, ThreadOK
  <2>2. CASE Continues(s)
    <3>1. Others(s) /\ pc'[s] \in {"idle", "loop"}
      BY <1>0, <2>1, <2>2, ContinuesAt DEF Others
    <3> QED
      BY <1>K, <2>1, <3>1 DEF Holding
  <2>3. CASE win[s] \notin claimed /\ Goes(s, "take", win[s])
    <3>1. Others(s) /\ pc'[s] = "take" /\ win'[s] = win[s]
      BY <1>0, <2>1, <2>3, GoesAt DEF Others, Points
    <3>2. counter[win[s]] = counted[win[s]]
      BY <2>1, <2>3 DEF CountsInv
    <3> QED
      BY <2>1, <3>1, <3>2, CountsKept
  <2> QED
    BY <1>10, <2>2, <2>3 DEF Claims
<1>11. ASSUME NEW s \in Schedulers, Takes(s) PROVE CountsInv'
  <2>1. /\ s \in Procs /\ pc[s] = "take"
        /\ UNCHANGED <<counted, claimed, alerts, reported>>
        /\ (Continues(s) \/ Goes(s, "lookup", win[s]))
        /\ counter' = [counter EXCEPT ![win[s]] = 0]
        /\ count' = [count EXCEPT ![s] = counter[win[s]]]
    BY <1>P, <1>11 DEF Takes, historyVars
  <2>2. /\ Others(s) /\ pc'[s] \in {"idle", "loop", "lookup"}
        /\ pc'[s] = "lookup" => win'[s] = win[s]
    BY <1>0, <2>1, ContinuesAt, GoesAt DEF Others, Points
  <2>3. /\ count'[s] = counter[win[s]]
        /\ \A q \in Schedulers : q # s => count'[q] = count[q]
    BY <1>0, <1>P, <2>1 DEF ThreadsOK
  <2> QED
    BY <2>1, <2>2, <2>3, CountsTaken
<1>12. ASSUME NEW s \in Schedulers, LooksUp(s) PROVE CountsInv'
  <2>1. /\ s \in Procs /\ pc[s] = "lookup"
        /\ (Continues(s) \/ Goes(s, "send", win[s]))
        /\ UNCHANGED <<claimed, counter, counted, count, alerts, reported>>
    BY <1>P, <1>12 DEF LooksUp, storeVars, historyVars
  <2>2. /\ Others(s) /\ pc'[s] \in {"idle", "loop", "send"}
        /\ pc'[s] = "send" => win'[s] = win[s]
    BY <1>0, <2>1, ContinuesAt, GoesAt DEF Others, Points
  <2> QED
    BY <2>1, <2>2, CountsKept
<1>13. ASSUME NEW p \in Procs, Sends(p) PROVE CountsInv'
  BY <1>13, CountsSent
<1>14. ASSUME NEW p \in Procs, Fails(p) PROVE CountsInv'
  <2>0. UNCHANGED <<count, alerts, reported>>
    BY <1>14 DEF Fails
  <2>1. CASE DispatchFails(p)
    <3>1. Others(p) /\ pc'[p] = "idle"
      BY <1>0, <2>1, GoesAt DEF DispatchFails, Points, Others
    <3>2. CASE pc[p] = "count"
      <4>1. PICK n \in {0, 1} :
              /\ counter' = [counter EXCEPT ![win[p]] = @ + n]
              /\ counted' = [counted EXCEPT ![win[p]] = @ + n]
        BY <2>1, <3>2 DEF DispatchFails
      <4>2. UNCHANGED claimed /\ win[p] \in Windows
        BY <1>0, <2>1, <3>2 DEF DispatchFails, ThreadsOK, ThreadOK
      <4> QED
        BY <1>0, <2>0, <3>1, <4>1, <4>2, CountsGrow DEF Holding
    <3>3. CASE pc[p] # "count"
      <4>1. UNCHANGED <<counter, counted>> /\ claimed \subseteq claimed'
        BY <2>1, <3>3 DEF DispatchFails
      <4> QED
        BY <1>K, <2>0, <3>1, <4>1 DEF Holding
    <3> QED
      BY <3>2, <3>3
  <2>2. CASE UnregisterFails(p)
    <3>1. Goes(p, "idle", NoWindow) /\ UNCHANGED <<counter, counted, claimed>>
      BY <2>2 DEF UnregisterFails
    <3>2. Others(p) /\ pc'[p] = "idle"
      BY <1>0, <3>1, GoesAt DEF Points, Others
    <3> QED
      BY <1>K, <2>0, <3>1, <3>2 DEF Holding
  <2>3. CASE CloseFails(p)
    <3>1. /\ Continues(p) /\ claimed \subseteq claimed' /\ UNCHANGED counted
          /\ p \in Schedulers
      BY <2>3 DEF CloseFails
    <3>2. Others(p) /\ pc'[p] \in {"idle", "loop"}
      BY <1>0, <3>1, ContinuesAt DEF Others
    <3>3. CASE counter' = counter
      BY <1>K, <2>0, <3>1, <3>2, <3>3 DEF Holding
    <3>4. CASE /\ pc[p] = "take" /\ counter' = [counter EXCEPT ![win[p]] = 0]
               /\ UNCHANGED claimed
      BY <2>0, <3>1, <3>2, <3>4, CountsTaken
    <3> QED
      BY <2>3, <3>3, <3>4 DEF CloseFails
  <2> QED
    BY <1>14, <2>1, <2>2, <2>3 DEF Fails
<1>15. CASE UNCHANGED vars
  BY <1>15 DEF vars, CountsInv, AlertCountsEvents, storeVars, procVars, historyVars
<1> QED
  BY <1>1, <1>2, <1>3, <1>4, <1>5, <1>6, <1>7, <1>8, <1>9, <1>10, <1>11, <1>12,
     <1>13, <1>14, <1>15
     DEF Next, DispatcherStep, SchedulerStep, Waits, Procs

\* An alert reports every event counted in its window but those counted after its
\* scheduler took the counter, for any number of replicas, events and failed calls.
THEOREM AlertsCountEvents == Spec => []AlertCountsEvents
<1>1. Init => TypeOK /\ ClaimInv /\ CountsInv
  <2>1. Init => CountsInv
    BY WindowType DEF Init, CountsInv, AlertCountsEvents, Procs
  <2> QED
    BY <2>1, InitTypeOK, InitClaimInv
<1>2. TypeOK /\ ClaimInv /\ CountsInv /\ [Next]_vars
        => (TypeOK /\ ClaimInv /\ CountsInv)'
  BY NextTypeOK, NextClaimInv, NextCountsInv
<1>3. CountsInv => AlertCountsEvents
  BY DEF CountsInv
<1> QED
  BY <1>1, <1>2, <1>3, PTL DEF Spec
=============================================================================
