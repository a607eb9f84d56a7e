-------------------------- MODULE CeleryBufferProofs --------------------------
(* Safety of CeleryBuffer for any set of records, callers and timers and any *)
(* batch size.  The inductive invariant is IInv: TypeOK and Conservation,    *)
(* plus what each further property needs (see the comment of each part).     *)
EXTENDS CeleryBuffer, TLAPS

\* What the broker already holds and the process still does was taken in a send
\* that raised: without it a second send could duplicate a record silently.
DuplicatesInv ==
    /\ redelivered \subseteq unconfirmed
    /\ delivered \cap (fresh \cup buffer \cup Carried) \subseteq unconfirmed

\* While the process serves, `_timer` refers to a thread that will still flush.
TimerInv ==
    /\ pc[main] = "idle" /\ timer # NoTimer => pc[timer] \in {"pending", "fired"}
    /\ TimerCovers

\* Once close() has set `_closed`, every add() past the test is a late one; once
\* close() has emptied the buffer, only late and put-back records are in it.
CloseInv ==
    /\ closed => \A a \in Adders : pc[a] = "checked" => hand[a] \subseteq late
    /\ pc[main] \in {"sending", "done", "ended"} => buffer \subseteq returned \cup late

IInv == TypeOK /\ Conservation /\ DuplicatesInv /\ TimerInv /\ CloseInv

\* The three kinds of threads are distinct, so Points and AfterSend pick one case.
LEMMA ThreadKinds ==
    /\ main \in Threads /\ main \notin Adders /\ main \notin Timers
    /\ \A a \in Adders : a \in Threads /\ a \notin Timers /\ a # main
    /\ \A t \in Timers : t \in Threads /\ t \notin Adders /\ t # main
    /\ NoTimer \notin Timers
  BY BufferAssumption DEF Threads

LEMMA InitTypeOK == Init => TypeOK
  BY ThreadKinds DEF Init, TypeOK, Points

LEMMA NextTypeOK == TypeOK /\ [Next]_vars => TypeOK'
<1> SUFFICES ASSUME TypeOK, [Next]_vars PROVE TypeOK'
  OBVIOUS
<1> USE ThreadKinds DEF TypeOK
<1>1. ASSUME NEW a \in Adders, NEW i \in Items, AddCheck(a, i) PROVE TypeOK'
  BY <1>1 DEF AddCheck, Points
<1>2. ASSUME NEW a \in Adders, AppendFills(a) PROVE TypeOK'
  BY <1>2 DEF AppendFills, TakeAll, pcAfterTake, Points
<1>3. ASSUME NEW a \in Adders, AppendWaits(a) PROVE TypeOK'
  BY <1>3 DEF AppendWaits, Points
<1>4. ASSUME NEW t \in Timers, TimerFires(t) PROVE TypeOK'
  BY <1>4 DEF TimerFires, Points
<1>5. ASSUME NEW t \in Timers, OnTimer(t) PROVE TypeOK'
  BY <1>5 DEF OnTimer, Points
<1>6. ASSUME NEW t \in Threads, SendOk(t) PROVE TypeOK'
  BY <1>6 DEF SendOk, AfterSend, Points
<1>7. ASSUME NEW t \in Threads, SendFails(t) PROVE TypeOK'
  BY <1>7 DEF SendFails, PutBack, AfterSend, Points
<1>8. ASSUME NEW t \in Threads, SendUnconfirmed(t) PROVE TypeOK'
  BY <1>8 DEF SendUnconfirmed, PutBack, AfterSend, Points
<1>9. CASE Close
  BY <1>9 DEF Close, Adding, Points
<1>10. CASE CloseFlush
  BY <1>10 DEF CloseFlush, TakeAll, pcAfterTake, Points
<1>11. CASE End
  BY <1>11 DEF End, InFlight, Points
<1>12. CASE Ended \/ UNCHANGED vars
  BY <1>12 DEF Ended, vars, threadVars
<1>13. QED
  BY <1>1, <1>2, <1>3, <1>4, <1>5, <1>6, <1>7, <1>8, <1>9, <1>10, <1>11, <1>12
  DEF Next, Add, Send

\* Every state has the types, and each point its contents.
THEOREM TypeCorrect == Spec => []TypeOK
  BY InitTypeOK, NextTypeOK, PTL DEF Spec

-----------------------------------------------------------------------------
LEMMA InitIInv == Init => IInv
<1> SUFFICES ASSUME Init PROVE IInv
  OBVIOUS
<1>1. Carried = {}
  BY DEF Init, Carried
<1>2. QED
  BY <1>1, InitTypeOK, ThreadKinds
  DEF Init, IInv, Conservation, DuplicatesInv, TimerInv, TimerCovers, CloseInv

\* What a step that changes only t's hand does to the union of the hands.
LEMMA CarriedAfter ==
  ASSUME TypeOK, Conservation, NEW t \in Threads, NEW S,
         hand' = [hand EXCEPT ![t] = S]
  PROVE  Carried' = (Carried \ hand[t]) \cup S
  BY DEF TypeOK, Conservation, Carried

LEMMA CarriedEmptied ==
  ASSUME TypeOK, Conservation, NEW t \in Threads, hand' = [hand EXCEPT ![t] = {}]
  PROVE  Carried' = Carried \ hand[t]
<1>1. Carried' = (Carried \ hand[t]) \cup {}
  BY CarriedAfter
<1>2. QED
  BY <1>1

LEMMA NextConservation ==
  TypeOK /\ Conservation /\ [Next]_vars => Conservation'
<1> SUFFICES ASSUME TypeOK, Conservation, [Next]_vars PROVE Conservation'
  OBVIOUS
<1>t. TypeOK'
  BY NextTypeOK
<1>c. \A t \in Threads : hand[t] \subseteq Carried
  BY DEF Carried
<1> USE <1>t, <1>c, ThreadKinds
<1>1. ASSUME NEW a \in Adders, NEW i \in Items, AddCheck(a, i) PROVE Conservation'
  <2>1. CASE closed
    BY <1>1, <2>1 DEF AddCheck, Conservation, Carried
  <2>2. CASE ~closed
    <3>1. hand[a] = {}
      BY <1>1 DEF AddCheck, TypeOK
    <3>2. Carried' = Carried \cup {i}
      BY <1>1, <2>2, <3>1, CarriedAfter DEF AddCheck, Conservation
    <3>3. QED
      BY <1>1, <2>2, <3>1, <3>2 DEF AddCheck, Conservation, TypeOK
  <2>3. QED
    BY <2>1, <2>2
<1>2. ASSUME NEW a \in Adders, AppendFills(a) PROVE Conservation'
  <2>1. Carried' = Carried \cup buffer
    <3>1. hand' = [hand EXCEPT ![a] = buffer \cup hand[a]]
      BY <1>2 DEF AppendFills, TakeAll
    <3>2. Carried' = (Carried \ hand[a]) \cup (buffer \cup hand[a])
      BY <3>1, CarriedAfter
    <3>3. QED
      BY <3>2
  <2>2. QED
    BY <1>2, <2>1 DEF AppendFills, TakeAll, Conservation, TypeOK
<1>3. ASSUME NEW a \in Adders, AppendWaits(a) PROVE Conservation'
  <2>1. Carried' = Carried \ hand[a]
    BY <1>3, CarriedEmptied DEF AppendWaits
  <2>2. QED
    BY <1>3, <2>1 DEF AppendWaits, Conservation, TypeOK
<1>4. ASSUME NEW t \in Timers, TimerFires(t) PROVE Conservation'
  BY <1>4 DEF TimerFires, Conservation, Carried
<1>5. ASSUME NEW t \in Timers, OnTimer(t) PROVE Conservation'
  <2>1. CASE buffer = {}
    BY <1>5, <2>1 DEF OnTimer, Conservation, Carried
  <2>2. CASE buffer # {}
    <3>1. hand[t] = {}
      BY <1>5 DEF OnTimer, TypeOK
    <3>2. Carried' = Carried \cup buffer
      BY <1>5, <2>2, <3>1, CarriedAfter DEF OnTimer
    <3>3. QED
      BY <1>5, <2>2, <3>1, <3>2 DEF OnTimer, Conservation, TypeOK
  <2>3. QED
    BY <2>1, <2>2
<1>6. ASSUME NEW t \in Threads, SendOk(t) PROVE Conservation'
  <2>1. Carried' = Carried \ hand[t]
    BY <1>6, CarriedEmptied DEF SendOk
  <2>2. QED
    BY <1>6, <2>1 DEF SendOk, Conservation, TypeOK
<1>7. ASSUME NEW t \in Threads, SendFails(t) \/ SendUnconfirmed(t) PROVE Conservation'
  <2>1. Carried' = Carried \ hand[t]
    BY <1>7, CarriedEmptied DEF SendFails, SendUnconfirmed, PutBack
  <2>2. QED
    BY <1>7, <2>1 DEF SendFails, SendUnconfirmed, PutBack, Conservation, TypeOK
<1>8. CASE Close
  BY <1>8 DEF Close, Conservation, Carried
<1>9. CASE CloseFlush
  <2>1. CASE buffer = {}
    BY <1>9, <2>1 DEF CloseFlush, TakeAll, Conservation, Carried
  <2>2. CASE buffer # {}
    <3>1. hand[main] = {}
      BY <1>9 DEF CloseFlush, TypeOK
    <3>2. Carried' = Carried \cup buffer
      BY <1>9, <2>2, <3>1, CarriedAfter DEF CloseFlush, TakeAll
    <3>3. QED
      BY <1>9, <2>2, <3>1, <3>2 DEF CloseFlush, TakeAll, Conservation, TypeOK
  <2>3. QED
    BY <2>1, <2>2
<1>10. CASE End
  <2>1. Carried = InFlight
    BY <1>10 DEF End, Carried, InFlight, TypeOK, Points, Threads
  <2>2. Carried' = {}
    BY <1>10 DEF End, Carried
  <2>3. QED
    BY <1>10, <2>1, <2>2 DEF End, Conservation, TypeOK
<1>11. CASE Ended \/ UNCHANGED vars
  BY <1>11 DEF Ended, vars, threadVars, Conservation, Carried
<1>12. QED
  BY <1>1, <1>2, <1>3, <1>4, <1>5, <1>6, <1>7, <1>8, <1>9, <1>10, <1>11
  DEF Next, Add, Send

LEMMA NextDuplicates ==
  TypeOK /\ Conservation /\ DuplicatesInv /\ [Next]_vars => DuplicatesInv'
<1> SUFFICES ASSUME TypeOK, Conservation, DuplicatesInv, [Next]_vars
             PROVE  DuplicatesInv'
  OBVIOUS
<1>c. \A t \in Threads : hand[t] \subseteq Carried
  BY DEF Carried
<1> USE <1>c, ThreadKinds DEF DuplicatesInv
<1>1. ASSUME NEW a \in Adders, NEW i \in Items, AddCheck(a, i) PROVE DuplicatesInv'
  <2>1. Carried' \subseteq Carried \cup {i}
    BY <1>1 DEF AddCheck, Carried, TypeOK
  <2>2. QED
    BY <1>1, <2>1 DEF AddCheck
<1>2. ASSUME NEW a \in Adders, Add(a) PROVE DuplicatesInv'
  <2>1. Carried' \cup buffer' \subseteq Carried \cup buffer
    BY <1>2 DEF Add, AppendFills, AppendWaits, TakeAll, Carried, TypeOK
  <2>2. QED
    BY <1>2, <2>1 DEF Add, AppendFills, AppendWaits
<1>3. ASSUME NEW t \in Timers, TimerFires(t) \/ OnTimer(t) PROVE DuplicatesInv'
  <2>1. Carried' \cup buffer' \subseteq Carried \cup buffer
    BY <1>3 DEF TimerFires, OnTimer, Carried, TypeOK
  <2>2. QED
    BY <1>3, <2>1 DEF TimerFires, OnTimer
<1>4. ASSUME NEW t \in Threads, SendOk(t) PROVE DuplicatesInv'
  <2>1. Carried' = Carried \ hand[t]
    BY <1>4, CarriedEmptied DEF SendOk
  <2>2. QED
    BY <1>4, <2>1 DEF SendOk, Conservation, TypeOK
<1>5. ASSUME NEW t \in Threads, SendFails(t) \/ SendUnconfirmed(t) PROVE DuplicatesInv'
  <2>1. Carried' = Carried \ hand[t]
    BY <1>5, CarriedEmptied DEF SendFails, SendUnconfirmed, PutBack
  <2>2. QED
    BY <1>5, <2>1 DEF SendFails, SendUnconfirmed, PutBack
<1>6. CASE Close \/ CloseFlush \/ End
  <2>1. Carried' \cup buffer' \subseteq Carried \cup buffer
    BY <1>6 DEF Close, CloseFlush, End, TakeAll, Carried, TypeOK
  <2>2. QED
    BY <1>6, <2>1 DEF Close, CloseFlush, End
<1>7. CASE Ended \/ UNCHANGED vars
  BY <1>7 DEF Ended, vars, threadVars, Carried
<1>8. QED
  BY <1>1, <1>2, <1>3, <1>4, <1>5, <1>6, <1>7 DEF Next, Send

LEMMA NextTimer == TypeOK /\ TimerInv /\ [Next]_vars => TimerInv'
<1> SUFFICES ASSUME TypeOK, TimerInv, [Next]_vars PROVE TimerInv'
  OBVIOUS
<1> USE ThreadKinds DEF TimerInv, TimerCovers, TypeOK
<1>1. ASSUME NEW a \in Adders, NEW i \in Items, AddCheck(a, i) PROVE TimerInv'
  BY <1>1 DEF AddCheck
<1>2. ASSUME NEW a \in Adders, AppendFills(a) PROVE TimerInv'
  BY <1>2 DEF AppendFills, TakeAll
<1>3. ASSUME NEW a \in Adders, AppendWaits(a) PROVE TimerInv'
  <2>1. CASE timer # NoTimer
    BY <1>3, <2>1 DEF AppendWaits
  <2>2. CASE timer = NoTimer
    BY <1>3, <2>2 DEF AppendWaits
  <2>3. QED
    BY <2>1, <2>2
<1>4. ASSUME NEW t \in Timers, TimerFires(t) PROVE TimerInv'
  BY <1>4 DEF TimerFires
<1>5. ASSUME NEW t \in Timers, OnTimer(t) PROVE TimerInv'
  BY <1>5 DEF OnTimer
<1>6. ASSUME NEW t \in Threads, Send(t) PROVE TimerInv'
  <2>1. \A u \in Timers : pc[u] \in {"pending", "fired"} => pc'[u] = pc[u]
    BY <1>6 DEF Send, SendOk, SendFails, SendUnconfirmed, PutBack
  <2>2. pc'[main] = "idle" => pc[main] = "idle"
    BY <1>6 DEF Send, SendOk, SendFails, SendUnconfirmed, PutBack, AfterSend
  <2>3. timer' = timer /\ (buffer' \subseteq returned' \/ ~ buffer \subseteq returned)
    BY <1>6 DEF Send, SendOk, SendFails, SendUnconfirmed, PutBack
  <2>4. QED
    BY <2>1, <2>2, <2>3
<1>7. CASE Close \/ CloseFlush \/ End
  BY <1>7 DEF Close, CloseFlush, End, TakeAll, pcAfterTake
<1>8. CASE Ended \/ UNCHANGED vars
  BY <1>8 DEF Ended, vars, threadVars
<1>9. QED
  BY <1>1, <1>2, <1>3, <1>4, <1>5, <1>6, <1>7, <1>8 DEF Next, Add

LEMMA NextClose == TypeOK /\ CloseInv /\ [Next]_vars => CloseInv'
<1> SUFFICES ASSUME TypeOK, CloseInv, [Next]_vars PROVE CloseInv'
  OBVIOUS
<1> USE ThreadKinds DEF CloseInv, TypeOK
<1>1. ASSUME NEW a \in Adders, NEW i \in Items, AddCheck(a, i) PROVE CloseInv'
  BY <1>1 DEF AddCheck
<1>2. ASSUME NEW a \in Adders, AppendFills(a) PROVE CloseInv'
  BY <1>2 DEF AppendFills, TakeAll, pcAfterTake
<1>3. ASSUME NEW a \in Adders, AppendWaits(a) PROVE CloseInv'
  BY <1>3 DEF AppendWaits
<1>4. ASSUME NEW t \in Timers, TimerFires(t) \/ OnTimer(t) PROVE CloseInv'
  BY <1>4 DEF TimerFires, OnTimer
<1>5. ASSUME NEW t \in Threads, Send(t) PROVE CloseInv'
  BY <1>5 DEF Send, SendOk, SendFails, SendUnconfirmed, PutBack, AfterSend
<1>6. CASE Close
  BY <1>6 DEF Close, Adding
<1>7. CASE CloseFlush
  BY <1>7 DEF CloseFlush, TakeAll, pcAfterTake
<1>8. CASE End
  BY <1>8 DEF End
<1>9. CASE Ended \/ UNCHANGED vars
  BY <1>9 DEF Ended, vars, threadVars
<1>10. QED
  BY <1>1, <1>2, <1>3, <1>4, <1>5, <1>6, <1>7, <1>8, <1>9 DEF Next, Add

LEMMA Inductive == Spec => []IInv
<1>1. IInv /\ [Next]_vars => IInv'
  BY NextTypeOK, NextConservation, NextDuplicates, NextTimer, NextClose DEF IInv
<1>2. QED
  BY InitIInv, <1>1, PTL DEF Spec

\* Every record is somewhere, and is held in one place only.
THEOREM ConservationHolds == Spec => []Conservation
  BY Inductive, PTL DEF IInv

\* The broker takes a record twice only after a send it took was reported failed.
THEOREM DuplicatesExplained == Spec => []DuplicateOnlyIfUnconfirmed
<1>1. IInv => DuplicateOnlyIfUnconfirmed
  BY DEF IInv, DuplicatesInv, DuplicateOnlyIfUnconfirmed
<1>2. QED
  BY Inductive, <1>1, PTL

\* A buffered record that no failed send put back always has a timer to come.
THEOREM TimerCoversHolds == Spec => []TimerCovers
<1>1. IInv => TimerCovers
  BY DEF IInv, TimerInv
<1>2. QED
  BY Inductive, <1>1, PTL

\* The three reasons for which an accepted record can be lost.
THEOREM LossCausesHold == Spec => LossCauses
<1>1. ASSUME IInv, [Next]_vars
      PROVE  [lost' \ lost \subseteq
                returned \cup late \cup UNION {hand[t] : t \in Timers}]_vars
  <2> USE <1>1 DEF IInv
  <2>1. CASE End
    <3>1. InFlight \subseteq UNION {hand[t] : t \in Timers}
      BY <2>1, ThreadKinds DEF End, InFlight, Threads, TypeOK
    <3>2. buffer \subseteq returned \cup late
      BY <2>1 DEF End, CloseInv
    <3>3. QED
      BY <2>1, <3>1, <3>2 DEF End
  <2>2. CASE ~End
    <3>1. lost' = lost
      BY <2>2 DEF Next, vars, threadVars, AddCheck, Add, AppendFills, AppendWaits,
         TimerFires, OnTimer, Send, SendOk, SendFails, SendUnconfirmed, PutBack,
         Close, CloseFlush, Ended
    <3>2. QED
      BY <3>1
  <2>3. QED
    BY <2>1, <2>2
<1>2. QED
  BY Inductive, <1>1, PTL DEF Spec, LossCauses
-----------------------------------------------------------------------------
(* Refinement.  Only one thread's hand changes in a step, so Adding and      *)
(* InFlight change by what that thread gains or gives up.                    *)

OthersSame(t) ==
    \A u \in Threads \ {t} :
        /\ hand'[u] = hand[u]
        /\ pc'[u] = "sending" <=> pc[u] = "sending"
        /\ pc'[u] = "checked" <=> pc[u] = "checked"

LEMMA InFlightAfter ==
  ASSUME TypeOK, Conservation, NEW t \in Threads, OthersSame(t)
  PROVE  /\ pc'[t] = "sending" => InFlight' = (InFlight \ hand[t]) \cup hand'[t]
         /\ pc'[t] # "sending" => InFlight' = InFlight \ hand[t]
  BY DEF TypeOK, Conservation, OthersSame, InFlight

LEMMA AddingAfter ==
  ASSUME TypeOK, Conservation, NEW t \in Threads, OthersSame(t)
  PROVE  /\ pc'[t] = "checked" => Adding' = (Adding \ hand[t]) \cup hand'[t]
         /\ pc'[t] # "checked" => Adding' = Adding \ hand[t]
  BY DEF TypeOK, Conservation, OthersSame, Adding

LEMMA HandsPlaced ==
  ASSUME TypeOK, Conservation
  PROVE  /\ \A t \in Threads : pc[t] = "sending" => hand[t] \subseteq InFlight
         /\ \A t \in Threads : pc[t] = "checked" => hand[t] \subseteq Adding
         /\ \A t \in Threads : pc[t] # "sending" => hand[t] \cap InFlight = {}
         /\ \A t \in Threads : pc[t] # "checked" => hand[t] \cap Adding = {}
         /\ Adding \subseteq Carried /\ InFlight \subseteq Carried
         /\ Adding \cap InFlight = {}
  BY DEF TypeOK, Conservation, Adding, InFlight, Carried

LEMMA RefinesStep ==
  TypeOK /\ TypeOK' /\ Conservation /\ [Next]_vars => [Delivery!Next]_(Delivery!vars)
<1> SUFFICES ASSUME TypeOK, TypeOK', Conservation, [Next]_vars
             PROVE  [Delivery!Next]_(Delivery!vars)
  OBVIOUS
<1> USE ThreadKinds, HandsPlaced
<1>s. (\E i \in Items : Delivery!Accept(i) \/ Delivery!Refuse(i))
      \/ (\E S \in SUBSET Items : Delivery!Deliver(S) \/ Delivery!DeliverUnconfirmed(S))
      \/ Delivery!End \/ UNCHANGED Delivery!vars
      => [Delivery!Next]_(Delivery!vars)
  BY DEF Delivery!Next
<1>1. ASSUME NEW a \in Adders, NEW i \in Items, AddCheck(a, i)
      PROVE  [Delivery!Next]_(Delivery!vars)
  <2>1. CASE closed
    <3>1. Adding' = Adding /\ InFlight' = InFlight
      BY <1>1, <2>1 DEF AddCheck, Adding, InFlight
    <3>2. i \notin Adding
      BY <1>1 DEF AddCheck, Conservation
    <3>3. Delivery!Refuse(i)
      BY <1>1, <2>1, <3>1, <3>2 DEF AddCheck, Delivery!Refuse
    <3>4. QED
      BY <3>3, <1>s
  <2>2. CASE ~closed
    <3>1. OthersSame(a) /\ hand[a] = {} /\ pc'[a] = "checked" /\ hand'[a] = {i}
      BY <1>1, <2>2 DEF AddCheck, OthersSame, TypeOK
    <3>2. Adding' = Adding \cup {i} /\ InFlight' = InFlight
      <4>1. Adding' = (Adding \ {}) \cup {i}
        BY <3>1, AddingAfter
      <4>2. InFlight' = InFlight \ {}
        BY <3>1, InFlightAfter
      <4>3. QED
        BY <4>1, <4>2
    <3>3. UNCHANGED Delivery!vars
      BY <1>1, <2>2, <3>2 DEF AddCheck, Delivery!vars
    <3>4. QED
      BY <3>3, <1>s
  <2>3. QED
    BY <2>1, <2>2
<1>2. ASSUME NEW a \in Adders, Add(a)
      PROVE  [Delivery!Next]_(Delivery!vars)
  <2>1. PICK i \in Items : hand[a] = {i}
    BY <1>2 DEF Add, AppendFills, AppendWaits, TypeOK
  <2>2. OthersSame(a) /\ pc'[a] # "checked" /\ pc[a] = "checked"
    BY <1>2 DEF Add, AppendFills, AppendWaits, TakeAll, pcAfterTake, OthersSame, TypeOK
  <2>3. Adding' = Adding \ {i}
    BY <2>1, <2>2, AddingAfter
  <2>4. buffer' \cup InFlight' = buffer \cup InFlight \cup {i}
    <3>1. CASE AppendFills(a)
      <4>1. pc'[a] = "sending" /\ hand'[a] = buffer \cup {i} /\ buffer' = {}
        BY <3>1, <2>1 DEF AppendFills, TakeAll, pcAfterTake, TypeOK
      <4>2. InFlight' = (InFlight \ hand[a]) \cup (buffer \cup {i})
        BY <4>1, <2>2, InFlightAfter
      <4>3. QED
        BY <4>1, <4>2, <2>1
    <3>2. CASE AppendWaits(a)
      <4>1. pc'[a] # "sending" /\ buffer' = buffer \cup {i}
        BY <3>2, <2>1 DEF AppendWaits, TypeOK
      <4>2. InFlight' = InFlight \ hand[a]
        BY <4>1, <2>2, InFlightAfter
      <4>3. QED
        BY <4>1, <4>2, <2>1, <2>2
    <3>3. QED
      BY <1>2, <3>1, <3>2 DEF Add
  <2>5. UNCHANGED <<fresh, delivered, dropped, lost>>
    BY <1>2 DEF Add, AppendFills, AppendWaits
  <2>6. i \in Adding /\ i \notin fresh
    BY <2>1, <2>2 DEF Conservation
  <2>7. Delivery!Accept(i)
    BY <2>3, <2>4, <2>5, <2>6 DEF Delivery!Accept
  <2>8. QED
    BY <2>7, <1>s
<1>3. ASSUME NEW t \in Timers, TimerFires(t)
      PROVE  [Delivery!Next]_(Delivery!vars)
  <2>1. Adding' = Adding /\ InFlight' = InFlight
    BY <1>3 DEF TimerFires, Adding, InFlight, TypeOK
  <2>2. UNCHANGED Delivery!vars
    BY <1>3, <2>1 DEF TimerFires, Delivery!vars
  <2>3. QED
    BY <2>2, <1>s
<1>4. ASSUME NEW t \in Threads, OnTimer(t) \/ (t = main /\ CloseFlush)
      PROVE  [Delivery!Next]_(Delivery!vars)
  <2>1. hand[t] = {} /\ OthersSame(t) /\ pc'[t] # "checked"
    BY <1>4 DEF OnTimer, CloseFlush, TakeAll, pcAfterTake, OthersSame, TypeOK
  <2>2. Adding' = Adding
    BY <2>1, AddingAfter
  <2>3. \/ pc'[t] = "sending" /\ hand'[t] = buffer /\ buffer' = {}
        \/ pc'[t] # "sending" /\ buffer' = buffer
    BY <1>4 DEF OnTimer, CloseFlush, TakeAll, pcAfterTake, TypeOK
  <2>4. buffer' \cup InFlight' = buffer \cup InFlight
    BY <2>1, <2>3, InFlightAfter
  <2>5. UNCHANGED Delivery!vars
    BY <1>4, <2>2, <2>4 DEF OnTimer, CloseFlush, Delivery!vars
  <2>6. QED
    BY <2>5, <1>s
<1>5. ASSUME NEW t \in Threads, Send(t)
      PROVE  [Delivery!Next]_(Delivery!vars)
  <2>1. OthersSame(t) /\ pc[t] = "sending" /\ pc'[t] \notin {"sending", "checked"}
    BY <1>5 DEF Send, SendOk, SendFails, SendUnconfirmed, PutBack, AfterSend,
       OthersSame, TypeOK
  <2>2. Adding' = Adding /\ InFlight' = InFlight \ hand[t]
    <3>1. Adding' = Adding \ hand[t] /\ hand[t] \cap Adding = {}
      BY <2>1, AddingAfter
    <3>2. InFlight' = InFlight \ hand[t]
      BY <2>1, InFlightAfter
    <3>3. QED
      BY <3>1, <3>2
  <2>3. hand[t] \subseteq InFlight /\ hand[t] \cap buffer = {} /\ hand[t] \in SUBSET Items
    BY <2>1 DEF TypeOK, Conservation
  <2>4. CASE SendOk(t)
    <3>1. Delivery!Deliver(hand[t])
      BY <2>2, <2>3, <2>4 DEF SendOk, Delivery!Deliver
    <3>2. QED
      BY <3>1, <2>3, <1>s
  <2>5. CASE SendFails(t)
    <3>1. UNCHANGED Delivery!vars
      BY <2>2, <2>3, <2>5 DEF SendFails, PutBack, Delivery!vars
    <3>2. QED
      BY <3>1, <1>s
  <2>6. CASE SendUnconfirmed(t)
    <3>1. Delivery!DeliverUnconfirmed(hand[t])
      BY <2>2, <2>3, <2>6 DEF SendUnconfirmed, PutBack, Delivery!DeliverUnconfirmed
    <3>2. QED
      BY <3>1, <2>3, <1>s
  <2>7. QED
    BY <1>5, <2>4, <2>5, <2>6 DEF Send
<1>6. CASE Close
  <2>1. Adding' = Adding /\ InFlight' = InFlight
    BY <1>6 DEF Close, Adding, InFlight, TypeOK
  <2>2. UNCHANGED Delivery!vars
    BY <1>6, <2>1 DEF Close, Delivery!vars
  <2>3. QED
    BY <2>2, <1>s
<1>7. CASE End
  <2>1. Adding = {} /\ Adding' = {} /\ InFlight' = {}
    BY <1>7 DEF End, Adding, InFlight, TypeOK, Points
  <2>2. Delivery!End
    BY <1>7, <2>1 DEF End, Delivery!End
  <2>3. QED
    BY <2>2, <1>s
<1>8. CASE Ended \/ UNCHANGED vars
  <2>1. UNCHANGED Delivery!vars
    BY <1>8 DEF Ended, vars, threadVars, Delivery!vars, Adding, InFlight
  <2>2. QED
    BY <2>1, <1>s
<1>9. QED
  BY <1>1, <1>2, <1>3, <1>4, <1>5, <1>6, <1>7, <1>8 DEF Next

\* The timers, the batches and the lock are invisible to a caller: CeleryBuffer
\* implements EventDelivery, for any number of callers, timers and any batch size.
THEOREM ImplementsDelivery == Spec => DeliverySpec
<1>1. Init => Delivery!Init
  BY ThreadKinds DEF Init, Delivery!Init, Adding, InFlight
<1>2. Spec => []TypeOK /\ []Conservation
  BY TypeCorrect, ConservationHolds
<1>3. QED
  BY <1>1, <1>2, RefinesStep, PTL DEF Spec, DeliverySpec, Delivery!Spec
=============================================================================
