-------------------------- MODULE RouteLimitsProofs --------------------------
(* Safety of RouteLimits for any number of concurrent requests, any handlers *)
(* and any windows.  OvershootInv strengthens OvershootBounded with the      *)
(* charges that requests past their check still have to make; ThresholdInv   *)
(* strengthens the two threshold properties; SpendAccounted is inductive     *)
(* where the plans charge in time, and needs what a sum over the slots is.   *)
(* Then safety of ChatPipeline, for any routes, requests and messages.       *)
EXTENDS RouteLimits, ChatPipeline, FiniteSetTheorems, WellFoundedInduction, TLAPS

\* The charges on w that a request past its check of w still has to make.
Due(w) ==
    {c \in ChargeSteps(w) :
        /\ pc[c[1]] # 0
        /\ pc[c[1]] <= c[2]
        /\ Checked(c[1], pc[c[1]], w)}

\* Every charge still due is inside the ceiling already.
OvershootInv ==
    \A w \in Windows :
        count[w] + MaxAmount * Cardinality(Due(w)) <= Ceiling[w] + ahead[w]

-----------------------------------------------------------------------------
LEMMA MulType == \A a, b \in Nat : a * b \in Nat
  OBVIOUS

LEMMA AddMulType ==
    ASSUME NEW a \in Nat, NEW b \in Nat, NEW c \in Nat
    PROVE  a + b * c \in Nat
  BY MulType

\* The step a slot is at is one of the three kinds.
LEMMA StepType ==
    ASSUME TypeOK, NEW s \in Slots, pc[s] # 0
    PROVE  /\ pc[s] \in 1..Len(Plan[s])
           /\ Step(s) \in Checks \cup Charges \cup Calls
           /\ Step(s).op = "check" => Step(s) \in Checks
           /\ Step(s).op = "charge" => Step(s) \in Charges
           /\ Step(s).op = "call" => Step(s) \in Calls
<1>1. Plan[s] \in Seq(Checks \cup Charges \cup Calls)
  BY LimitsAssumption
<1>2. pc[s] \in 1..Len(Plan[s])
  BY <1>1 DEF TypeOK
<1>3. Step(s) \in Checks \cup Charges \cup Calls
  BY <1>1, <1>2 DEF Step
<1> QED
  BY <1>2, <1>3 DEF Checks, Charges, Calls

\* The next program counter is a step of the plan, or 0 at its end.
LEMMA AfterType ==
    ASSUME TypeOK, NEW s \in Slots, pc[s] # 0
    PROVE  After(s) \in Nat /\ After(s) <= Len(Plan[s])
<1>1. Plan[s] \in Seq(Checks \cup Charges \cup Calls)
  BY LimitsAssumption
<1> QED
  BY <1>1, StepType DEF After, TypeOK

\* What a slot owes is a number.
LEMMA OwingType ==
    ASSUME TypeOK, NEW s \in Slots, NEW w \in Windows
    PROVE  Owing(s, w) \in Nat
<1>1. CASE pc[s] = 0
  BY <1>1 DEF Owing
<1>2. CASE pc[s] # 0
  <2> DEFINE Still == {k \in pc[s]..Len(Plan[s]) :
             /\ Plan[s][k].op = "charge"
             /\ Plan[s][k].win = w
             /\ \E j \in 1..(pc[s] - 1) : Plan[s][j].op = "call"
             /\ \A j \in pc[s]..k : Plan[s][j].op # "call"}
  <2>1. /\ pc[s] \in DOMAIN Plan[s]
        /\ pc[s] \in Int /\ Len(Plan[s]) \in Int
    BY <1>2, StepType, LimitsAssumption
  <2>2. Cardinality(Still) \in Nat
    BY <2>1, FS_Interval, FS_Subset, FS_CardinalityType
  <2>3. Owing(s, w) = Cardinality(Still)
    BY <1>2, <2>1 DEF Owing, Owed, OwedAt
  <2> QED
    BY <2>2, <2>3
<1> QED
  BY <1>1, <1>2

\* What is cut off leaves the histories numbers and the slot without events.
LEMMA CutsOffType ==
    ASSUME TypeOK, NEW s \in Slots, CutsOff(s)
    PROVE  /\ pending' \in [Slots -> Events] /\ missed' \subseteq Thresholds
           /\ lost' \in [Windows -> Nat] /\ breaks' \in 0..MaxBreaks
           /\ UNCHANGED <<live, count, serial, emitted, spend, ahead>>
<1>1. \A w \in Windows : lost[w] + amount[s] * Owing(s, w) \in Nat
  <2> TAKE w \in Windows
  <2>1. lost[w] \in Nat /\ amount[s] \in Nat
    BY LimitsAssumption DEF TypeOK
  <2> QED
    BY <2>1, OwingType, AddMulType
<1>2. lost' \in [Windows -> Nat]
  BY <1>1 DEF CutsOff
<1>3. pending' \in [Slots -> Events]
  BY DEF CutsOff, TypeOK, Events
<1> QED
  BY <1>2, <1>3, LimitsAssumption DEF CutsOff, TypeOK, windowVars

\* The step a handler goes on at is one of its plan.
LEMMA GoesOnType ==
    ASSUME TypeOK, NEW s \in Slots, NEW n \in 1..Len(Plan[s]),
           pc' = [pc EXCEPT ![s] = n]
    PROVE  pc' \in [Slots -> Nat] /\ \A v \in Slots : pc'[v] <= Len(Plan[v])
<1>1. Len(Plan[s]) \in Nat
  BY LimitsAssumption
<1> QED
  BY <1>1 DEF TypeOK

LEMMA InitTypeOK == Init => TypeOK
  BY LimitsAssumption DEF Init, TypeOK, Events, NoEvent, Thresholds

LEMMA NextTypeOK == TypeOK /\ [Next]_vars => TypeOK'
<1> SUFFICES ASSUME TypeOK, [Next]_vars PROVE TypeOK'
  OBVIOUS
<1> USE LimitsAssumption
<1>1. ASSUME NEW s \in Slots, Start(s) PROVE TypeOK'
  <2>1. Len(Plan[s]) >= 1
    BY LimitsAssumption
  <2> QED
    BY <1>1, <2>1 DEF Start, TypeOK, windowVars, eventVars, billVars
<1>2. ASSUME NEW s \in Slots, CheckPasses(s) PROVE TypeOK'
  BY <1>2, StepType, AfterType
     DEF CheckPasses, At, TypeOK, Checks, windowVars, eventVars, billVars
<1>3. ASSUME NEW s \in Slots, CheckFails(s) PROVE TypeOK'
  <2>1. Len(Plan[s]) \in Nat
    BY LimitsAssumption
  <2> QED
    BY <1>3, <2>1 DEF CheckFails, TypeOK, windowVars, eventVars, billVars
<1>4. ASSUME NEW s \in Slots, Charge(s) PROVE TypeOK'
  <2> DEFINE w == Step(s).win
             id == IF w \in live THEN serial[w] ELSE serial[w] + 1
             crossed == Crossed(w, count[w], count[w] + amount[s])
  <2>1. w \in Windows
    BY <1>4, StepType DEF Charge, At, Charges
  <2>2. id \in 1..MaxSerial /\ crossed \in SUBSET Percentages
    BY <2>1 DEF TypeOK, Crossed
  <2>3. [win |-> {w}, id |-> id, pcts |-> crossed] \in Events
    BY <2>1, <2>2 DEF Events
  <2>4. pending' \in [Slots -> Events]
    BY <1>4, <2>3 DEF Charge, TypeOK
  <2>5. count' \in [Windows -> Nat] /\ count' = [count EXCEPT ![w] = @ + amount[s]]
    BY <1>4, <2>1 DEF Charge, TypeOK
  <2>6. /\ serial' = [serial EXCEPT ![w] = id] /\ live' = live \cup {w}
        /\ pc' = [pc EXCEPT ![s] = After(s)]
        /\ UNCHANGED <<eventVars, spend, lost, breaks>>
    BY <1>4 DEF Charge
  <2>7. After(s) \in Nat /\ After(s) <= Len(Plan[s])
    BY <1>4, AfterType DEF Charge, At
  <2>12. amount' \in [Slots -> 0..MaxAmount]
    BY <1>4, LimitsAssumption DEF Charge, TypeOK
  <2>13. ahead' \in [Windows -> Nat]
    <3>1. ahead[w] + amount[s] \in Nat
      BY <2>1, LimitsAssumption DEF TypeOK
    <3>2. \/ ahead' = ahead
          \/ ahead' = [ahead EXCEPT ![w] = ahead[w] + amount[s]]
      BY <1>4 DEF Charge
    <3> HIDE DEF w
    <3> QED
      BY <2>1, <3>1, <3>2 DEF TypeOK
  <2> HIDE DEF w, id, crossed
  <2>8. \A v \in Windows \ live' : count'[v] = 0 /\ serial'[v] < MaxSerial
    BY <2>5, <2>6, <2>1 DEF TypeOK
  <2>9. \A v \in live' : serial'[v] > 0
    BY <2>6, <2>1, <2>2 DEF TypeOK
  <2>10. serial' \in [Windows -> 0..MaxSerial] /\ live' \subseteq Windows
    BY <2>6, <2>1, <2>2 DEF TypeOK
  <2>11. pc' \in [Slots -> Nat] /\ \A v \in Slots : pc'[v] <= Len(Plan[v])
    BY <2>6, <2>7 DEF TypeOK
  <2> QED
    BY <2>4, <2>5, <2>6, <2>8, <2>9, <2>10, <2>11, <2>12, <2>13
       DEF TypeOK, eventVars
<1>5. ASSUME NEW s \in Slots, EmitThresholds(s) PROVE TypeOK'
  <2>1. emitted' \in [Thresholds -> Nat]
    BY <1>5 DEF EmitThresholds, TypeOK
  <2>2. pending' \in [Slots -> Events]
    BY <1>5 DEF EmitThresholds, TypeOK, Events
  <2> QED
    BY <1>5, <2>1, <2>2 DEF EmitThresholds, TypeOK, windowVars, billVars
<1>6. ASSUME NEW s \in Slots, Call(s) PROVE TypeOK'
  <2>1. PICK u \in Usages :
            /\ amount' = [amount EXCEPT ![s] = u]
            /\ spend' = [w \in Windows |-> spend[w] + u * Step(s).bills[w]]
    BY <1>6 DEF Call
  <2>2. u \in 0..MaxAmount /\ u \in Nat
    OBVIOUS
  <2>3. Step(s).bills \in [Windows -> Nat]
    BY <1>6, StepType DEF Call, At, Calls
  <2>4. \A w \in Windows : spend[w] + u * Step(s).bills[w] \in Nat
    <3> QED
      BY <2>2, <2>3, AddMulType DEF TypeOK
  <2>5. spend' \in [Windows -> Nat] /\ amount' \in [Slots -> 0..MaxAmount]
    BY <2>1, <2>2, <2>4 DEF TypeOK
  <2> QED
    BY <1>6, <2>5, AfterType DEF Call, At, TypeOK, windowVars, eventVars
<1>7. ASSUME NEW s \in Slots, EndsUncalled(s) PROVE TypeOK'
  <2>1. Len(Plan[s]) \in Nat
    BY LimitsAssumption
  <2> QED
    BY <1>7, <2>1 DEF EndsUncalled, TypeOK, windowVars, eventVars, billVars
<1>8. ASSUME NEW s \in Slots, Breaks(s) PROVE TypeOK'
  <2>1. Len(Plan[s]) \in Nat
    BY LimitsAssumption
  <2>2. CutsOff(s)
    BY <1>8 DEF Breaks
  <2>3. pc' \in [Slots -> Nat] /\ \A v \in Slots : pc'[v] <= Len(Plan[v])
    BY <1>8, <2>1 DEF Breaks, TypeOK
  <2>4. amount' \in [Slots -> 0..MaxAmount]
    BY <1>8, LimitsAssumption DEF Breaks, TypeOK
  <2>5. /\ pending' \in [Slots -> Events] /\ missed' \subseteq Thresholds
        /\ lost' \in [Windows -> Nat] /\ breaks' \in 0..MaxBreaks
        /\ UNCHANGED <<live, count, serial, emitted, spend, ahead>>
    BY <2>2, CutsOffType
  <2> QED
    BY <2>3, <2>4, <2>5 DEF TypeOK
<1>11. ASSUME NEW s \in Slots, DoesWithout(s) PROVE TypeOK'
  <2>1. pc' \in [Slots -> Nat] /\ \A v \in Slots : pc'[v] <= Len(Plan[v])
    BY <1>11, GoesOnType DEF DoesWithout
  <2> QED
    BY <1>11, <2>1 DEF DoesWithout, TypeOK, windowVars, eventVars, billVars
<1>12. ASSUME NEW s \in Slots, Forgoes(s) PROVE TypeOK'
  <2>1. pc' \in [Slots -> Nat] /\ \A v \in Slots : pc'[v] <= Len(Plan[v])
    BY <1>12, GoesOnType DEF Forgoes
  <2>2. CutsOff(s) /\ amount' = amount
    BY <1>12 DEF Forgoes
  <2> QED
    BY <2>1, <2>2, CutsOffType DEF TypeOK
<1>9. ASSUME NEW w \in Windows, WindowEnds(w) PROVE TypeOK'
  BY <1>9 DEF WindowEnds, TypeOK, eventVars
<1>10. CASE UNCHANGED vars
  BY <1>10 DEF vars, TypeOK, windowVars, eventVars, billVars
<1> QED
  BY <1>1, <1>2, <1>3, <1>4, <1>5, <1>6, <1>7, <1>8, <1>9, <1>10, <1>11, <1>12
     DEF Next, RequestStep, Exhausted

\* Every value has the type the code gives it; a window without a key counts
\* nothing (the storage's get of a missing or expired key).
THEOREM TypeCorrect == Spec => []TypeOK
<1>1. Init => TypeOK
  BY InitTypeOK
<1>2. TypeOK /\ [Next]_vars => TypeOK'
  BY NextTypeOK
<1> QED
  BY <1>1, <1>2, PTL DEF Spec

-----------------------------------------------------------------------------
LEMMA MulMono ==
    ASSUME NEW m \in Nat, NEW a \in Nat, NEW b \in Nat, a <= b
    PROVE  m * a <= m * b
<1>1. PICK k \in Nat : b = a + k
  BY b - a \in Nat
<1>2. m * b = m * a + m * k
  BY <1>1
<1> QED
  BY <1>2, MulType

LEMMA MulLess ==
    ASSUME NEW m \in Nat, NEW a \in Nat, NEW b \in Nat, a + 1 <= b
    PROVE  m * a + m <= m * b
<1>1. m * (a + 1) <= m * b
  BY MulMono
<1> QED
  BY <1>1

LEMMA ChargeStepsFinite ==
    ASSUME NEW w \in Windows
    PROVE  IsFiniteSet(ChargeSteps(w)) /\ Cardinality(ChargeSteps(w)) \in Nat
  BY LimitsAssumption, FS_Subset, FS_CardinalityType DEF ChargeSteps

\* A charge step belongs to a slot's plan.
LEMMA ChargeStepType ==
    ASSUME NEW w \in Windows, NEW c \in ChargeSteps(w)
    PROVE  /\ c = <<c[1], c[2]>> /\ c[1] \in Slots
           /\ c[2] \in DOMAIN Plan[c[1]] /\ c[2] \in Nat
           /\ Plan[c[1]][c[2]].op = "charge" /\ Plan[c[1]][c[2]].win = w
           /\ Checked(c[1], c[2], w)
<1>1. PICK s \in Slots : c \in {s} \X DOMAIN Plan[s]
  BY DEF ChargeSteps, AllSteps
<1>2. Plan[s] \in Seq(Checks \cup Charges \cup Calls)
  BY LimitsAssumption
<1> QED
  BY <1>1, <1>2 DEF ChargeSteps

\* Steps of slot s that skip no check of w make no further charge on w due.
LEMMA DueShrinks ==
    ASSUME TypeOK, NEW w \in Windows, NEW s \in Slots, NEW n \in Nat,
           pc' = [pc EXCEPT ![s] = n],
           \/ n = 0
           \/ pc[s] = 0 /\ n = 1
           \/ /\ pc[s] # 0 /\ pc[s] <= n
              /\ \A j \in pc[s]..(n - 1) :
                     ~(Plan[s][j].op = "check" /\ Plan[s][j].win = w)
    PROVE  Due(w)' \subseteq Due(w)
<1> SUFFICES ASSUME NEW c \in Due(w)' PROVE c \in Due(w)
  OBVIOUS
<1>1. /\ c \in ChargeSteps(w) /\ c[1] \in Slots /\ c[2] \in Nat
      /\ pc'[c[1]] # 0 /\ pc'[c[1]] <= c[2]
      /\ Checked(c[1], pc'[c[1]], w)
  <2>1. c \in ChargeSteps(w)
    BY DEF Due, ChargeSteps, AllSteps, Checked
  <2> QED
    BY <2>1, ChargeStepType DEF Due, Checked
<1>2. PICK j \in 1..(pc'[c[1]] - 1) :
          Plan[c[1]][j].op = "check" /\ Plan[c[1]][j].win = w
  BY <1>1 DEF Checked
<1>3. CASE c[1] # s
  <2>1. pc'[c[1]] = pc[c[1]]
    BY <1>1, <1>3 DEF TypeOK
  <2> QED
    BY <1>1, <2>1 DEF Due
<1>4. CASE c[1] = s
  <2>1. pc'[s] = n /\ n # 0 /\ j \in 1..(n - 1) /\ pc[s] \in Nat
    BY <1>1, <1>2, <1>4 DEF TypeOK
  <2>2. pc[s] # 0 /\ pc[s] <= n /\ j \notin pc[s]..(n - 1)
    BY <2>1, <1>2, <1>4
  <2>3. j \in 1..(pc[s] - 1) /\ pc[s] <= c[2]
    BY <2>1, <2>2, <1>1, <1>4
  <2>4. Checked(s, pc[s], w)
    BY <1>2, <1>4, <2>3 DEF Checked
  <2> QED
    BY <1>1, <1>4, <2>2, <2>3, <2>4 DEF Due
<1> QED
  BY <1>3, <1>4

\* The next step after one that does not check w.
LEMMA NextStepShrinks ==
    ASSUME TypeOK, NEW w \in Windows, NEW s \in Slots, pc[s] # 0,
           After(s) \in Nat, pc' = [pc EXCEPT ![s] = After(s)],
           ~(Step(s).op = "check" /\ Step(s).win = w)
    PROVE  Due(w)' \subseteq Due(w)
<1>1. pc[s] \in Nat /\ (After(s) = 0 \/ After(s) = pc[s] + 1)
  BY DEF After, TypeOK
<1>2. CASE After(s) = 0
  BY <1>2, DueShrinks
<1>3. CASE After(s) = pc[s] + 1
  <2>1. \A j \in pc[s]..(After(s) - 1) :
            ~(Plan[s][j].op = "check" /\ Plan[s][j].win = w)
    BY <1>1, <1>3 DEF Step
  <2>2. pc[s] <= After(s)
    BY <1>1, <1>3
  <2> QED
    BY <2>1, <2>2, DueShrinks
<1> QED
  BY <1>1, <1>2, <1>3

\* The ceiling and what was charged ahead are numbers.
LEMMA CeilingType ==
    ASSUME TypeOK, NEW w \in Windows
    PROVE  /\ Ceiling[w] \in Int /\ ahead[w] \in Nat /\ count[w] \in Nat
           /\ Ceiling[w] = Limit[w] - LeastCheck[w]
                           + MaxAmount * Cardinality(ChargeSteps(w))
<1>1. MaxAmount * Cardinality(ChargeSteps(w)) \in Nat
  BY ChargeStepsFinite, MulType, LimitsAssumption
<1> QED
  BY <1>1, LimitsAssumption DEF Ceiling, TypeOK

\* A counter that does not grow keeps the invariant when nothing becomes due.
LEMMA OvershootKept ==
    ASSUME TypeOK, OvershootInv, NEW w \in Windows, NEW D, D \subseteq Due(w)
    PROVE  count[w] + MaxAmount * Cardinality(D) <= Ceiling[w] + ahead[w]
<1>1. IsFiniteSet(Due(w)) /\ Due(w) \subseteq ChargeSteps(w)
  BY ChargeStepsFinite, FS_Subset DEF Due
<1>2. /\ Cardinality(Due(w)) \in Nat /\ Cardinality(D) \in Nat
      /\ Cardinality(D) <= Cardinality(Due(w))
  BY <1>1, FS_Subset, FS_CardinalityType
<1>3. MaxAmount * Cardinality(D) <= MaxAmount * Cardinality(Due(w))
  BY <1>2, MulMono, LimitsAssumption
<1>4. MaxAmount * Cardinality(D) \in Nat /\ MaxAmount * Cardinality(Due(w)) \in Nat
  BY <1>2, MulType, LimitsAssumption
<1>5. count[w] + MaxAmount * Cardinality(Due(w)) <= Ceiling[w] + ahead[w]
  BY DEF OvershootInv
<1> QED
  BY <1>3, <1>4, <1>5, CeilingType

\* A counter with room for one more check leaves every charge room below the
\* ceiling, whatever is due.
LEMMA OvershootFresh ==
    ASSUME NEW w \in Windows, NEW D, D \subseteq ChargeSteps(w),
           NEW k \in Nat, k + LeastCheck[w] <= Limit[w], NEW a \in Nat
    PROVE  k + MaxAmount * Cardinality(D) <= Ceiling[w] + a
<1>1. /\ Cardinality(D) \in Nat /\ Cardinality(ChargeSteps(w)) \in Nat
      /\ Cardinality(D) <= Cardinality(ChargeSteps(w))
  BY ChargeStepsFinite, FS_Subset, FS_CardinalityType
<1>2. MaxAmount * Cardinality(D) <= MaxAmount * Cardinality(ChargeSteps(w))
  BY <1>1, MulMono, LimitsAssumption
<1>3. /\ MaxAmount * Cardinality(D) \in Nat
      /\ MaxAmount * Cardinality(ChargeSteps(w)) \in Nat
  BY <1>1, MulType, LimitsAssumption
<1> QED
  BY <1>2, <1>3, LimitsAssumption DEF Ceiling

LEMMA InitOvershoot == Init => OvershootInv
<1> SUFFICES ASSUME Init, NEW w \in Windows
             PROVE  count[w] + MaxAmount * Cardinality(Due(w)) <= Ceiling[w] + ahead[w]
  BY DEF OvershootInv
<1>1. Due(w) \subseteq ChargeSteps(w) /\ count[w] = 0 /\ ahead[w] = 0
  BY DEF Due, Init
<1>2. /\ count[w] \in Nat /\ ahead[w] \in Nat
      /\ count[w] + LeastCheck[w] <= Limit[w]
  BY <1>1, LimitsAssumption
<1> QED
  BY <1>1, <1>2, OvershootFresh

LEMMA NextOvershoot == TypeOK /\ OvershootInv /\ [Next]_vars => OvershootInv'
<1> SUFFICES ASSUME TypeOK, OvershootInv, [Next]_vars, NEW w \in Windows
             PROVE  count'[w] + MaxAmount * Cardinality(Due(w)') <= Ceiling[w] + ahead'[w]
  BY DEF OvershootInv, Ceiling, ChargeSteps, AllSteps, Checked
<1> DEFINE Goal == count'[w] + MaxAmount * Cardinality(Due(w)') <= Ceiling[w] + ahead'[w]
<1>0. Due(w)' \subseteq ChargeSteps(w)
  BY DEF Due, ChargeSteps, AllSteps, Checked
<1>1. ASSUME NEW s \in Slots, Start(s) PROVE Goal
  <2>1. Due(w)' \subseteq Due(w)
    BY <1>1, DueShrinks DEF Start, Idle
  <2>2. count'[w] = count[w] /\ ahead'[w] = ahead[w]
    BY <1>1 DEF Start, windowVars, billVars
  <2> QED
    BY <2>1, <2>2, OvershootKept
<1>2. ASSUME NEW s \in Slots, CheckPasses(s) PROVE Goal
  <2>1. PICK cost \in Step(s).costs : HasRoom(Step(s).win, cost)
    BY <1>2 DEF CheckPasses
  <2>2. count'[w] = count[w] /\ ahead'[w] = ahead[w]
    BY <1>2 DEF CheckPasses, windowVars, billVars
  <2>3. CASE Step(s).win = w
    <3>0. pc[s] # 0 /\ Step(s).op = "check"
      BY <1>2 DEF CheckPasses, At
    <3>1. pc[s] \in DOMAIN Plan[s] /\ Step(s) \in Checks /\ cost \in 0..MaxAmount
      <4>1. pc[s] \in DOMAIN Plan[s] /\ Step(s) \in Checks
        BY <3>0, StepType, LimitsAssumption
      <4> QED
        BY <4>1 DEF Checks
    <3>2. LeastCheck[w] <= cost
      BY <1>2, <2>3, <3>1, LimitsAssumption DEF CheckPasses, At, Step
    <3>3. count[w] + LeastCheck[w] <= Limit[w] /\ count[w] \in Nat
      BY <2>1, <2>3, <3>1, <3>2, LimitsAssumption DEF HasRoom, TypeOK
    <3> QED
      BY <1>0, <2>2, <3>3, CeilingType, OvershootFresh
  <2>4. CASE Step(s).win # w
    <3>1. /\ pc[s] # 0 /\ After(s) \in Nat /\ pc' = [pc EXCEPT ![s] = After(s)]
          /\ After(s) = 0 \/ After(s) = pc[s] + 1
      BY <1>2, AfterType DEF CheckPasses, At, After
    <3>2. Due(w)' \subseteq Due(w)
      BY <2>4, <3>1, NextStepShrinks
    <3> QED
      BY <2>2, <3>2, OvershootKept
  <2> QED
    BY <2>3, <2>4
<1>3. ASSUME NEW s \in Slots, CheckFails(s) PROVE Goal
  <2>1. Due(w)' \subseteq Due(w)
    BY <1>3, DueShrinks DEF CheckFails
  <2>2. count'[w] = count[w] /\ ahead'[w] = ahead[w]
    BY <1>3 DEF CheckFails, windowVars, billVars
  <2> QED
    BY <2>1, <2>2, OvershootKept
<1>4. ASSUME NEW s \in Slots, Charge(s) PROVE Goal
  <2>1. /\ pc[s] # 0 /\ After(s) \in Nat /\ pc' = [pc EXCEPT ![s] = After(s)]
        /\ After(s) = 0 \/ After(s) = pc[s] + 1
        /\ Step(s).op = "charge"
    BY <1>4, AfterType DEF Charge, At, After
  <2>2. Due(w)' \subseteq Due(w)
    BY <2>1, NextStepShrinks
  <2>3. /\ count' = [count EXCEPT ![Step(s).win] = @ + amount[s]]
        /\ ahead' = IF Checked(s, pc[s], Step(s).win) THEN ahead
                    ELSE [ahead EXCEPT ![Step(s).win] = @ + amount[s]]
    BY <1>4 DEF Charge
  <2>4. CASE Step(s).win # w
    <3>1. count'[w] = count[w] /\ ahead'[w] = ahead[w]
      BY <2>3, <2>4 DEF TypeOK
    <3> QED
      BY <2>2, <3>1, OvershootKept
  <2>5. CASE Step(s).win = w /\ ~Checked(s, pc[s], w)
    <3>1. /\ count'[w] = count[w] + amount[s]
          /\ ahead'[w] = ahead[w] + amount[s]
      BY <2>3, <2>5 DEF TypeOK
    <3>2. count[w] + MaxAmount * Cardinality(Due(w)') <= Ceiling[w] + ahead[w]
      BY <2>2, OvershootKept
    <3>3. MaxAmount * Cardinality(Due(w)') \in Nat
      BY <1>0, ChargeStepsFinite, FS_Subset, FS_CardinalityType, MulType,
         LimitsAssumption
    <3>4. amount[s] \in Nat
      BY LimitsAssumption DEF TypeOK
    <3> QED
      BY <3>1, <3>2, <3>3, <3>4, CeilingType
  <2>6. CASE Step(s).win = w /\ Checked(s, pc[s], w)
    <3> DEFINE c == <<s, pc[s]>>
    <3>1. pc[s] \in DOMAIN Plan[s] /\ pc[s] \in Nat
      BY <2>1, StepType, LimitsAssumption
    <3>2. c \in ChargeSteps(w)
      BY <2>1, <2>6, <3>1 DEF ChargeSteps, AllSteps, Step
    <3>3. c \in Due(w)
      BY <2>1, <2>6, <3>1, <3>2 DEF Due
    <3>4. c \notin Due(w)'
      BY <2>1, <3>1 DEF Due, TypeOK
    <3>5. /\ IsFiniteSet(Due(w)) /\ IsFiniteSet(Due(w) \ {c})
          /\ Cardinality(Due(w) \ {c}) = Cardinality(Due(w)) - 1
          /\ Cardinality(Due(w)) \in Nat
      BY <3>3, ChargeStepsFinite, FS_Subset, FS_RemoveElement,
         FS_CardinalityType DEF Due
    <3>6. /\ Cardinality(Due(w)') \in Nat
          /\ Cardinality(Due(w)') + 1 <= Cardinality(Due(w))
      <4>1. Due(w)' \subseteq Due(w) \ {c}
        BY <2>2, <3>4
      <4>2. Cardinality(Due(w) \ {c}) \in Nat
        BY <3>5, FS_CardinalityType
      <4> HIDE DEF c
      <4> QED
        BY <4>1, <4>2, <3>5, FS_Subset, FS_CardinalityType
    <3>7. MaxAmount * Cardinality(Due(w)') + MaxAmount <= MaxAmount * Cardinality(Due(w))
      BY <3>5, <3>6, MulLess, LimitsAssumption
    <3>8. /\ MaxAmount * Cardinality(Due(w)') \in Nat
          /\ MaxAmount * Cardinality(Due(w)) \in Nat
      BY <3>5, <3>6, MulType, LimitsAssumption
    <3>9. /\ count'[w] = count[w] + amount[s] /\ ahead'[w] = ahead[w]
          /\ amount[s] \in 0..MaxAmount
      BY <2>3, <2>6 DEF TypeOK
    <3>10. count[w] + MaxAmount * Cardinality(Due(w)) <= Ceiling[w] + ahead[w]
      BY DEF OvershootInv
    <3> HIDE DEF c
    <3> QED
      BY SMTT(30), <3>7, <3>8, <3>9, <3>10, CeilingType, LimitsAssumption
  <2> QED
    BY <2>4, <2>5, <2>6
<1>5. ASSUME NEW s \in Slots, EmitThresholds(s) PROVE Goal
  <2>1. Due(w)' \subseteq Due(w)
    BY <1>5 DEF EmitThresholds, Due, ChargeSteps, AllSteps, Checked
  <2>2. count'[w] = count[w] /\ ahead'[w] = ahead[w]
    BY <1>5 DEF EmitThresholds, windowVars, billVars
  <2> QED
    BY <2>1, <2>2, OvershootKept
<1>6. ASSUME NEW s \in Slots, Call(s) PROVE Goal
  <2>1. /\ pc[s] # 0 /\ After(s) \in Nat /\ pc' = [pc EXCEPT ![s] = After(s)]
        /\ After(s) = 0 \/ After(s) = pc[s] + 1
        /\ Step(s).op = "call"
    BY <1>6, AfterType DEF Call, At, After
  <2>2. Due(w)' \subseteq Due(w)
    BY <2>1, NextStepShrinks
  <2>3. count'[w] = count[w] /\ ahead'[w] = ahead[w]
    BY <1>6 DEF Call, windowVars
  <2> QED
    BY <2>2, <2>3, OvershootKept
<1>7. ASSUME NEW s \in Slots, EndsUncalled(s) PROVE Goal
  <2>1. Due(w)' \subseteq Due(w)
    BY <1>7, DueShrinks DEF EndsUncalled
  <2>2. count'[w] = count[w] /\ ahead'[w] = ahead[w]
    BY <1>7 DEF EndsUncalled, windowVars, billVars
  <2> QED
    BY <2>1, <2>2, OvershootKept
<1>8. ASSUME NEW s \in Slots, Breaks(s) PROVE Goal
  <2>1. Due(w)' \subseteq Due(w)
    BY <1>8, DueShrinks DEF Breaks
  <2>2. count'[w] = count[w] /\ ahead'[w] = ahead[w]
    BY <1>8 DEF Breaks, CutsOff, windowVars
  <2> QED
    BY <2>1, <2>2, OvershootKept
<1>9. ASSUME NEW v \in Windows, WindowEnds(v) PROVE Goal
  <2>1. Due(w)' \subseteq Due(w)
    BY <1>9 DEF WindowEnds, Due, ChargeSteps, AllSteps, Checked
  <2>2. CASE v # w
    <3>1. count'[w] = count[w] /\ ahead'[w] = ahead[w]
      BY <1>9, <2>2 DEF WindowEnds, TypeOK
    <3> QED
      BY <2>1, <3>1, OvershootKept
  <2>3. CASE v = w
    <3>1. count'[w] = 0 /\ ahead'[w] = 0
      BY <1>9, <2>3 DEF WindowEnds, TypeOK
    <3>2. 0 + LeastCheck[w] <= Limit[w]
      BY LimitsAssumption
    <3>3. 0 + MaxAmount * Cardinality(Due(w)') <= Ceiling[w] + 0
      BY <1>0, <3>2, OvershootFresh
    <3> QED
      BY <3>1, <3>3
  <2> QED
    BY <2>2, <2>3
<1>10. CASE UNCHANGED vars
  <2>1. Due(w)' \subseteq Due(w)
    BY <1>10 DEF vars, Due, ChargeSteps, AllSteps, Checked
  <2>2. count'[w] = count[w] /\ ahead'[w] = ahead[w]
    BY <1>10 DEF vars, windowVars, billVars
  <2> QED
    BY <2>1, <2>2, OvershootKept
<1>11. ASSUME NEW s \in Slots, DoesWithout(s) PROVE Goal
  <2>1. /\ pc[s] # 0 /\ Plan[s][pc[s]].op = "call"
        /\ UNCHANGED <<count, ahead>>
    BY <1>11 DEF DoesWithout, At, Step, windowVars, billVars
  <2>2. PICK n \in 1..Len(Plan[s]) :
            GoesOnAt(s, pc[s] + 1, n) /\ pc' = [pc EXCEPT ![s] = n]
    BY <1>11 DEF DoesWithout
  <2>3. pc[s] \in Nat /\ n \in Nat /\ Len(Plan[s]) \in Nat
    BY LimitsAssumption DEF TypeOK
  <2>4. /\ pc[s] <= n
        /\ \A j \in pc[s]..(n - 1) : Plan[s][j].op # "check"
    BY <2>1, <2>2, <2>3 DEF GoesOnAt
  <2>5. Due(w)' \subseteq Due(w)
    BY <2>1, <2>2, <2>3, <2>4, DueShrinks
  <2> QED
    BY <2>1, <2>5, OvershootKept
<1>12. ASSUME NEW s \in Slots, Forgoes(s) PROVE Goal
  <2>1. pc[s] # 0 /\ UNCHANGED <<count, ahead>> /\ pc[s] \in Nat
    BY <1>12 DEF Forgoes, CutsOff, At, windowVars, TypeOK
  <2>2. PICK n \in 1..Len(Plan[s]) :
            GoesOnAt(s, pc[s], n) /\ pc' = [pc EXCEPT ![s] = n]
    BY <1>12 DEF Forgoes
  <2>3. n \in Nat /\ Len(Plan[s]) \in Nat
    BY LimitsAssumption
  <2>4. /\ pc[s] <= n
        /\ \A j \in pc[s]..(n - 1) : Plan[s][j].op # "check"
    BY <2>1, <2>2, <2>3 DEF GoesOnAt
  <2>5. Due(w)' \subseteq Due(w)
    BY <2>1, <2>2, <2>3, <2>4, DueShrinks
  <2> QED
    BY <2>1, <2>5, OvershootKept
<1> QED
  BY <1>1, <1>2, <1>3, <1>4, <1>5, <1>6, <1>7, <1>8, <1>9, <1>10, <1>11, <1>12
     DEF Next, RequestStep, Exhausted

LEMMA OvershootInvBounds == TypeOK /\ OvershootInv => OvershootBounded
<1> SUFFICES ASSUME TypeOK, OvershootInv, NEW w \in Windows
             PROVE  count[w] <= Ceiling[w] + ahead[w]
  BY DEF OvershootBounded
<1>1. count[w] + MaxAmount * Cardinality({}) <= Ceiling[w] + ahead[w]
  BY OvershootKept
<1> QED
  BY <1>1, FS_EmptySet, CeilingType, LimitsAssumption

\* However the checks and charges of concurrent requests interleave, and whatever
\* windows end in between, no counter goes over its ceiling by more than what
\* was charged ahead of a check (limiting/rate_limiter.check_and_count_request
\* and its siblings; ai_gateway.create_response, which routes and judges first).
THEOREM OvershootIsBounded == Spec => []OvershootBounded
<1>1. Init => TypeOK /\ OvershootInv
  BY InitTypeOK, InitOvershoot
<1>2. TypeOK /\ OvershootInv /\ [Next]_vars => TypeOK' /\ OvershootInv'
  BY NextTypeOK, NextOvershoot
<1>3. TypeOK /\ OvershootInv => OvershootBounded
  BY OvershootInvBounds
<1> QED
  BY <1>1, <1>2, <1>3, PTL DEF Spec

-----------------------------------------------------------------------------
\* Nothing happened about threshold t.
Untouched(t) == emitted[t] = 0 /\ PendingFor(t) = {} /\ t \notin missed

\* A threshold is pending with one request at most and then not emitted yet;
\* those of windows not opened yet are untouched.
ThresholdInv ==
    /\ \A t \in Thresholds : emitted[t] <= 1
    /\ \A t \in Thresholds : \A r, s \in PendingFor(t) : r = s
    /\ \A t \in Thresholds : PendingFor(t) # {} => emitted[t] = 0
    /\ \A t \in Thresholds : t[2] > serial[t[1]] => Untouched(t)
    /\ ThresholdReported

LEMMA ThresholdType ==
    ASSUME NEW t \in Thresholds
    PROVE  /\ t = <<t[1], t[2], t[3]>>
           /\ t[1] \in Windows /\ t[2] \in 1..MaxSerial /\ t[3] \in Percentages
  BY DEF Thresholds

LEMMA TripleType ==
    ASSUME NEW v \in Windows, NEW i \in 1..MaxSerial, NEW p \in Percentages
    PROVE  /\ <<v, i, p>> \in Thresholds
           /\ <<v, i, p>>[1] = v /\ <<v, i, p>>[2] = i /\ <<v, i, p>>[3] = p
  BY DEF Thresholds

\* What a pending event is about, seen from a threshold.
LEMMA PendingMeans ==
    ASSUME TypeOK, NEW s \in Slots, NEW t \in Thresholds
    PROVE  /\ s \in PendingFor(t) <=> /\ t[1] \in pending[s].win
                                      /\ t[2] = pending[s].id
                                      /\ t[3] \in pending[s].pcts
           /\ pending[s] = NoEvent => s \notin PendingFor(t)
<1>1. pending[s] \in Events
  BY DEF TypeOK
<1>2. pending[s] = NoEvent \/ \E w \in Windows : pending[s].win = {w}
  BY <1>1 DEF Events
<1>3. NoEvent.win = {}
  BY DEF NoEvent
<1> QED
  BY <1>2, <1>3 DEF PendingFor

LEMMA InitThreshold == Init => ThresholdInv
<1> SUFFICES ASSUME Init PROVE ThresholdInv
  OBVIOUS
<1>1. \A t \in Thresholds : Untouched(t)
  BY ThresholdType DEF Init, Untouched, PendingFor, NoEvent
<1>2. live = {}
  BY DEF Init
<1> QED
  BY <1>1, <1>2 DEF ThresholdInv, Untouched, ThresholdReported

\* ThresholdReported of the next state, its parts spelled out.
LEMMA ReportedPrime ==
    ASSUME TypeOK',
           \A v \in live', p \in Percentages, i \in 1..MaxSerial :
               i = serial'[v] =>
                   (p * Limit[v] <= count'[v] * 100
                    <=> \/ emitted'[<<v, i, p>>] > 0
                        \/ PendingFor(<<v, i, p>>)' # {}
                        \/ <<v, i, p>> \in missed')
    PROVE  ThresholdReported'
<1>1. \A v \in live' : serial'[v] \in 1..MaxSerial
  <2>1. \A v \in live' : serial'[v] \in 0..MaxSerial /\ serial'[v] > 0
    BY DEF TypeOK
  <2> QED
    BY <2>1, LimitsAssumption
<1> QED
  BY <1>1 DEF ThresholdReported, PendingFor

\* Steps that touch neither the windows nor the events.
LEMMA ThresholdKept ==
    ASSUME ThresholdInv, UNCHANGED <<pending, windowVars, eventVars>>
    PROVE  ThresholdInv'
  BY DEF ThresholdInv, ThresholdReported, Untouched, PendingFor, windowVars, eventVars

LEMMA ChargeThreshold ==
    ASSUME TypeOK, TypeOK', ThresholdInv, NEW s \in Slots, Charge(s)
    PROVE  ThresholdInv'
<1> DEFINE w == Step(s).win
           id == IF w \in live THEN serial[w] ELSE serial[w] + 1
           crossed == Crossed(w, count[w], count[w] + amount[s])
<1>1. w \in Windows /\ pending[s] = NoEvent
  BY StepType DEF Charge, At, Charges
<1>2. /\ count' = [count EXCEPT ![w] = @ + amount[s]]
      /\ serial' = [serial EXCEPT ![w] = id]
      /\ live' = live \cup {w}
      /\ pending' = IF crossed = {} THEN pending
                    ELSE [pending EXCEPT ![s] =
                             [win |-> {w}, id |-> id, pcts |-> crossed]]
      /\ UNCHANGED <<emitted, missed>>
  BY DEF Charge, eventVars
<1>3. id \in 1..MaxSerial
  <2>1. serial[w] \in 0..MaxSerial /\ MaxSerial \in Nat
    BY <1>1, LimitsAssumption DEF TypeOK
  <2>2. w \in live => serial[w] > 0
    BY DEF TypeOK
  <2>3. w \notin live => serial[w] < MaxSerial
    BY <1>1 DEF TypeOK
  <2> QED
    BY <2>1, <2>2, <2>3
<1>4. /\ count[w] \in Nat /\ amount[s] \in Nat /\ Limit[w] \in Nat \ {0}
      /\ \A p \in Percentages : p * Limit[w] \in Nat /\ p * Limit[w] > 0
  <2>1. \A p \in Nat \ {0}, m \in Nat \ {0} : p * m \in Nat /\ p * m > 0
    <3> SUFFICES ASSUME NEW p \in Nat \ {0}, NEW m \in Nat \ {0}
                 PROVE  p * m \in Nat /\ p * m > 0
      OBVIOUS
    <3>1. p * 1 <= p * m
      BY MulMono
    <3> QED
      BY <3>1, MulType
  <2>2. Limit[w] \in Nat \ {0}
    BY <1>1, LimitsAssumption
  <2>3. count[w] \in Nat /\ amount[s] \in 0..MaxAmount
    BY <1>1 DEF TypeOK
  <2>4. amount[s] \in Nat
    BY <2>3, LimitsAssumption
  <2>5. Percentages \subseteq Nat \ {0}
    BY LimitsAssumption
  <2> QED
    BY <2>1, <2>2, <2>3, <2>4, <2>5
<1>5. /\ count'[w] = count[w] + amount[s] /\ serial'[w] = id
      /\ \A v \in Windows : v # w => count'[v] = count[v] /\ serial'[v] = serial[v]
  BY <1>1, <1>2 DEF TypeOK
\* The thresholds this charge crosses were untouched.
<1>6. \A p \in crossed : <<w, id, p>> \in Thresholds /\ Untouched(<<w, id, p>>)
  <2> SUFFICES ASSUME NEW p \in crossed
               PROVE  <<w, id, p>> \in Thresholds /\ Untouched(<<w, id, p>>)
    OBVIOUS
  <2>1. p \in Percentages /\ count[w] * 100 < p * Limit[w]
    BY DEF Crossed
  <2>2. <<w, id, p>> \in Thresholds
    BY <1>1, <1>3, <2>1 DEF Thresholds
  <2>3. CASE w \in live
    <3>1. ~(p * Limit[w] <= count[w] * 100)
      BY <1>4, <2>1
    <3>2. ~(emitted[<<w, id, p>>] > 0 \/ PendingFor(<<w, id, p>>) # {}
            \/ <<w, id, p>> \in missed)
      BY <2>1, <2>3, <3>1 DEF ThresholdInv, ThresholdReported
    <3>3. emitted[<<w, id, p>>] \in Nat
      BY <2>2 DEF TypeOK
    <3> QED
      BY <2>2, <3>2, <3>3 DEF Untouched
  <2>4. CASE w \notin live
    <3>1. id > serial[w]
      BY SMTT(30), <1>1, <2>4 DEF TypeOK
    <3> HIDE DEF w, id
    <3> QED
      BY <2>2, <3>1, TripleType DEF ThresholdInv
  <2> QED
    BY <2>3, <2>4
\* Who is pending for a threshold afterwards.
<1>7. \A t \in Thresholds :
          IF t[1] = w /\ t[2] = id /\ t[3] \in crossed
          THEN PendingFor(t) = {} /\ PendingFor(t)' = {s} /\ emitted'[t] = 0
               /\ Untouched(t)
          ELSE PendingFor(t)' = PendingFor(t)
  <2> SUFFICES ASSUME NEW t \in Thresholds
               PROVE  IF t[1] = w /\ t[2] = id /\ t[3] \in crossed
                      THEN PendingFor(t) = {} /\ PendingFor(t)' = {s} /\ emitted'[t] = 0
                           /\ Untouched(t)
                      ELSE PendingFor(t)' = PendingFor(t)
    OBVIOUS
  <2>1. s \notin PendingFor(t)
    BY <1>1, PendingMeans
  <2>2. \A r \in Slots : r # s => pending'[r] = pending[r]
    BY <1>2 DEF TypeOK
  <2>3. crossed # {} => pending'[s] = [win |-> {w}, id |-> id, pcts |-> crossed]
    BY <1>2 DEF TypeOK
  <2>4. CASE t[1] = w /\ t[2] = id /\ t[3] \in crossed
    <3>1. Untouched(t)
      BY <1>6, <2>4, ThresholdType
    <3>2. s \in PendingFor(t)'
      BY <2>3, <2>4 DEF PendingFor
    <3>3. PendingFor(t)' = {s}
      BY <2>2, <3>1, <3>2 DEF PendingFor, Untouched
    <3> QED
      BY <2>4, <3>1, <3>3, <1>2 DEF Untouched
  <2>5. CASE ~(t[1] = w /\ t[2] = id /\ t[3] \in crossed)
    <3>1. s \notin PendingFor(t)'
      <4>1. CASE crossed = {}
        BY <1>2, <2>1, <4>1 DEF PendingFor
      <4>2. CASE crossed # {}
        BY <2>3, <2>5, <4>2 DEF PendingFor
      <4> QED
        BY <4>1, <4>2
    <3> QED
      BY <2>1, <2>2, <2>5, <3>1 DEF PendingFor
  <2> QED
    BY <2>4, <2>5
<1> HIDE DEF w, id
<1>8. \A t \in Thresholds : t[2] > serial'[t[1]] => Untouched(t)'
  <2> SUFFICES ASSUME NEW t \in Thresholds, t[2] > serial'[t[1]]
               PROVE  Untouched(t)'
    OBVIOUS
  <2>1. t[1] \in Windows /\ t[2] \in 1..MaxSerial /\ ~(t[1] = w /\ t[2] = id)
    BY <1>3, <1>5, ThresholdType
  <2>2. serial'[t[1]] >= serial[t[1]] /\ serial[t[1]] \in Nat /\ serial'[t[1]] \in Nat
    <3>1. serial[t[1]] \in 0..MaxSerial /\ MaxSerial \in Nat
      BY <2>1, LimitsAssumption DEF TypeOK
    <3>2. CASE t[1] = w
      BY <1>5, <3>1, <3>2 DEF id
    <3>3. CASE t[1] # w
      BY <1>5, <2>1, <3>1, <3>3
    <3> QED
      BY <3>2, <3>3
  <2>3. Untouched(t)
    BY <2>1, <2>2 DEF ThresholdInv
  <2> QED
    BY <1>2, <1>7, <2>1, <2>3 DEF Untouched
<1>9. ThresholdReported'
  <2> SUFFICES ASSUME NEW v \in live', NEW p \in Percentages,
                      NEW i \in 1..MaxSerial, i = serial'[v]
               PROVE  p * Limit[v] <= count'[v] * 100
                      <=> \/ emitted'[<<v, i, p>>] > 0
                          \/ PendingFor(<<v, i, p>>)' # {}
                          \/ <<v, i, p>> \in missed'
    BY ReportedPrime
  <2> DEFINE t == <<v, i, p>>
  <2>0. v \in Windows /\ serial'[v] \in 1..MaxSerial
    <3>1. v \in Windows /\ serial'[v] \in 0..MaxSerial /\ serial'[v] > 0
      BY DEF TypeOK
    <3> QED
      BY <3>1, LimitsAssumption
  <2>1. t \in Thresholds /\ t[1] = v /\ t[2] = i /\ t[3] = p
    BY <2>0, TripleType
  <2>2. CASE v # w
    <3>1. v \in live /\ serial'[v] = serial[v] /\ count'[v] = count[v]
      BY <1>2, <1>5, <2>0, <2>2
    <3>2. PendingFor(t)' = PendingFor(t)
      <4> HIDE DEF t, crossed
      <4> QED
        BY <1>7, <2>1, <2>2
    <3>3. p * Limit[v] <= count[v] * 100
          <=> emitted[t] > 0 \/ PendingFor(t) # {} \/ t \in missed
      BY <3>1 DEF ThresholdInv, ThresholdReported
    <3> QED
      BY <1>2, <3>1, <3>2, <3>3
  <2>3. CASE v = w /\ p \in crossed
    <3>1. PendingFor(t)' = {s}
      <4> HIDE DEF t, crossed
      <4> QED
        BY <1>5, <1>7, <2>1, <2>3
    <3>2. p * Limit[v] <= count'[v] * 100
      BY <1>5, <2>3 DEF Crossed
    <3> QED
      BY <3>1, <3>2
  <2>4. CASE v = w /\ p \notin crossed
    <3>1. PendingFor(t)' = PendingFor(t)
      <4> HIDE DEF t, crossed
      <4> QED
        BY <1>5, <1>7, <2>1, <2>4
    <3>2. p * Limit[w] <= count'[w] * 100 <=> p * Limit[w] <= count[w] * 100
      BY <1>4, <1>5, <2>4 DEF Crossed
    <3>3. CASE w \in live
      <4>1. serial'[v] = serial[w]
        BY <1>5, <2>4, <3>3 DEF id
      <4>2. p * Limit[w] <= count[w] * 100
            <=> emitted[t] > 0 \/ PendingFor(t) # {} \/ t \in missed
        BY <2>4, <3>3, <4>1 DEF ThresholdInv, ThresholdReported
      <4> HIDE DEF t, crossed
      <4>3. p * Limit[v] <= count'[v] * 100
            <=> emitted'[t] > 0 \/ PendingFor(t)' # {} \/ t \in missed'
        BY <1>2, <2>4, <3>1, <3>2, <4>2
      <4> QED
        BY <4>3 DEF t
    <3>4. CASE w \notin live
      <4>1. id > serial[w] /\ count[w] = 0
        BY SMTT(30), <1>1, <3>4 DEF id, TypeOK
      <4>2. Untouched(t)
        <5> HIDE DEF t
        <5> QED
          BY <1>5, <2>1, <2>4, <4>1 DEF ThresholdInv
      <4>3. ~(p * Limit[w] <= count[w] * 100)
        BY <1>4, <4>1
      <4> HIDE DEF t, crossed
      <4>4. p * Limit[v] <= count'[v] * 100
            <=> emitted'[t] > 0 \/ PendingFor(t)' # {} \/ t \in missed'
        BY <1>2, <2>4, <3>1, <3>2, <4>2, <4>3 DEF Untouched
      <4> QED
        BY <4>4 DEF t
    <3> QED
      BY <3>3, <3>4
  <2> QED
    BY <2>2, <2>3, <2>4
<1> HIDE DEF crossed
<1>10. \A t \in Thresholds : emitted'[t] <= 1
  BY <1>2 DEF ThresholdInv
<1>11. \A t \in Thresholds : \A q, r \in PendingFor(t)' : q = r
  BY <1>7 DEF ThresholdInv
<1>12. \A t \in Thresholds : PendingFor(t)' # {} => emitted'[t] = 0
  BY <1>2, <1>7 DEF ThresholdInv
<1> QED
  BY <1>8, <1>9, <1>10, <1>11, <1>12 DEF ThresholdInv, Thresholds

LEMMA EmitThreshold ==
    ASSUME TypeOK, TypeOK', ThresholdInv, NEW s \in Slots,
           pending' = [pending EXCEPT ![s] = NoEvent],
           UNCHANGED windowVars,
           \/ /\ emitted' = [t \in Thresholds |->
                                IF s \in PendingFor(t) THEN emitted[t] + 1
                                ELSE emitted[t]]
              /\ missed' = missed
           \/ /\ emitted' = emitted
              /\ missed' = missed \cup {t \in Thresholds : s \in PendingFor(t)}
    PROVE  ThresholdInv'
<1>1. \A t \in Thresholds : PendingFor(t)' = PendingFor(t) \ {s}
  <2>1. \A t \in Thresholds : s \notin PendingFor(t)'
    BY PendingMeans, ThresholdType DEF TypeOK, PendingFor, NoEvent
  <2> QED
    BY <2>1 DEF PendingFor, TypeOK
<1>2. \A t \in Thresholds :
          s \in PendingFor(t) => PendingFor(t)' = {} /\ emitted[t] = 0
  BY <1>1 DEF ThresholdInv
<1>3. \A t \in Thresholds :
          s \notin PendingFor(t) => /\ PendingFor(t)' = PendingFor(t)
                                    /\ emitted'[t] = emitted[t]
                                    /\ t \in missed' <=> t \in missed
  BY <1>1
<1>4. \A t \in Thresholds :
          s \in PendingFor(t) => /\ emitted'[t] = 1 \/ t \in missed'
                                 /\ emitted'[t] \in {0, 1}
  BY <1>2
<1>5. \A t \in Thresholds : t[2] > serial'[t[1]] => Untouched(t)'
  BY <1>3 DEF ThresholdInv, Untouched, windowVars
<1>6. ThresholdReported'
  <2> SUFFICES ASSUME NEW v \in live', NEW p \in Percentages,
                      NEW i \in 1..MaxSerial, i = serial'[v]
               PROVE  p * Limit[v] <= count'[v] * 100
                      <=> \/ emitted'[<<v, i, p>>] > 0
                          \/ PendingFor(<<v, i, p>>)' # {}
                          \/ <<v, i, p>> \in missed'
    BY ReportedPrime
  <2> DEFINE t == <<v, i, p>>
  <2>0. /\ v \in live /\ v \in Windows /\ serial[v] \in 1..MaxSerial
        /\ serial'[v] = serial[v] /\ count'[v] = count[v]
    <3>1. /\ v \in live /\ v \in Windows /\ serial[v] \in 0..MaxSerial
          /\ serial[v] > 0 /\ serial'[v] = serial[v] /\ count'[v] = count[v]
      BY DEF TypeOK, windowVars
    <3> QED
      BY <3>1, LimitsAssumption
  <2>1. t \in Thresholds
    BY <2>0, TripleType
  <2>2. p * Limit[v] <= count'[v] * 100
            <=> emitted[t] > 0 \/ PendingFor(t) # {} \/ t \in missed
    BY <2>0 DEF ThresholdInv, ThresholdReported
  <2> HIDE DEF t
  <2>3. p * Limit[v] <= count'[v] * 100
            <=> emitted'[t] > 0 \/ PendingFor(t)' # {} \/ t \in missed'
    <3>1. CASE s \in PendingFor(t)
      BY <1>4, <2>1, <2>2, <3>1
    <3>2. CASE s \notin PendingFor(t)
      BY <1>3, <2>1, <2>2, <3>2
    <3> QED
      BY <3>1, <3>2
  <2> QED
    BY <2>3 DEF t
<1>7. \A t \in Thresholds : emitted'[t] <= 1
  BY <1>3, <1>4 DEF ThresholdInv
<1>8. \A t \in Thresholds : \A q, r \in PendingFor(t)' : q = r
  BY <1>1 DEF ThresholdInv
<1>9. \A t \in Thresholds : PendingFor(t)' # {} => emitted'[t] = 0
  BY <1>2, <1>3 DEF ThresholdInv
<1> QED
  BY <1>5, <1>6, <1>7, <1>8, <1>9 DEF ThresholdInv, Thresholds

LEMMA NextThreshold ==
    TypeOK /\ TypeOK' /\ ThresholdInv /\ [Next]_vars => ThresholdInv'
<1> SUFFICES ASSUME TypeOK, TypeOK', ThresholdInv, [Next]_vars
             PROVE  ThresholdInv'
  OBVIOUS
<1>1. ASSUME NEW s \in Slots, Start(s) PROVE ThresholdInv'
  BY <1>1, ThresholdKept DEF Start
<1>2. ASSUME NEW s \in Slots, CheckPasses(s) PROVE ThresholdInv'
  BY <1>2, ThresholdKept DEF CheckPasses
<1>3. ASSUME NEW s \in Slots, CheckFails(s) PROVE ThresholdInv'
  BY <1>3, ThresholdKept DEF CheckFails
<1>4. ASSUME NEW s \in Slots, Charge(s) PROVE ThresholdInv'
  BY <1>4, ChargeThreshold
<1>5. ASSUME NEW s \in Slots, EmitThresholds(s) PROVE ThresholdInv'
  <2>1. emitted' = [t \in Thresholds |->
                       IF s \in PendingFor(t) THEN emitted[t] + 1 ELSE emitted[t]]
    BY <1>5, PendingMeans DEF EmitThresholds
  <2> QED
    BY <1>5, <2>1, EmitThreshold DEF EmitThresholds
<1>6. ASSUME NEW s \in Slots, Call(s) PROVE ThresholdInv'
  BY <1>6, ThresholdKept DEF Call
<1>7. ASSUME NEW s \in Slots, EndsUncalled(s) PROVE ThresholdInv'
  BY <1>7, ThresholdKept DEF EndsUncalled
<1>8. ASSUME NEW s \in Slots, Breaks(s) PROVE ThresholdInv'
  <2>1. missed' = missed \cup {t \in Thresholds : s \in PendingFor(t)}
    BY <1>8, PendingMeans DEF Breaks, CutsOff
  <2> QED
    BY <1>8, <2>1, EmitThreshold DEF Breaks, CutsOff
<1>9. ASSUME NEW w \in Windows, WindowEnds(w) PROVE ThresholdInv'
  <2>1. /\ live' = live \ {w} /\ count' = [count EXCEPT ![w] = 0]
        /\ UNCHANGED <<pending, serial, emitted, missed>>
    BY <1>9 DEF WindowEnds, eventVars
  <2>2. ThresholdReported'
    BY ZenonT(60), <2>1 DEF ThresholdInv, ThresholdReported, PendingFor, TypeOK
  <2> QED
    BY <2>1, <2>2 DEF ThresholdInv, Untouched, PendingFor
<1>10. CASE UNCHANGED vars
  BY <1>10, ThresholdKept DEF vars
<1>11. ASSUME NEW s \in Slots, DoesWithout(s) PROVE ThresholdInv'
  BY <1>11, ThresholdKept DEF DoesWithout
<1>12. ASSUME NEW s \in Slots, Forgoes(s) PROVE ThresholdInv'
  <2>1. missed' = missed \cup {t \in Thresholds : s \in PendingFor(t)}
    BY <1>12, PendingMeans DEF Forgoes, CutsOff
  <2> QED
    BY <1>12, <2>1, EmitThreshold DEF Forgoes, CutsOff
<1> QED
  BY <1>1, <1>2, <1>3, <1>4, <1>5, <1>6, <1>7, <1>8, <1>9, <1>10, <1>11, <1>12
     DEF Next, RequestStep, Exhausted

LEMMA ThresholdInvOnce == TypeOK /\ ThresholdInv => ThresholdOnce
<1> SUFFICES ASSUME TypeOK, ThresholdInv, NEW t \in Thresholds
             PROVE  emitted[t] + Cardinality(PendingFor(t)) <= 1
  BY DEF ThresholdOnce
<1>1. emitted[t] \in Nat /\ emitted[t] <= 1
  BY DEF ThresholdInv, TypeOK
<1>2. CASE PendingFor(t) = {}
  BY <1>1, <1>2, FS_EmptySet
<1>3. CASE PendingFor(t) # {}
  <2>1. PICK s : s \in PendingFor(t)
    BY <1>3
  <2>2. PendingFor(t) = {s} /\ emitted[t] = 0
    BY <1>3, <2>1 DEF ThresholdInv
  <2>3. Cardinality(PendingFor(t)) = 1
    BY <2>2, FS_Singleton
  <2> QED
    BY <2>2, <2>3
<1> QED
  BY <1>2, <1>3

\* The LIMIT_THRESHOLD event of a percentage is emitted at most once per
\* window_id, whatever requests charge the window at the same time.
THEOREM ThresholdsOnce == Spec => []ThresholdOnce
<1>1. Init => TypeOK /\ ThresholdInv
  BY InitTypeOK, InitThreshold
<1>2. TypeOK /\ ThresholdInv /\ [Next]_vars => TypeOK' /\ ThresholdInv'
  BY NextTypeOK, NextThreshold
<1>3. TypeOK /\ ThresholdInv => ThresholdOnce
  BY ThresholdInvOnce
<1> QED
  BY <1>1, <1>2, <1>3, PTL DEF Spec

\* A percentage the current window has reached was reported, is about to be, or
\* was lost with the request that crossed it; none is reported early.
THEOREM ThresholdsReported == Spec => []ThresholdReported
<1>1. Init => TypeOK /\ ThresholdInv
  BY InitTypeOK, InitThreshold
<1>2. TypeOK /\ ThresholdInv /\ [Next]_vars => TypeOK' /\ ThresholdInv'
  BY NextTypeOK, NextThreshold
<1>3. ThresholdInv => ThresholdReported
  BY DEF ThresholdInv
<1> QED
  BY <1>1, <1>2, <1>3, PTL DEF Spec

-----------------------------------------------------------------------------
(* Sums over the slots.  SumFunction folds a set from an element it picks;   *)
(* what it computes is proved by induction over the size of the set.         *)

Below == {x \in Nat \X Nat : x[1] < x[2]}

\* Induction over the numbers, with a set for the predicate.
LEMMA AllNumbers ==
    ASSUME NEW P, 0 \in P, \A n \in Nat : n \in P => n + 1 \in P
    PROVE  Nat \subseteq P
<1> DEFINE Missing == Nat \ P
<1> SUFFICES ASSUME Missing # {} PROVE FALSE
  OBVIOUS
<1>2. IsWellFoundedOn(Below, Nat)
  BY NatLessThanWellFounded DEF OpToRel, Below
<1>3. \E n \in Missing : \A m \in Missing : ~(<<m, n>> \in Below)
  <2>1. Missing \subseteq Nat
    OBVIOUS
  <2> HIDE DEF Missing
  <2> QED
    BY <1>2, <2>1, WFMin
<1>4. PICK n \in Missing : \A m \in Missing : ~(<<m, n>> \in Below)
  BY <1>3
<1>5. n \in Nat /\ n # 0 /\ n - 1 \in Nat /\ (n - 1) + 1 = n
  OBVIOUS
<1>6. n - 1 \notin Missing
  <2>1. <<n - 1, n>> \in Nat \X Nat /\ n - 1 < n
    BY <1>5
  <2>2. <<n - 1, n>> \in Below
    BY <2>1 DEF Below
  <2> QED
    BY <1>4, <2>2
<1> QED
  BY <1>5, <1>6

Pick(T) == CHOOSE x \in T : TRUE

Rest(T) == T \ {Pick(T)}

LEMMA RestFacts ==
    ASSUME NEW T, IsFiniteSet(T), T # {}
    PROVE  /\ Pick(T) \in T /\ Rest(T) \subseteq T /\ IsFiniteSet(Rest(T))
           /\ Cardinality(T) \in Nat /\ Cardinality(Rest(T)) \in Nat
           /\ Cardinality(T) = Cardinality(Rest(T)) + 1
<1>1. Pick(T) \in T
  BY DEF Pick
<1>2. IsFiniteSet(Rest(T)) /\ Cardinality(Rest(T)) = Cardinality(T) - 1
  BY <1>1, FS_RemoveElement DEF Rest
<1> QED
  BY <1>1, <1>2, FS_CardinalityType DEF Rest

\* Induction over the subsets of a finite set, along the elements picked.
LEMMA SubsetInduction ==
    ASSUME NEW S, IsFiniteSet(S), NEW P, {} \in P,
           \A T \in SUBSET S : T # {} /\ Rest(T) \in P => T \in P
    PROVE  SUBSET S \subseteq P
<1> DEFINE Sizes == {n \in Nat : \A T \in SUBSET S : Cardinality(T) = n => T \in P}
<1>1. \A T \in SUBSET S : IsFiniteSet(T) /\ Cardinality(T) \in Nat
  BY FS_Subset, FS_CardinalityType
<1>2. 0 \in Sizes
  BY <1>1, FS_EmptySet
<1>3. ASSUME NEW n \in Nat, n \in Sizes PROVE n + 1 \in Sizes
  <2> SUFFICES ASSUME NEW T \in SUBSET S, Cardinality(T) = n + 1 PROVE T \in P
    OBVIOUS
  <2>1. T # {}
    BY FS_EmptySet
  <2>2. Rest(T) \in SUBSET S /\ Cardinality(Rest(T)) = n
    BY <1>1, <2>1, RestFacts
  <2> QED
    BY <1>3, <2>1, <2>2
<1>4. Nat \subseteq Sizes
  <2> HIDE DEF Sizes
  <2> QED
    BY <1>2, <1>3, AllNumbers
<1> QED
  BY <1>1, <1>4

\* g sums f over every subset of S, as SumFunction does.
IsSum(f, S, g) ==
    g = [T \in SUBSET S |-> IF T = {} THEN 0 ELSE f[Pick(T)] + g[Rest(T)]]

Sums(f, S) == CHOOSE g : IsSum(f, S, g)

LEMMA SumUnfolds ==
    ASSUME NEW f
    PROVE  SumFunction(f) = Sums(f, DOMAIN f)[DOMAIN f]
  BY DEF SumFunction, SumFunctionOnSet, FoldFunctionOnSet, MapThenFoldSet, Sums, IsSum,
         Pick, Rest

\* The subsets of at most n elements, and a g that sums f over those.
Small(S, n) == {T \in SUBSET S : Cardinality(T) <= n}

IsSmallSum(f, S, n, g) ==
    g = [T \in Small(S, n) |-> IF T = {} THEN 0 ELSE f[Pick(T)] + g[Rest(T)]]

\* A sum over the smaller subsets is one over the next ones.
LEMMA SumGrows ==
    ASSUME NEW f, NEW S, IsFiniteSet(S), NEW n \in Nat, NEW g, IsSmallSum(f, S, n, g)
    PROVE  \E h : IsSmallSum(f, S, n + 1, h)
<1> DEFINE h == [T \in Small(S, n + 1) |->
                    IF T = {} THEN 0 ELSE f[Pick(T)] + g[Rest(T)]]
<1>1. \A T \in Small(S, n + 1) : T # {} => Rest(T) \in Small(S, n)
  <2> SUFFICES ASSUME NEW T \in Small(S, n + 1), T # {} PROVE Rest(T) \in Small(S, n)
    OBVIOUS
  <2>1. IsFiniteSet(T) /\ T \in SUBSET S /\ Cardinality(T) <= n + 1
    BY FS_Subset DEF Small
  <2> QED
    BY <2>1, RestFacts DEF Small
<1>2. Small(S, n) \subseteq Small(S, n + 1)
  <2>1. \A T \in SUBSET S : Cardinality(T) \in Nat
    BY FS_Subset, FS_CardinalityType
  <2> QED
    BY <2>1 DEF Small
<1>3. \A T \in Small(S, n) : h[T] = g[T]
  <2> SUFFICES ASSUME NEW T \in Small(S, n) PROVE h[T] = g[T]
    OBVIOUS
  <2>1. g[T] = IF T = {} THEN 0 ELSE f[Pick(T)] + g[Rest(T)]
    BY DEF IsSmallSum
  <2>2. h[T] = IF T = {} THEN 0 ELSE f[Pick(T)] + g[Rest(T)]
    BY <1>2
  <2> QED
    BY <2>1, <2>2
<1>4. h = [T \in Small(S, n + 1) |-> IF T = {} THEN 0 ELSE f[Pick(T)] + h[Rest(T)]]
  <2>1. \A T \in Small(S, n + 1) : T # {} => h[Rest(T)] = g[Rest(T)]
    BY <1>1, <1>3
  <2> QED
    BY <2>1
<1> QED
  BY <1>4 DEF IsSmallSum

LEMMA SumExists ==
    ASSUME NEW f, NEW S, IsFiniteSet(S)
    PROVE  IsSum(f, S, Sums(f, S))
<1> DEFINE Levels == {n \in Nat : \E g : IsSmallSum(f, S, n, g)}
<1>1. \A T \in SUBSET S : IsFiniteSet(T) /\ Cardinality(T) \in Nat
  BY FS_Subset, FS_CardinalityType
<1>2. 0 \in Levels
  <2> DEFINE g == [T \in Small(S, 0) |-> 0]
  <2>1. \A T \in Small(S, 0) : T = {}
    BY <1>1, FS_EmptySet DEF Small
  <2>2. g = [T \in Small(S, 0) |-> IF T = {} THEN 0 ELSE f[Pick(T)] + g[Rest(T)]]
    BY <2>1
  <2>3. IsSmallSum(f, S, 0, g)
    BY <2>2 DEF IsSmallSum
  <2> QED
    BY <2>3
<1>3. \A n \in Nat : n \in Levels => n + 1 \in Levels
  BY SumGrows
<1>4. Nat \subseteq Levels
  <2> HIDE DEF Levels
  <2> QED
    BY <1>2, <1>3, AllNumbers
<1>5. Cardinality(S) \in Nat
  BY <1>1
<1>6. PICK g : IsSmallSum(f, S, Cardinality(S), g)
  BY <1>4, <1>5
<1>7. Small(S, Cardinality(S)) = SUBSET S
  <2>1. \A T \in SUBSET S : Cardinality(T) <= Cardinality(S)
    BY FS_Subset
  <2> QED
    BY <2>1 DEF Small
<1>8. IsSum(f, S, g)
  BY <1>6, <1>7 DEF IsSmallSum, IsSum
<1> QED
  BY <1>8 DEF Sums

\* What a sum over a subset is, and that it is a number.
LEMMA SumOfSubset ==
    ASSUME NEW S, IsFiniteSet(S), NEW f \in [S -> Nat], NEW T \in SUBSET S
    PROVE  /\ Sums(f, S)[T] = IF T = {} THEN 0 ELSE f[Pick(T)] + Sums(f, S)[Rest(T)]
           /\ Sums(f, S)[T] \in Nat
<1> DEFINE g == Sums(f, S)
           Numbers == {U \in SUBSET S : g[U] \in Nat}
<1>1. \A U \in SUBSET S : g[U] = IF U = {} THEN 0 ELSE f[Pick(U)] + g[Rest(U)]
  <2>1. IsSum(f, S, g)
    BY SumExists
  <2> HIDE DEF g
  <2> QED
    BY <2>1 DEF IsSum
<1> HIDE DEF g
<1>2. {} \in Numbers
  BY <1>1
<1>3. ASSUME NEW U \in SUBSET S, U # {}, Rest(U) \in Numbers PROVE U \in Numbers
  <2>1. f[Pick(U)] \in Nat
    BY <1>3 DEF Pick
  <2> QED
    BY <1>1, <1>3, <2>1
<1>4. SUBSET S \subseteq Numbers
  <2> HIDE DEF Numbers
  <2> QED
    BY <1>2, <1>3, SubsetInduction
<1> QED
  BY <1>1, <1>4 DEF g

\* Two functions that agree but at s: their sums differ by what they differ there.
LEMMA SumsDiffer ==
    ASSUME NEW S, IsFiniteSet(S), NEW f \in [S -> Nat], NEW h \in [S -> Nat], NEW s \in S,
           \A x \in S \ {s} : h[x] = f[x]
    PROVE  Sums(h, S)[S] + f[s] = Sums(f, S)[S] + h[s]
<1> DEFINE F == Sums(f, S)
           H == Sums(h, S)
           Shifted == {T \in SUBSET S : IF s \in T THEN H[T] + f[s] = F[T] + h[s]
                                        ELSE H[T] = F[T]}
<1>1. \A T \in SUBSET S :
         /\ F[T] \in Nat /\ F[T] = IF T = {} THEN 0 ELSE f[Pick(T)] + F[Rest(T)]
         /\ H[T] \in Nat /\ H[T] = IF T = {} THEN 0 ELSE h[Pick(T)] + H[Rest(T)]
  BY SumOfSubset
<1> HIDE DEF F, H
<1>2. {} \in Shifted
  BY <1>1
<1>3. ASSUME NEW T \in SUBSET S, T # {}, Rest(T) \in Shifted PROVE T \in Shifted
  <2> DEFINE p == Pick(T)  R == Rest(T)
  <2>1. p \in T /\ R = T \ {p} /\ p \in S /\ R \in SUBSET S
    BY <1>3 DEF Pick, Rest
  <2> HIDE DEF p, R
  <2>2. /\ F[T] = f[p] + F[R] /\ H[T] = h[p] + H[R] /\ F[R] \in Nat /\ H[R] \in Nat
    BY <1>1, <1>3, <2>1 DEF p, R
  <2>3. f[p] \in Nat /\ h[p] \in Nat /\ f[s] \in Nat /\ h[s] \in Nat
    BY <2>1
  <2>4. CASE p = s
    <3>1. s \notin R /\ H[R] = F[R]
      BY <1>3, <2>1, <2>4 DEF R
    <3> QED
      BY <2>1, <2>2, <2>3, <2>4, <3>1
  <2>5. CASE p # s /\ s \in T
    <3>1. s \in R /\ H[R] + f[s] = F[R] + h[s] /\ h[p] = f[p]
      BY <1>3, <2>1, <2>5 DEF R
    <3> QED
      BY <2>1, <2>2, <2>3, <2>5, <3>1
  <2>6. CASE s \notin T
    <3>1. s \notin R /\ H[R] = F[R] /\ h[p] = f[p]
      BY <1>3, <2>1, <2>6 DEF R
    <3> QED
      BY <2>1, <2>2, <2>3, <2>6, <3>1
  <2> QED
    BY <2>4, <2>5, <2>6
<1>4. SUBSET S \subseteq Shifted
  <2> HIDE DEF Shifted
  <2> QED
    BY <1>2, <1>3, SubsetInduction
<1>5. S \in Shifted
  BY <1>4
<1> QED
  BY <1>5 DEF F, H

LEMMA SumStep ==
    ASSUME IsFiniteSet(Slots), NEW f \in [Slots -> Nat], NEW h \in [Slots -> Nat],
           NEW s \in Slots, \A x \in Slots \ {s} : h[x] = f[x]
    PROVE  /\ SumFunction(f) \in Nat /\ SumFunction(h) \in Nat
           /\ SumFunction(h) + f[s] = SumFunction(f) + h[s]
<1>1. DOMAIN f = Slots /\ DOMAIN h = Slots
  OBVIOUS
<1>2. SumFunction(f) = Sums(f, Slots)[Slots] /\ SumFunction(h) = Sums(h, Slots)[Slots]
  BY <1>1, SumUnfolds
<1>3. Sums(f, Slots)[Slots] \in Nat /\ Sums(h, Slots)[Slots] \in Nat
  BY SumOfSubset
<1>4. Sums(h, Slots)[Slots] + f[s] = Sums(f, Slots)[Slots] + h[s]
  BY SumsDiffer
<1> QED
  BY <1>2, <1>3, <1>4

-----------------------------------------------------------------------------
(* What the slots owe.                                                       *)

LEMMA PlanType ==
    ASSUME NEW s \in Slots
    PROVE  /\ Len(Plan[s]) \in Nat /\ DOMAIN Plan[s] = 1..Len(Plan[s])
           /\ \A i \in 1..Len(Plan[s]) : Plan[s][i] \in Checks \cup Charges \cup Calls
  BY LimitsAssumption

OwedCharges(steps, i, w) ==
    {k \in i..Len(steps) :
        /\ steps[k].op = "charge"
        /\ steps[k].win = w
        /\ \E j \in 1..(i - 1) : steps[j].op = "call"
        /\ \A j \in i..k : steps[j].op # "call"}

LEMMA OwedAtType ==
    ASSUME NEW s \in Slots, NEW i \in Nat, NEW w
    PROVE  /\ IsFiniteSet(OwedCharges(Plan[s], i, w))
           /\ OwedAt(Plan[s], i, w) = Cardinality(OwedCharges(Plan[s], i, w))
           /\ OwedAt(Plan[s], i, w) \in Nat
<1>1. IsFiniteSet(i..Len(Plan[s]))
  BY PlanType, FS_Interval
<1>2. IsFiniteSet(OwedCharges(Plan[s], i, w))
  BY <1>1, FS_Subset DEF OwedCharges
<1> QED
  BY <1>2, FS_CardinalityType DEF OwedAt, OwedCharges

\* Nothing is owed at a call, before the first one, and behind the last step.
LEMMA NothingOwed ==
    ASSUME NEW s \in Slots, NEW i \in 1..(Len(Plan[s]) + 1), NEW w,
           \/ i <= Len(Plan[s]) /\ Plan[s][i].op = "call"
           \/ i = 1
           \/ i = Len(Plan[s]) + 1
    PROVE  OwedAt(Plan[s], i, w) = 0
<1>1. Len(Plan[s]) \in Nat
  BY PlanType
<1>2. \A k \in i..Len(Plan[s]) : i \in i..k
  BY <1>1
<1>3. OwedCharges(Plan[s], i, w) = {}
  BY <1>1, <1>2 DEF OwedCharges
<1>4. OwedAt(Plan[s], i, w) = Cardinality(OwedCharges(Plan[s], i, w))
  BY Zenon DEF OwedAt, OwedCharges
<1> QED
  BY <1>3, <1>4, FS_EmptySet

\* A charge pays for itself and for nothing else.
LEMMA OwedAfterCharge ==
    ASSUME NEW s \in Slots, NEW i \in 1..Len(Plan[s]), NEW w, Plan[s][i].op = "charge"
    PROVE  OwedAt(Plan[s], i, w)
             <= OwedAt(Plan[s], i + 1, w) + (IF w = Plan[s][i].win THEN 1 ELSE 0)
<1> DEFINE A == OwedCharges(Plan[s], i, w)
           B == OwedCharges(Plan[s], i + 1, w)
<1>0. Len(Plan[s]) \in Nat /\ i \in Nat /\ i + 1 \in Nat
  BY PlanType
<1>1. /\ IsFiniteSet(B) /\ Cardinality(B) \in Nat /\ IsFiniteSet(A) /\ Cardinality(A) \in Nat
      /\ OwedAt(Plan[s], i, w) = Cardinality(A)
      /\ OwedAt(Plan[s], i + 1, w) = Cardinality(B)
  BY <1>0, OwedAtType, FS_CardinalityType
<1>2. ASSUME NEW k \in A, k # i PROVE k \in B
  <2>1. k \in (i + 1)..Len(Plan[s])
    BY <1>0, <1>2 DEF OwedCharges
  <2>2. \E j \in 1..((i + 1) - 1) : Plan[s][j].op = "call"
    BY <1>2 DEF OwedCharges
  <2>3. \A j \in (i + 1)..k : Plan[s][j].op # "call"
    BY <1>0, <1>2, <2>1 DEF OwedCharges
  <2> QED
    BY <1>2, <2>1, <2>2, <2>3 DEF OwedCharges
<1>3. CASE w = Plan[s][i].win
  <2>1. A \subseteq B \cup {i}
    BY <1>2
  <2>2. i \notin B
    BY <1>0 DEF OwedCharges
  <2>3. IsFiniteSet(B \cup {i}) /\ Cardinality(B \cup {i}) = Cardinality(B) + 1
    BY <1>1, <2>2, FS_AddElement
  <2>4. Cardinality(A) <= Cardinality(B \cup {i})
    BY <2>1, <2>3, FS_Subset
  <2> QED
    BY <1>1, <1>3, <2>3, <2>4
<1>4. CASE w # Plan[s][i].win
  <2>1. i \notin A
    BY <1>4 DEF OwedCharges
  <2>2. A \subseteq B
    BY <1>2, <2>1
  <2>3. Cardinality(A) <= Cardinality(B)
    BY <1>1, <2>2, FS_Subset
  <2> QED
    BY <1>1, <1>4, <2>3
<1> QED
  BY <1>3, <1>4

LEMMA SlotsFinite == IsFiniteSet(Slots)
<1> DEFINE f == [s \in Slots |-> <<s, 1>>]
<1>1. \A s \in Slots : <<s, 1>> \in AllSteps
  <2> TAKE s \in Slots
  <2>1. 1 \in DOMAIN Plan[s]
    <3>1. Plan[s] # <<>> /\ Plan[s] \in Seq(Checks \cup Charges \cup Calls)
      BY LimitsAssumption
    <3>2. Len(Plan[s]) \in Nat /\ DOMAIN Plan[s] = 1..Len(Plan[s]) /\ Len(Plan[s]) # 0
      BY <3>1
    <3> QED
      BY <3>2
  <2> QED
    BY <2>1 DEF AllSteps
<1>2. f \in Injection(Slots, AllSteps)
  BY <1>1 DEF Injection, IsInjective
<1>3. IsFiniteSet(AllSteps)
  BY LimitsAssumption
<1> HIDE DEF f
<1> QED
  BY <1>2, <1>3, FS_Injection

\* What each slot owes, from its place in its plan.
OwingKnown ==
    \A s \in Slots, w \in Windows :
        /\ Owing(s, w) = IF pc[s] = 0 THEN 0 ELSE OwedAt(Plan[s], pc[s], w)
        /\ amount[s] \in Nat /\ Owing(s, w) \in Nat /\ amount[s] * Owing(s, w) \in Nat

LEMMA OwingIs == TypeOK => OwingKnown
<1> SUFFICES ASSUME TypeOK, NEW s \in Slots, NEW w \in Windows
             PROVE  /\ Owing(s, w) = IF pc[s] = 0 THEN 0 ELSE OwedAt(Plan[s], pc[s], w)
                    /\ amount[s] \in Nat /\ Owing(s, w) \in Nat
                    /\ amount[s] * Owing(s, w) \in Nat
  BY DEF OwingKnown
<1>1. Owing(s, w) = IF pc[s] = 0 THEN 0 ELSE OwedAt(Plan[s], pc[s], w)
  <2>1. CASE pc[s] = 0
    BY <2>1 DEF Owing
  <2>2. CASE pc[s] # 0
    <3>1. pc[s] \in DOMAIN Plan[s]
      BY <2>2, StepType, PlanType
    <3> QED
      BY <2>2, <3>1 DEF Owing, Owed
  <2> QED
    BY <2>1, <2>2
<1>2. Owing(s, w) \in Nat
  BY OwingType
<1>3. amount[s] \in Nat
  BY LimitsAssumption DEF TypeOK
<1> QED
  BY <1>1, <1>2, <1>3, MulType

LEMMA OwingIsNext == TypeOK' => OwingKnown'
  BY OwingIs, PTL

\* A step of slot s keeps the account of w if its own entries balance.
LEMMA Balanced ==
    ASSUME TypeOK, TypeOK', SpendAccounted, NEW s \in Slots, NEW w \in Windows,
           \A x \in Slots \ {s} : pc'[x] = pc[x] /\ amount'[x] = amount[x],
           spend'[w] + count[w] + lost[w] + amount[s] * Owing(s, w)
             <= spend[w] + count'[w] + lost'[w] + amount'[s] * Owing(s, w)'
    PROVE  spend'[w] <= count'[w] + lost'[w] + SumFunction(Outstanding(w)')
<1> DEFINE f == Outstanding(w)
           h == Outstanding(w)'
<1>1. f \in [Slots -> Nat] /\ f[s] = amount[s] * Owing(s, w)
  BY OwingIs DEF OwingKnown, Outstanding
<1>2. h \in [Slots -> Nat] /\ h[s] = amount'[s] * Owing(s, w)'
  BY OwingIsNext DEF OwingKnown, Outstanding
<1>3. \A x \in Slots \ {s} : h[x] = f[x]
  <2> TAKE x \in Slots \ {s}
  <2>1. Owing(x, w)' = Owing(x, w)
    BY DEF Owing
  <2> QED
    BY <2>1 DEF Outstanding
<1>4. spend[w] <= count[w] + lost[w] + SumFunction(f)
  BY DEF SpendAccounted
<1> HIDE DEF f, h
<1>5. /\ SumFunction(f) \in Nat /\ SumFunction(h) \in Nat
      /\ SumFunction(h) + f[s] = SumFunction(f) + h[s]
  BY <1>1, <1>2, <1>3, SlotsFinite, SumStep
<1>6. /\ spend[w] \in Nat /\ count[w] \in Nat /\ lost[w] \in Nat
      /\ spend'[w] \in Nat /\ count'[w] \in Nat /\ lost'[w] \in Nat
      /\ f[s] \in Nat /\ h[s] \in Nat
  BY <1>1, <1>2 DEF TypeOK
<1>7. spend'[w] + count[w] + lost[w] + f[s] <= spend[w] + count'[w] + lost'[w] + h[s]
  BY <1>1, <1>2
<1>8. spend'[w] <= count'[w] + lost'[w] + SumFunction(h)
  BY <1>4, <1>5, <1>6, <1>7
<1> QED
  BY <1>8 DEF h

\* A slot that owes nothing may lose its amount and start to owe another.
LEMMA BalancedIfNothingOwed ==
    ASSUME TypeOK, TypeOK', SpendAccounted, NEW s \in Slots, NEW w \in Windows,
           \A x \in Slots \ {s} : pc'[x] = pc[x] /\ amount'[x] = amount[x],
           UNCHANGED <<spend, count, lost>>, Owing(s, w) = 0
    PROVE  spend'[w] <= count'[w] + lost'[w] + SumFunction(Outstanding(w)')
<1>1. amount[s] * Owing(s, w) = 0 /\ amount'[s] * Owing(s, w)' \in Nat
  BY OwingIs, OwingIsNext DEF OwingKnown
<1>2. spend[w] \in Nat /\ count[w] \in Nat /\ lost[w] \in Nat
  BY DEF TypeOK
<1>3. spend'[w] + count[w] + lost[w] + amount[s] * Owing(s, w)
        <= spend[w] + count'[w] + lost'[w] + amount'[s] * Owing(s, w)'
  BY <1>1, <1>2
<1> QED
  BY <1>3, Balanced

\* What is cut off moves from what is owed to what is lost.
LEMMA BalancedIfCutOff ==
    ASSUME TypeOK, TypeOK', SpendAccounted, NEW s \in Slots, NEW w \in Windows,
           \A x \in Slots \ {s} : pc'[x] = pc[x] /\ amount'[x] = amount[x],
           CutsOff(s)
    PROVE  spend'[w] <= count'[w] + lost'[w] + SumFunction(Outstanding(w)')
<1>1. /\ UNCHANGED <<spend, count>>
      /\ lost'[w] = lost[w] + amount[s] * Owing(s, w)
  BY DEF CutsOff, windowVars
<1>2. amount[s] * Owing(s, w) \in Nat /\ amount'[s] * Owing(s, w)' \in Nat
  BY OwingIs, OwingIsNext DEF OwingKnown
<1>3. spend[w] \in Nat /\ count[w] \in Nat /\ lost[w] \in Nat
  BY DEF TypeOK
<1>4. spend'[w] + count[w] + lost[w] + amount[s] * Owing(s, w)
        <= spend[w] + count'[w] + lost'[w] + amount'[s] * Owing(s, w)'
  BY <1>1, <1>2, <1>3
<1> QED
  BY <1>4, Balanced

\* The next step of a plan, as After computes it.
LEMMA OwingAfter ==
    ASSUME TypeOK, TypeOK', NEW s \in Slots, NEW w \in Windows, pc[s] # 0,
           pc' = [pc EXCEPT ![s] = After(s)]
    PROVE  Owing(s, w)' = OwedAt(Plan[s], pc[s] + 1, w)
<1>1. pc[s] \in 1..Len(Plan[s]) /\ Len(Plan[s]) \in Nat
  BY StepType, PlanType
<1>2. pc'[s] = After(s)
  BY DEF TypeOK
<1>3. Owing(s, w)' = IF pc'[s] = 0 THEN 0 ELSE OwedAt(Plan[s], pc'[s], w)
  BY OwingIsNext DEF OwingKnown
<1>4. CASE pc[s] = Len(Plan[s])
  <2>1. pc[s] + 1 \in 1..(Len(Plan[s]) + 1) /\ pc[s] + 1 = Len(Plan[s]) + 1
    BY <1>1, <1>4
  <2>2. OwedAt(Plan[s], pc[s] + 1, w) = 0
    BY <2>1, NothingOwed
  <2> QED
    BY <1>2, <1>3, <1>4, <2>2 DEF After
<1>5. CASE pc[s] # Len(Plan[s])
  BY <1>1, <1>2, <1>3, <1>5 DEF After
<1> QED
  BY <1>4, <1>5

\* A slot owes nothing between requests, at a call, and at a check.
LEMMA OwesNothing ==
    ASSUME TypeOK, PlansInTime, NEW s \in Slots, NEW w \in Windows,
           pc[s] = 0 \/ At(s, "call") \/ At(s, "check")
    PROVE  Owing(s, w) = 0
<1>0. Owing(s, w) = IF pc[s] = 0 THEN 0 ELSE OwedAt(Plan[s], pc[s], w)
  BY OwingIs DEF OwingKnown
<1>1. CASE pc[s] = 0
  BY <1>0, <1>1
<1>2. CASE At(s, "call")
  <2>1. /\ pc[s] # 0 /\ pc[s] \in 1..(Len(Plan[s]) + 1) /\ pc[s] <= Len(Plan[s])
        /\ Plan[s][pc[s]].op = "call"
    BY <1>2, StepType, PlanType DEF At, Step
  <2> QED
    BY <1>0, <2>1, NothingOwed
<1>3. CASE At(s, "check")
  <2>1. pc[s] # 0 /\ pc[s] \in DOMAIN Plan[s] /\ Plan[s][pc[s]].op = "check"
    BY <1>3, StepType, PlanType DEF At, Step
  <2> QED
    BY <1>0, <2>1 DEF PlansInTime, ChargesInTime
<1> QED
  BY <1>1, <1>2, <1>3

\* A charge brings on the counter what is no longer owed.
LEMMA ChargeBalanced ==
    ASSUME TypeOK, TypeOK', SpendAccounted, NEW s \in Slots, NEW w \in Windows, Charge(s)
    PROVE  spend'[w] <= count'[w] + lost'[w] + SumFunction(Outstanding(w)')
<1> DEFINE v == Step(s).win
           a == amount[s]
           old == Owing(s, w)
           new == Owing(s, w)'
           here == IF w = v THEN 1 ELSE 0
<1>1. /\ pc[s] # 0 /\ pc[s] \in 1..Len(Plan[s]) /\ Plan[s][pc[s]].op = "charge"
      /\ v \in Windows /\ v = Plan[s][pc[s]].win
  BY StepType DEF Charge, At, Step, Charges
<1>2. /\ pc' = [pc EXCEPT ![s] = After(s)]
      /\ amount' = [amount EXCEPT ![s] = IF After(s) = 0 THEN 0 ELSE @]
      /\ count' = [count EXCEPT ![v] = @ + a]
      /\ UNCHANGED <<spend, lost>>
  BY DEF Charge
<1>3. a \in Nat /\ old \in Nat /\ new \in Nat
  BY OwingIs, OwingIsNext DEF OwingKnown
<1>4. old <= new + here
  <2>1. new = OwedAt(Plan[s], pc[s] + 1, w)
    BY <1>1, <1>2, OwingAfter
  <2>2. old = OwedAt(Plan[s], pc[s], w)
    BY <1>1, OwingIs DEF OwingKnown
  <2> QED
    BY <1>1, <2>1, <2>2, OwedAfterCharge
<1>5. amount'[s] * new = a * new
  <2>1. amount'[s] = a \/ After(s) = 0
    BY <1>2 DEF TypeOK
  <2>2. CASE After(s) = 0
    <3>1. pc'[s] = 0
      BY <1>2, <2>2 DEF TypeOK
    <3>2. new = 0
      BY <3>1 DEF Owing
    <3>3. amount'[s] \in Nat
      BY OwingIsNext DEF OwingKnown
    <3> QED
      BY <1>3, <3>2, <3>3
  <2> QED
    BY <2>1, <2>2
<1>6. count'[w] = count[w] + a * here
  <2>1. count'[w] = IF w = v THEN count[w] + a ELSE count[w]
    BY <1>2 DEF TypeOK
  <2>2. count[w] \in Nat
    BY DEF TypeOK
  <2>3. CASE w = v
    <3>1. here = 1
      BY <2>3
    <3>2. count'[w] = count[w] + a
      BY <2>1, <2>3
    <3> HIDE DEF a, here
    <3> QED
      BY <1>3, <2>2, <3>1, <3>2
  <2>4. CASE w # v
    <3>1. here = 0
      BY <2>4
    <3>2. count'[w] = count[w]
      BY <2>1, <2>4
    <3> HIDE DEF a, here
    <3> QED
      BY <1>3, <2>2, <3>1, <3>2
  <2> QED
    BY <2>3, <2>4
<1>7. spend[w] \in Nat /\ count[w] \in Nat /\ lost[w] \in Nat /\ here \in Nat
  BY DEF TypeOK
<1> HIDE DEF a, old, new, here
<1>8. a * old <= a * new + a * here
  <2>1. PICK d \in Nat : new + here = old + d
    <3>1. new + here - old \in Nat /\ new + here = old + (new + here - old)
      BY <1>3, <1>4, <1>7
    <3> QED
      BY <3>1
  <2>2. a * (new + here) = a * old + a * d
    BY <1>3, <2>1
  <2>3. a * (new + here) = a * new + a * here
    BY <1>3, <1>7
  <2>4. a * d \in Nat /\ a * old \in Nat /\ a * new \in Nat /\ a * here \in Nat
    BY <1>3, <1>7, <2>1, MulType
  <2> QED
    BY <2>2, <2>3, <2>4
<1>9. a * old \in Nat /\ a * new \in Nat /\ a * here \in Nat
  BY <1>3, <1>7, MulType
<1>10. spend'[w] + count[w] + lost[w] + a * old
         <= spend[w] + count'[w] + lost'[w] + amount'[s] * new
  BY <1>2, <1>5, <1>6, <1>7, <1>8, <1>9
<1>11. \A x \in Slots \ {s} : pc'[x] = pc[x] /\ amount'[x] = amount[x]
  BY <1>2 DEF TypeOK
<1> QED
  BY <1>10, <1>11, Balanced DEF a, old, new

\* A call puts on the slot's account what it bills.
LEMMA CallBalanced ==
    ASSUME TypeOK, TypeOK', PlansInTime, SpendAccounted,
           NEW s \in Slots, NEW w \in Windows, Call(s)
    PROVE  spend'[w] <= count'[w] + lost'[w] + SumFunction(Outstanding(w)')
<1> DEFINE bill == Step(s).bills[w]
           owed == Owing(s, w)'
<1>1. /\ At(s, "call") /\ pc[s] # 0 /\ pc[s] \in DOMAIN Plan[s]
      /\ Plan[s][pc[s]].op = "call" /\ bill = Plan[s][pc[s]].bills[w] /\ bill \in Nat
  BY StepType, PlanType DEF Call, At, Step, Calls, Checks, Charges
<1>2. PICK u \in Usages :
         /\ amount' = [amount EXCEPT ![s] = u]
         /\ spend' = [x \in Windows |-> spend[x] + u * Step(s).bills[x]]
  BY DEF Call
<1>3. pc' = [pc EXCEPT ![s] = After(s)] /\ UNCHANGED <<count, lost>>
  BY DEF Call, windowVars
<1>4. u \in Nat /\ amount'[s] = u /\ spend'[w] = spend[w] + u * bill
  BY <1>2, LimitsAssumption DEF TypeOK
<1>5. owed = OwedAt(Plan[s], pc[s] + 1, w)
  BY <1>1, <1>3, OwingAfter
<1>6. bill <= owed
  BY <1>1, <1>5 DEF PlansInTime, ChargesInTime
<1>7. owed \in Nat /\ amount[s] * Owing(s, w) = 0
  BY <1>1, OwesNothing, OwingIs, OwingIsNext DEF OwingKnown
<1>8. spend[w] \in Nat /\ count[w] \in Nat /\ lost[w] \in Nat
  BY DEF TypeOK
<1>9. \A x \in Slots \ {s} : pc'[x] = pc[x] /\ amount'[x] = amount[x]
  BY <1>2, <1>3 DEF TypeOK
<1> HIDE DEF bill, owed
<1>10. u * bill <= u * owed /\ u * bill \in Nat /\ u * owed \in Nat
  BY <1>1, <1>4, <1>6, <1>7, MulMono, MulType
<1>11. spend'[w] + count[w] + lost[w] + amount[s] * Owing(s, w)
         <= spend[w] + count'[w] + lost'[w] + amount'[s] * owed
  BY <1>3, <1>4, <1>7, <1>8, <1>10
<1> QED
  BY <1>9, <1>11, Balanced DEF owed

LEMMA OutstandingSum ==
    ASSUME TypeOK, NEW w \in Windows
    PROVE  SumFunction(Outstanding(w)) \in Nat
<1> DEFINE f == Outstanding(w)
<1>1. f \in [Slots -> Nat]
  BY OwingIs DEF OwingKnown, Outstanding
<1> HIDE DEF f
<1>2. DOMAIN f = Slots
  BY <1>1
<1> QED
  BY <1>1, <1>2, SlotsFinite, SumUnfolds, SumOfSubset DEF f

LEMMA InitSpend == Init => SpendAccounted
<1> SUFFICES ASSUME Init, NEW w \in Windows
             PROVE  spend[w] <= count[w] + lost[w] + SumFunction(Outstanding(w))
  BY DEF SpendAccounted
<1>1. SumFunction(Outstanding(w)) \in Nat
  BY InitTypeOK, OutstandingSum
<1>2. spend[w] = 0 /\ count[w] = 0 /\ lost[w] = 0
  BY DEF Init
<1> QED
  BY <1>1, <1>2

LEMMA OutstandingKept ==
    ASSUME NEW w \in Windows, UNCHANGED <<pc, amount>>
    PROVE  SumFunction(Outstanding(w)') = SumFunction(Outstanding(w))
<1>1. \A s \in Slots : Owing(s, w)' = Owing(s, w)
  BY DEF Owing
<1> QED
  BY <1>1 DEF Outstanding

\* A step that only moves slot s on keeps the account, when it owes nothing.
LEMMA MovedOn ==
    ASSUME TypeOK, TypeOK', PlansInTime, SpendAccounted, NEW s \in Slots, NEW w \in Windows,
           \/ Start(s)
           \/ CheckPasses(s)
           \/ CheckFails(s)
           \/ EndsUncalled(s)
           \/ DoesWithout(s)
    PROVE  spend'[w] <= count'[w] + lost'[w] + SumFunction(Outstanding(w)')
<1>1. /\ \A x \in Slots \ {s} : pc'[x] = pc[x] /\ amount'[x] = amount[x]
      /\ UNCHANGED <<spend, count, lost>>
      /\ pc[s] = 0 \/ At(s, "call") \/ At(s, "check")
  <2>1. CASE Start(s)
    BY <2>1 DEF Start, Idle, windowVars, billVars, TypeOK
  <2>2. CASE CheckPasses(s)
    BY <2>2 DEF CheckPasses, windowVars, billVars, TypeOK
  <2>3. CASE CheckFails(s)
    BY <2>3 DEF CheckFails, windowVars, billVars, TypeOK
  <2>4. CASE EndsUncalled(s)
    BY <2>4 DEF EndsUncalled, windowVars, billVars, TypeOK
  <2>5. CASE DoesWithout(s)
    BY <2>5 DEF DoesWithout, windowVars, billVars, TypeOK
  <2> QED
    BY <2>1, <2>2, <2>3, <2>4, <2>5
<1>2. Owing(s, w) = 0
  BY <1>1, OwesNothing
<1> QED
  BY <1>1, <1>2, BalancedIfNothingOwed

LEMMA NextSpend ==
    PlansInTime /\ TypeOK /\ TypeOK' /\ SpendAccounted /\ [Next]_vars => SpendAccounted'
<1> SUFFICES ASSUME PlansInTime, TypeOK, TypeOK', SpendAccounted, [Next]_vars,
                    NEW w \in Windows
             PROVE  spend'[w] <= count'[w] + lost'[w] + SumFunction(Outstanding(w)')
  BY DEF SpendAccounted
<1>1. ASSUME NEW s \in Slots, RequestStep(s)
      PROVE  spend'[w] <= count'[w] + lost'[w] + SumFunction(Outstanding(w)')
  <2>1. CASE Start(s) \/ CheckPasses(s) \/ CheckFails(s) \/ EndsUncalled(s) \/ DoesWithout(s)
    BY <2>1, MovedOn
  <2>2. CASE Charge(s)
    BY <2>2, ChargeBalanced
  <2>3. CASE Call(s)
    BY <2>3, CallBalanced
  <2>4. CASE EmitThresholds(s)
    <3>1. UNCHANGED <<pc, amount, count, spend, lost>>
      BY <2>4 DEF EmitThresholds, windowVars, billVars
    <3> QED
      BY <3>1, OutstandingKept DEF SpendAccounted
  <2>5. CASE Breaks(s)
    <3>1. CutsOff(s) /\ \A x \in Slots \ {s} : pc'[x] = pc[x] /\ amount'[x] = amount[x]
      BY <2>5 DEF Breaks, TypeOK
    <3> QED
      BY <3>1, BalancedIfCutOff
  <2>6. CASE Forgoes(s)
    <3>1. CutsOff(s) /\ \A x \in Slots \ {s} : pc'[x] = pc[x] /\ amount'[x] = amount[x]
      BY <2>6 DEF Forgoes, TypeOK
    <3> QED
      BY <3>1, BalancedIfCutOff
  <2> QED
    BY <1>1, <2>1, <2>2, <2>3, <2>4, <2>5, <2>6 DEF RequestStep
<1>2. ASSUME NEW v \in Windows, WindowEnds(v)
      PROVE  spend'[w] <= count'[w] + lost'[w] + SumFunction(Outstanding(w)')
  <2>1. /\ count' = [count EXCEPT ![v] = 0]
        /\ spend' = [spend EXCEPT ![v] = 0]
        /\ lost' = [lost EXCEPT ![v] = 0]
        /\ UNCHANGED <<pc, amount>>
    BY <1>2 DEF WindowEnds
  <2>2. SumFunction(Outstanding(w)') = SumFunction(Outstanding(w))
    BY <2>1, OutstandingKept
  <2>3. SumFunction(Outstanding(w)) \in Nat
    BY OutstandingSum
  <2>4. CASE w = v
    <3>1. spend'[w] = 0 /\ count'[w] = 0 /\ lost'[w] = 0
      BY <2>1, <2>4 DEF TypeOK
    <3> QED
      BY <2>2, <2>3, <3>1
  <2>5. CASE w # v
    <3>1. spend'[w] = spend[w] /\ count'[w] = count[w] /\ lost'[w] = lost[w]
      BY <2>1, <2>5 DEF TypeOK
    <3> QED
      BY <2>2, <3>1 DEF SpendAccounted
  <2> QED
    BY <2>4, <2>5
<1>3. CASE UNCHANGED vars
  <2>1. UNCHANGED <<pc, amount, count, spend, lost>>
    BY <1>3 DEF vars, windowVars, billVars
  <2> QED
    BY <2>1, OutstandingKept DEF SpendAccounted
<1> QED
  BY <1>1, <1>2, <1>3 DEF Next, Exhausted

\* If every handler charges what a call billed before it checks or calls again
\* (PlansInTime), what the models billed on a window is on its counter, is still
\* to be charged by a running request, or belongs to a request that broke off:
\* for any number of concurrent requests on any windows.
THEOREM SpendIsAccounted == PlansInTime => (Spec => []SpendAccounted)
<1> SUFFICES ASSUME PlansInTime PROVE Spec => []SpendAccounted
  OBVIOUS
<1>1. Init => SpendAccounted
  BY InitSpend
<1>2. TypeOK /\ TypeOK' /\ SpendAccounted /\ [Next]_vars => SpendAccounted'
  BY NextSpend
<1> QED
  BY <1>1, <1>2, TypeCorrect, PTL DEF Spec

-----------------------------------------------------------------------------
(* What a chat or Responses request passes between its limits and its client *)
(* (ChatPipeline), for any requests, routes, vocabulary and messages.        *)

\* A function of the numbers up to n that is made step by step, from b on.
MadeOf(h, n, V, b, F) ==
    h \in [0 .. n -> V] /\ h[0] = b /\ \A k \in 1 .. n : h[k] = F[k][h[k - 1]]

\* There is a function that each step makes of the last.
LEMMA StepByStep ==
    ASSUME NEW n \in Nat, NEW V, NEW b \in V, NEW F \in [1 .. n -> [V -> V]]
    PROVE  \E h : MadeOf(h, n, V, b, F)
<1> DEFINE Made(m) == \E h \in [0 .. m -> V] :
                        h[0] = b /\ \A k \in 1 .. m : h[k] = F[k][h[k - 1]]
           S == {m \in Nat : m <= n => Made(m)}
<1>1. 0 \in S
  <2> DEFINE h == [k \in 0 .. 0 |-> b]
  <2>1. h \in [0 .. 0 -> V] /\ h[0] = b /\ 1 .. 0 = {}
    OBVIOUS
  <2>2. Made(0)
    BY <2>1
  <2> QED
    BY <2>2
<1>2. ASSUME NEW m \in Nat, m \in S PROVE m + 1 \in S
  <2> SUFFICES ASSUME m + 1 <= n PROVE Made(m + 1)
    OBVIOUS
  <2>1. PICK h \in [0 .. m -> V] : h[0] = b /\ \A k \in 1 .. m : h[k] = F[k][h[k - 1]]
    BY <1>2
  <2> DEFINE next == [k \in 0 .. (m + 1) |-> IF k = m + 1 THEN F[m + 1][h[m]] ELSE h[k]]
  <2>2. next \in [0 .. (m + 1) -> V]
    OBVIOUS
  <2>3. next[0] = b /\ \A k \in 1 .. (m + 1) : next[k] = F[k][next[k - 1]]
    <3>1. next[0] = b
      BY <2>1
    <3>2. \A k \in 1 .. m : next[k] = h[k] /\ next[k - 1] = h[k - 1]
      <4>1. \A k \in 1 .. m : /\ k \in 0 .. (m + 1) /\ k - 1 \in 0 .. (m + 1)
                              /\ k # m + 1 /\ k - 1 # m + 1
        OBVIOUS
      <4> QED
        BY <4>1
    <3>3. next[m + 1] = F[m + 1][next[m]]
      OBVIOUS
    <3> QED
      BY <2>1, <3>1, <3>2, <3>3
  <2> QED
    BY <2>2, <2>3
<1>3. Nat \subseteq S
  <2> HIDE DEF S
  <2> QED
    BY <1>1, <1>2, AllNumbers
<1> QED
  BY <1>3 DEF MadeOf

\* What the redact guardrails leave is made guardrail by guardrail.
LeftBy(h, gs, V, ms, where) ==
    /\ h \in [0 .. Len(gs) -> V]
    /\ h[0] = ms
    /\ \A k \in 1 .. Len(gs) :
          h[k] = IF gs[k] \in GuardrailsFor(gs, "redact", where)
                 THEN RedactWith(h[k - 1], gs[k], where) ELSE h[k - 1]
    /\ Redacted(gs, ms, where) = h[Len(gs)]

\* A redaction is such a function of the guardrails.
LEMMA RedactedSteps ==
    ASSUME NEW gs, Len(gs) \in Nat, NEW V, NEW ms \in V, NEW where,
           \A m \in V : \A k \in 1 .. Len(gs) : RedactWith(m, gs[k], where) \in V
    PROVE  \E h : LeftBy(h, gs, V, ms, where)
<1> DEFINE n == Len(gs)
           redacts == GuardrailsFor(gs, "redact", where)
           F == [k \in 1 .. n |-> [m \in V |->
                    IF gs[k] \in redacts THEN RedactWith(m, gs[k], where) ELSE m]]
           Body(h) == [k \in 0 .. n |->
              CASE k = 0 -> ms
                [] k # 0 /\ gs[k] \notin redacts -> h[k - 1]
                [] OTHER -> RedactWith(h[k - 1], gs[k], where)]
           made == CHOOSE h : h = Body(h)
<1>1. F \in [1 .. n -> [V -> V]]
  OBVIOUS
<1>2. PICK h \in [0 .. n -> V] : h[0] = ms /\ \A k \in 1 .. n : h[k] = F[k][h[k - 1]]
  <2>1. n \in Nat /\ ms \in V
    OBVIOUS
  <2> HIDE DEF F, n
  <2>2. \E h : MadeOf(h, n, V, ms, F)
    BY <1>1, <2>1, StepByStep
  <2> QED
    BY <2>2 DEF MadeOf
<1>3. h = Body(h)
  <2>1. \A k \in 1 .. n : F[k] = [m \in V |->
           IF gs[k] \in redacts THEN RedactWith(m, gs[k], where) ELSE m]
    OBVIOUS
  <2>2. \A k \in 1 .. n : k - 1 \in 0 .. n /\ h[k - 1] \in V
    OBVIOUS
  <2> HIDE DEF F, redacts
  <2>3. ASSUME NEW k \in 1 .. n
        PROVE  h[k] = IF gs[k] \in redacts THEN RedactWith(h[k - 1], gs[k], where)
                      ELSE h[k - 1]
    <3>1. h[k] = F[k][h[k - 1]] /\ h[k - 1] \in V
      BY <1>2, <2>2
    <3> QED
      BY <2>1, <3>1
  <2> QED
    BY <1>2, <2>3
<1>4. made = Body(made)
  <2> HIDE DEF Body
  <2>1. \E x : x = Body(x)
    BY <1>3
  <2> QED
    BY <2>1, Zenon
<1>5. Redacted(gs, ms, where) = made[n]
  BY DEF Redacted
<1>6. /\ DOMAIN made = 0 .. n /\ made[0] = ms
      /\ \A k \in 1 .. n : made[k] =
            IF gs[k] \in redacts THEN RedactWith(made[k - 1], gs[k], where)
            ELSE made[k - 1]
  <2> HIDE DEF made, redacts
  <2> QED
    BY <1>4
<1>7. \A k \in 0 .. n : made[k] \in V
  <2> DEFINE S == {k \in Nat : k <= n => made[k] \in V}
  <2> HIDE DEF made, redacts
  <2>1. 0 \in S
    BY <1>6
  <2>2. \A k \in Nat : k \in S => k + 1 \in S
    BY <1>6
  <2>3. Nat \subseteq S
    <3> HIDE DEF S
    <3> QED
      BY <2>1, <2>2, AllNumbers
  <2> QED
    BY <2>3
<1>8. made \in [0 .. n -> V]
  <2> HIDE DEF redacts
  <2>1. made = [k \in 0 .. n |-> made[k]]
    BY <1>4
  <2> HIDE DEF made
  <2> QED
    BY <1>7, <2>1
<1> QED
  <2> HIDE DEF made, redacts, Body, F
  <2> QED
    BY <1>5, <1>6, <1>8 DEF redacts, LeftBy

\* Messages in which only words were masked: as many, of the same roles, and
\* each with no words of its own but the mask.
Masking(ms) ==
    {ns \in [1 .. Len(ms) -> Message] :
        \A i \in 1 .. Len(ms) :
            ns[i].role = ms[i].role /\ ns[i].words \ {"mask"} \subseteq ms[i].words}

\* Masking a message hides the values and nothing else.
LEMMA MaskedType ==
    ASSUME WellFormed, NEW m \in Message, NEW values
    PROVE  LET n == Masked(m, values)
           IN  /\ n \in Message /\ n.role = m.role
               /\ n.words \subseteq m.words \cup {"mask"}
               /\ "mask" \notin values => n.words \cap values = {}
  BY DEF WellFormed, Masked, Message

\* Masked messages are messages, and as many.
LEMMA MaskingFacts ==
    ASSUME NEW ms \in Seq(Message)
    PROVE  /\ Len(ms) \in Nat /\ ms \in Masking(ms)
           /\ \A ns \in Masking(ms) : ns \in Seq(Message) /\ Len(ns) = Len(ms)
  BY DEF Masking

\* Which messages a guardrail reads depends on their number and roles alone.
LEMMA SelectedByRole ==
    ASSUME NEW ms, NEW ns, Len(ns) = Len(ms), NEW g, NEW where, NEW skip \in Nat, Len(ms) \in Nat,
           \A i \in 1 .. Len(ms) : ns[i].role = ms[i].role
    PROVE  Selected(ns, g, where, skip) = Selected(ms, g, where, skip)
<1>1. {i \in (skip + 1) .. Len(ns) : Reads(g, ns[i].role, where)}
        = {i \in (skip + 1) .. Len(ms) : Reads(g, ms[i].role, where)}
  OBVIOUS
<1> QED
  BY <1>1, Zenon DEF Selected

\* A redact guardrail masks, and leaves none of its values where it reads.
LEMMA RedactWithType ==
    ASSUME WellFormed, NEW ms \in Seq(Message), NEW ns \in Masking(ms),
           NEW g, NEW where
    PROVE  /\ RedactWith(ns, g, where) \in Masking(ms)
           /\ \A i \in 1 .. Len(ms) :
                /\ RedactWith(ns, g, where)[i].words \subseteq ns[i].words \cup {"mask"}
                /\ i \in Selected(ms, g, where, 0) /\ "mask" \notin g.values
                     => RedactWith(ns, g, where)[i].words \cap g.values = {}
<1> DEFINE out == RedactWith(ns, g, where)
<1>1. Len(ns) = Len(ms) /\ Len(ms) \in Nat /\ \A i \in 1 .. Len(ms) : ns[i].role = ms[i].role
  BY MaskingFacts DEF Masking
<1>2. Selected(ns, g, where, 0) = Selected(ms, g, where, 0)
  BY <1>1, SelectedByRole
<1>3. out = [i \in 1 .. Len(ms) |->
         IF i \in Selected(ms, g, where, 0) THEN Masked(ns[i], g.values) ELSE ns[i]]
  BY <1>1, <1>2 DEF RedactWith
<1>4. ASSUME NEW i \in 1 .. Len(ms)
      PROVE  /\ out[i] \in Message /\ out[i].role = ms[i].role
             /\ out[i].words \subseteq ns[i].words \cup {"mask"}
             /\ ns[i].words \ {"mask"} \subseteq ms[i].words
             /\ i \in Selected(ms, g, where, 0) /\ "mask" \notin g.values
                  => out[i].words \cap g.values = {}
  <2>1. ns[i] \in Message /\ ns[i].role = ms[i].role /\ ns[i].words \ {"mask"} \subseteq ms[i].words
    BY DEF Masking
  <2>2. out[i] = IF i \in Selected(ms, g, where, 0)
                 THEN Masked(ns[i], g.values) ELSE ns[i]
    BY <1>3
  <2> HIDE DEF out
  <2> QED
    BY <2>1, <2>2, MaskedType
<1>5. out \in [1 .. Len(ms) -> Message]
  <2>1. \A i \in 1 .. Len(ms) : out[i] \in Message
    BY <1>4
  <2>2. out = [i \in 1 .. Len(ms) |-> out[i]]
    BY <1>3
  <2> HIDE DEF out
  <2> QED
    BY <2>1, <2>2
<1> HIDE DEF out
<1> QED
  BY <1>4, <1>5 DEF out, Masking

\* What a redact guardrail masks stays masked, in whatever order they stand.
LEMMA RedactedFacts ==
    ASSUME WellFormed, NEW gs \in Seq(GuardrailConfig),
           NEW ms \in Seq(Message), NEW where
    PROVE  LET out == Redacted(gs, ms, where)
           IN  /\ out \in Masking(ms)
               /\ \A g \in GuardrailsFor(gs, "redact", where) :
                    \A i \in Selected(ms, g, where, 0) :
                      out[i].words \cap g.values = {}
<1> DEFINE V == Masking(ms)
           redacts == GuardrailsFor(gs, "redact", where)
<1>1. Len(gs) \in Nat /\ \A k \in 1 .. Len(gs) : gs[k] \in GuardrailConfig
  OBVIOUS
<1>2. \A g \in GuardrailConfig : "mask" \notin g.values
  BY DEF GuardrailConfig
<1>3. ms \in V /\ \A m \in V : \A g : RedactWith(m, g, where) \in V
  BY MaskingFacts, RedactWithType
<1>4. PICK h \in [0 .. Len(gs) -> V] :
          /\ h[0] = ms
          /\ \A k \in 1 .. Len(gs) :
                h[k] = IF gs[k] \in redacts
                       THEN RedactWith(h[k - 1], gs[k], where) ELSE h[k - 1]
          /\ Redacted(gs, ms, where) = h[Len(gs)]
  <2>1. \E h : LeftBy(h, gs, V, ms, where)
    <3> HIDE DEF V
    <3> QED
      BY <1>1, <1>3, RedactedSteps
  <2> QED
    BY <2>1 DEF LeftBy
<1> DEFINE Done(k) == \A j \in 1 .. k : gs[j] \in redacts =>
                        \A i \in Selected(ms, gs[j], where, 0) :
                          h[k][i].words \cap gs[j].values = {}
           S == {k \in Nat : k <= Len(gs) => Done(k)}
<1>5. 0 \in S
  OBVIOUS
<1>6. ASSUME NEW k \in Nat, k \in S PROVE k + 1 \in S
  <2> SUFFICES ASSUME k + 1 <= Len(gs) PROVE Done(k + 1)
    OBVIOUS
  <2>1. Done(k) /\ k \in 0 .. Len(gs) /\ k + 1 \in 1 .. Len(gs)
    BY <1>1, <1>6
  <2>2. h[k + 1] = IF gs[k + 1] \in redacts
                   THEN RedactWith(h[k], gs[k + 1], where) ELSE h[k]
    BY <1>4, <2>1
  <2> SUFFICES ASSUME NEW j \in 1 .. (k + 1), gs[j] \in redacts,
                      NEW i \in Selected(ms, gs[j], where, 0)
               PROVE  h[k + 1][i].words \cap gs[j].values = {}
    OBVIOUS
  <2>3. i \in 1 .. Len(ms)
    BY MaskingFacts DEF Selected
  <2>4. gs[j] \in GuardrailConfig /\ "mask" \notin gs[j].values
    BY <1>1, <1>2, <2>1
  <2>5. h[k] \in V
    BY <2>1
  <2>6. CASE j = k + 1
    BY <2>2, <2>3, <2>4, <2>5, <2>6, RedactWithType
  <2>7. CASE j # k + 1
    <3>1. h[k][i].words \cap gs[j].values = {}
      BY <2>1, <2>7
    <3>2. h[k + 1][i].words \subseteq h[k][i].words \cup {"mask"}
      BY <2>2, <2>3, <2>5, RedactWithType
    <3> QED
      BY <2>4, <3>1, <3>2
  <2> QED
    BY <2>6, <2>7
<1>7. Done(Len(gs))
  <2>1. Nat \subseteq S
    <3> HIDE DEF S
    <3> QED
      BY <1>5, <1>6, AllNumbers
  <2> QED
    BY <1>1, <2>1
<1>8. \A g \in redacts : \E j \in 1 .. Len(gs) : g = gs[j]
  BY DEF GuardrailsFor, Range
<1> QED
  BY <1>1, <1>4, <1>7, <1>8

\* The plugins mask words and leave the rest.
LEMMA PluggedFacts ==
    ASSUME WellFormed, NEW plugins, Len(plugins) \in Nat,
           NEW ms \in Seq(Message)
    PROVE  Plugged(plugins, ms) \in Masking(ms)
<1> DEFINE V == Masking(ms)
           n == Len(plugins)
           Apply(m, k) == [i \in 1 .. Len(ms) |-> Masked(m[i], plugins[k])]
           Body(h) == [k \in 0 .. n |-> IF k = 0 THEN ms ELSE Apply(h[k - 1], k)]
           F == [k \in 1 .. n |-> [m \in V |-> Apply(m, k)]]
           made == CHOOSE h : h = Body(h)
<1>1. \A m \in V : \A k : Apply(m, k) \in V
  BY MaskedType DEF Masking
<1>2. ms \in V
  BY MaskingFacts
<1>3. \E h : h = Body(h)
  <2>1. F \in [1 .. n -> [V -> V]] /\ n \in Nat
    BY <1>1
  <2>2. \A k \in 1 .. n : \A m \in V : F[k][m] = Apply(m, k)
    OBVIOUS
  <2> HIDE DEF F, V, n, Apply
  <2>3. PICK h \in [0 .. n -> V] : h[0] = ms /\ \A k \in 1 .. n : h[k] = F[k][h[k - 1]]
    <3>1. \E h : MadeOf(h, n, V, ms, F)
      BY <1>2, <2>1, StepByStep
    <3> QED
      BY <3>1 DEF MadeOf
  <2>4. \A k \in 1 .. n : k - 1 \in 0 .. n /\ h[k - 1] \in V
    BY <2>1
  <2>5. \A k \in 1 .. n : h[k] = Apply(h[k - 1], k)
    BY <2>2, <2>3, <2>4
  <2>6. h = Body(h)
    BY <2>3, <2>5
  <2> QED
    BY <2>6
<1>4. made = Body(made)
  <2> HIDE DEF Body
  <2> QED
    BY <1>3, Zenon
<1>5. Plugged(plugins, ms) = made[n]
  BY DEF Plugged
<1>6. made[0] = ms /\ \A k \in 1 .. n : made[k] = Apply(made[k - 1], k)
  <2> HIDE DEF made, Apply
  <2> QED
    BY <1>4
<1>7. Nat \subseteq {k \in Nat : k <= n => made[k] \in V}
  <2> DEFINE S == {k \in Nat : k <= n => made[k] \in V}
  <2> HIDE DEF made, V, Apply
  <2>1. 0 \in S
    BY <1>2, <1>6
  <2>2. \A k \in Nat : k \in S => k + 1 \in S
    BY <1>1, <1>6
  <2> HIDE DEF S
  <2>3. Nat \subseteq S
    BY <2>1, <2>2, AllNumbers
  <2> QED
    BY <2>3 DEF S
<1> QED
  <2> HIDE DEF made
  <2> QED
    BY <1>5, <1>7

\* What is understood of a request is what was sent, masked; of what a redact
\* guardrail reads, none of its values is left.
LEMMA UnderstoodFacts ==
    ASSUME WellFormed, route \in Routes, NEW ms \in Seq(Message)
    PROVE  /\ Plugged(route.plugins, ms) \in Masking(ms)
           /\ Understood(ms) \in Masking(ms)
           /\ \A g \in GuardrailsFor(route.guardrails, "redact", "input") :
                \A i \in Selected(ms, g, "input", 0) :
                  Understood(ms)[i].words \cap g.values = {}
<1> DEFINE p == Plugged(route.plugins, ms)
           u == Understood(ms)
<1>1. route.plugins \in Seq(SUBSET Vocabulary) /\ route.guardrails \in Seq(GuardrailConfig)
  BY DEF WellFormed
<1>2. p \in Masking(ms)
  BY <1>1, PluggedFacts
<1>3. p \in Seq(Message) /\ Len(p) = Len(ms) /\ Len(ms) \in Nat
  BY <1>2, MaskingFacts
<1>4. u = Redacted(route.guardrails, p, "input")
  BY DEF Understood
<1>5. \A i \in 1 .. Len(ms) : /\ p[i].role = ms[i].role
                              /\ p[i].words \ {"mask"} \subseteq ms[i].words
  BY <1>2 DEF Masking
<1> HIDE DEF p, u
<1>6. u \in Masking(p)
  BY <1>1, <1>3, <1>4, RedactedFacts
<1>7. u \in Masking(ms)
  BY <1>3, <1>5, <1>6 DEF Masking
<1>8. ASSUME NEW g \in GuardrailsFor(route.guardrails, "redact", "input"),
             NEW i \in Selected(ms, g, "input", 0)
      PROVE  u[i].words \cap g.values = {}
  <2>1. Selected(p, g, "input", 0) = Selected(ms, g, "input", 0)
    BY <1>3, <1>5, SelectedByRole
  <2> QED
    BY <1>1, <1>3, <1>4, <2>1, RedactedFacts
<1> QED
  BY <1>2, <1>7, <1>8 DEF p, u

-----------------------------------------------------------------------------
\* A set of places that is not empty has a first and a last one.
LEMMA FirstAndLast ==
    ASSUME NEW n \in Nat, NEW S, S \subseteq 1 .. n, S # {}
    PROVE  /\ Min(S) \in S /\ \A x \in S : Min(S) <= x
           /\ Max(S) \in S /\ \A x \in S : x <= Max(S)
<1>1. IsWellFoundedOn(Below, Nat)
  BY NatLessThanWellFounded DEF OpToRel, Below
<1>2. ASSUME NEW T, T \subseteq Nat, T # {} PROVE \E x \in T : \A y \in T : x <= y
  <2>1. PICK x \in T : \A y \in T : ~(<<y, x>> \in Below)
    BY <1>1, <1>2, WFMin
  <2>2. \A y \in T : y \in Nat /\ x \in Nat /\ ~(y < x)
    BY <1>2, <2>1 DEF Below
  <2> QED
    BY <2>2
<1>3. S \subseteq Nat
  OBVIOUS
<1>4. \E x \in S : \A y \in S : x <= y
  BY <1>2, <1>3
<1>5. \E x \in S : \A y \in S : x >= y
  <2> DEFINE Left == {n - x : x \in S}
  <2>1. Left \subseteq Nat /\ Left # {}
    <3>1. \A x \in S : n - x \in Nat
      OBVIOUS
    <3> QED
      BY <3>1
  <2>2. PICK m \in Left : \A y \in Left : m <= y
    <3> HIDE DEF Left
    <3> QED
      BY <1>2, <2>1
  <2>3. PICK x \in S : m = n - x
    BY <2>2
  <2>4. \A y \in S : n - x <= n - y
    BY <2>2, <2>3
  <2> QED
    BY <1>3, <2>4
<1>6. Min(S) \in S /\ \A x \in S : Min(S) <= x
  BY <1>4 DEF Min
<1>7. Max(S) \in S /\ \A x \in S : Max(S) >= x
  BY <1>5 DEF Max
<1> QED
  BY <1>3, <1>6, <1>7

\* A message in front, which input guardrails do not read, moves the places
\* they read by one.
LEMMA SelectedBehind ==
    ASSUME NEW ms \in Seq(Message), NEW p \in Message, NEW g, NEW where,
           g.last \in Nat
    PROVE  /\ Selected(<<p>> \o ms, g, where, 1)
                = {i + 1 : i \in Selected(ms, g, where, 0)}
           /\ Selected(ms, g, where, 0) \subseteq 1 .. Len(ms)
<1> DEFINE ns == <<p>> \o ms
           n == Len(ms)
           kept == {i \in 1 .. n : Reads(g, ms[i].role, where)}
           moved == {i \in 2 .. (n + 1) : Reads(g, ns[i].role, where)}
           From(i) == {j \in kept : i <= j}
           Later(i) == {j \in moved : i <= j}
<1>1. n \in Nat /\ Len(ns) = n + 1 /\ \A i \in 1 .. n : ns[i + 1] = ms[i]
  OBVIOUS
<1>2. moved = {i + 1 : i \in kept}
  <2>1. \A i \in moved : i - 1 \in kept /\ i = (i - 1) + 1
    BY <1>1
  <2>2. \A i \in kept : i + 1 \in moved
    BY <1>1
  <2> HIDE DEF moved, kept
  <2> QED
    BY <2>1, <2>2
<1>3. ASSUME NEW i \in 1 .. n PROVE Cardinality(From(i)) = Cardinality(Later(i + 1))
  <2> DEFINE shift == [j \in From(i) |-> j + 1]
  <2>1. From(i) \in SUBSET (1 .. n)
    OBVIOUS
  <2>2. IsFiniteSet(From(i))
    <3>1. IsFiniteSet(1 .. n)
      BY <1>1, FS_Interval
    <3> HIDE DEF From, n
    <3> QED
      BY <2>1, <3>1, FS_Subset
  <2>3. \A j \in Later(i + 1) : j - 1 \in From(i) /\ j = (j - 1) + 1
    <3>1. \A j \in moved : \E k \in kept : j = k + 1 /\ k \in 1 .. n
      BY <1>2
    <3> HIDE DEF moved, kept
    <3> QED
      BY <3>1
  <2>4. \A j \in From(i) : j + 1 \in Later(i + 1)
    BY <1>2
  <2>5. shift \in [From(i) -> Later(i + 1)] /\ \A j, k \in From(i) : shift[j] = shift[k] => j = k
    <3> HIDE DEF Later
    <3> QED
      BY <2>1, <2>4
  <2>6. \A j \in Later(i + 1) : \E k \in From(i) : shift[k] = j
    <3> HIDE DEF Later, From
    <3> QED
      BY <2>3
  <2>7. shift \in Bijection(From(i), Later(i + 1))
    <3> HIDE DEF Later, From, shift
    <3> QED
      BY <2>5, <2>6 DEF Bijection, Injection, Surjection, IsInjective
  <2> HIDE DEF Later, From, shift
  <2> QED
    BY <2>2, <2>7, FS_Bijection DEF ExistsBijection
<1>4. Selected(ms, g, where, 0) =
        IF where = "output" \/ g.last = 0 THEN kept
        ELSE {i \in kept : Cardinality(From(i)) <= g.last}
  <2>1. {i \in (0 + 1) .. Len(ms) : Reads(g, ms[i].role, where)} = kept
    OBVIOUS
  <2>2. {i \in kept : Cardinality({j \in kept : i <= j}) <= g.last}
          = {i \in kept : Cardinality(From(i)) <= g.last}
    OBVIOUS
  <2> HIDE DEF kept, From
  <2> QED
    BY <2>1, <2>2, Zenon DEF Selected
<1>5. Selected(ns, g, where, 1) =
        IF where = "output" \/ g.last = 0 THEN moved
        ELSE {i \in moved : Cardinality(Later(i)) <= g.last}
  <2>1. {i \in (1 + 1) .. Len(ns) : Reads(g, ns[i].role, where)} = moved
    BY <1>1
  <2>2. {i \in moved : Cardinality({j \in moved : i <= j}) <= g.last}
          = {i \in moved : Cardinality(Later(i)) <= g.last}
    OBVIOUS
  <2> HIDE DEF moved, Later, ns
  <2> QED
    BY <2>1, <2>2, Zenon DEF Selected
<1>6. kept \subseteq 1 .. n
  OBVIOUS
<1> HIDE DEF ns, n, kept, moved, From, Later
<1>7. {i \in moved : Cardinality(Later(i)) <= g.last}
        = {i + 1 : i \in {j \in kept : Cardinality(From(j)) <= g.last}}
  BY <1>2, <1>3, <1>6
<1> QED
  BY <1>2, <1>4, <1>5, <1>6, <1>7 DEF ns, n

\* Behind a message in front, a check reads what it would read without it.
LEMMA TextsBehind ==
    ASSUME NEW ms \in Seq(Message), NEW p \in Message, NEW g, NEW where,
           g.last \in Nat
    PROVE  /\ TextsRead(<<p>> \o ms, g, where, 1) = TextsRead(ms, g, where, 0)
           /\ HasWindow(g, <<p>> \o ms, where, 1) = HasWindow(g, ms, where, 0)
<1> DEFINE ns == <<p>> \o ms
           S == Selected(ms, g, where, 0)
           T == Selected(ns, g, where, 1)
           Last(places) == IF g.type \in Judges /\ where = "output"
                           THEN {i \in places : \A j \in places : j <= i} ELSE places
           U == {i \in S : ms[i].words # {}}
           V == {i \in T : ns[i].words # {}}
<1>1. T = {i + 1 : i \in S} /\ S \subseteq 1 .. Len(ms)
  BY SelectedBehind
<1>2. \A i \in 1 .. Len(ms) : i \in Int /\ ns[i + 1] = ms[i]
  OBVIOUS
<1>3. /\ TextsRead(ms, g, where, 0) = {ms[i].words : i \in Last(U)}
      /\ TextsRead(ns, g, where, 1) = {ns[i].words : i \in Last(V)}
  BY DEF TextsRead
<1> HIDE DEF ns, S, T
<1>4. V = {i + 1 : i \in U} /\ U \subseteq 1 .. Len(ms)
  BY <1>1, <1>2
<1> HIDE DEF U, V
<1>5. Last(V) = {i + 1 : i \in Last(U)} /\ Last(U) \subseteq 1 .. Len(ms)
  <2> DEFINE Top(P) == {i \in P : \A j \in P : j <= i}
  <2>1. Top(V) = {i + 1 : i \in Top(U)}
    <3>1. \A i \in V : i - 1 \in U /\ i = (i - 1) + 1 /\ i \in Int
      BY <1>2, <1>4
    <3>2. \A i \in U : i + 1 \in V /\ i \in Int
      BY <1>2, <1>4
    <3>3. \A i \in Top(U) : i + 1 \in Top(V)
      BY <1>4, <3>1, <3>2
    <3>4. \A i \in Top(V) : i - 1 \in Top(U)
      BY <3>1, <3>2
    <3> QED
      BY <3>1, <3>3, <3>4
  <2>2. Top(U) \subseteq U
    OBVIOUS
  <2>3. CASE g.type \in Judges /\ where = "output"
    <3>1. Last(V) = Top(V) /\ Last(U) = Top(U)
      BY <2>3
    <3> HIDE DEF Last, Top
    <3> QED
      BY <1>4, <2>1, <2>2, <3>1
  <2>4. CASE ~(g.type \in Judges /\ where = "output")
    <3>1. Last(V) = V /\ Last(U) = U
      BY <2>4
    <3> HIDE DEF Last
    <3> QED
      BY <1>4, <3>1
  <2> QED
    BY <2>3, <2>4
<1> HIDE DEF Last
<1>6. {ns[i].words : i \in Last(V)} = {ms[i].words : i \in Last(U)}
  BY <1>2, <1>5
<1>7. (T # {}) = (S # {})
  BY <1>1
<1> QED
  BY <1>3, <1>6, <1>7 DEF HasWindow, ns, S, T

\* A message in front that the checks do not read changes no verdict.
LEMMA VerdictBehind ==
    ASSUME NEW gs \in Seq(GuardrailConfig), NEW ms \in Seq(Message),
           NEW p \in Message, NEW where, NEW broken
    PROVE  Verdict(gs, <<p>> \o ms, where, 1, broken)
             = Verdict(gs, ms, where, 0, broken)
<1> DEFINE ns == <<p>> \o ms
<1>1. ASSUME NEW g \in GuardrailConfig
      PROVE  Decision(g, ns, where, 1, broken) = Decision(g, ms, where, 0, broken)
  <2>1. g.last \in Nat
    BY DEF GuardrailConfig
  <2>2. /\ TextsRead(ns, g, where, 1) = TextsRead(ms, g, where, 0)
        /\ HasWindow(g, ns, where, 1) = HasWindow(g, ms, where, 0)
    BY <2>1, TextsBehind
  <2> QED
    BY <2>2, Zenon DEF Decision
<1>2. \A k \in DOMAIN gs : gs[k] \in GuardrailConfig
  OBVIOUS
<1> HIDE DEF ns
<1>3. Stops(gs, ns, where, 1, broken) = Stops(gs, ms, where, 0, broken)
  BY <1>1, <1>2 DEF Stops
<1> DEFINE stops == Stops(gs, ms, where, 0, broken)
<1>4. stops # {} => Min(stops) \in DOMAIN gs
  <2>1. stops \subseteq 1 .. Len(gs) /\ Len(gs) \in Nat
    BY DEF Stops
  <2>2. DOMAIN gs = 1 .. Len(gs)
    OBVIOUS
  <2> HIDE DEF stops
  <2> SUFFICES ASSUME stops # {} PROVE Min(stops) \in stops
    BY <2>1, <2>2
  <2> QED
    BY <2>1, FirstAndLast
<1>5. stops # {} =>
        Decision(gs[Min(stops)], ns, where, 1, broken)
          = Decision(gs[Min(stops)], ms, where, 0, broken)
  BY <1>1, <1>2, <1>4
<1> QED
  BY <1>3, <1>5, Zenon DEF Verdict, ns

-----------------------------------------------------------------------------
\* What the checks decide, and when they let a request go on.
LEMMA VerdictFacts ==
    ASSUME NEW gs \in Seq(GuardrailConfig), NEW ms, NEW where, NEW skip, NEW broken
    PROVE  /\ Verdict(gs, ms, where, skip, broken) \in {"pass", "block", "soft_block", "error"}
           /\ Verdict(gs, ms, where, skip, broken) = "pass" =>
                \A g \in GuardrailsFor(gs, "check", where) :
                    Decision(g, ms, where, skip, broken) = "pass"
<1> DEFINE stops == Stops(gs, ms, where, skip, broken)
           verdict == Verdict(gs, ms, where, skip, broken)
           D(g) == Decision(g, ms, where, skip, broken)
<1>1. \A k \in DOMAIN gs : gs[k] \in GuardrailConfig
  OBVIOUS
<1>2. \A g \in GuardrailConfig : D(g) \in {"pass", "block", "soft_block", "error"}
  BY DEF Decision, Handled, GuardrailConfig
<1>3. CASE stops = {}
  <2>1. verdict = "pass"
    BY <1>3 DEF Verdict
  <2>2. ASSUME NEW g \in GuardrailsFor(gs, "check", where) PROVE D(g) = "pass"
    <3>1. PICK k \in DOMAIN gs : g = gs[k]
      BY DEF GuardrailsFor, Range
    <3> QED
      BY <1>3, <3>1 DEF Stops
  <2> QED
    BY <2>1, <2>2
<1>4. CASE stops # {}
  <2>1. stops \subseteq 1 .. Len(gs) /\ Len(gs) \in Nat
    BY DEF Stops
  <2>2. Min(stops) \in stops
    <3> HIDE DEF stops
    <3> QED
      BY <1>4, <2>1, FirstAndLast
  <2>3. Min(stops) \in DOMAIN gs /\ D(gs[Min(stops)]) # "pass"
    BY <2>2 DEF Stops
  <2>4. verdict = D(gs[Min(stops)])
    BY <1>4 DEF Verdict
  <2> HIDE DEF D, verdict, stops
  <2>5. verdict \in {"pass", "block", "soft_block", "error"} /\ verdict # "pass"
    BY <1>1, <1>2, <2>3, <2>4
  <2> QED
    BY <2>5 DEF verdict
<1> QED
  BY <1>3, <1>4

\* A reply alone, as the output guardrails take it.
Said(words) == <<[role |-> "assistant", words |-> words]>>

\* A guardrail that reads the assistant's messages reads such a reply.
LEMMA SaidSelected ==
    ASSUME WellFormed, NEW words \in SUBSET Vocabulary
    PROVE  /\ Said(words) \in Seq(Message) /\ Len(Said(words)) = 1
           /\ Said(words)[1].words = words
           /\ \A g : Reads(g, "assistant", "output")
                       => Selected(Said(words), g, "output", 0) = {1}
<1>1. /\ Said(words) \in Seq(Message) /\ Len(Said(words)) = 1
      /\ Said(words)[1].words = words /\ Said(words)[1].role = "assistant"
  BY DEF Said, Message, Roles
<1>2. ASSUME NEW g, Reads(g, "assistant", "output")
      PROVE  Selected(Said(words), g, "output", 0) = {1}
  <2>1. {i \in (0 + 1) .. Len(Said(words)) : Reads(g, Said(words)[i].role, "output")} = {1}
    BY <1>1, <1>2
  <2> QED
    BY <2>1, Zenon DEF Selected
<1> QED
  BY <1>1, <1>2

\* A reply that passed the checks, with every service in order, triggers none
\* of those that stop one and read the assistant's messages.
LEMMA SaidPasses ==
    ASSUME WellFormed, NEW gs \in Seq(GuardrailConfig),
           NEW words \in SUBSET Vocabulary,
           Verdict(gs, Said(words), "output", 0, {}) = "pass",
           NEW g \in GuardrailsFor(gs, "check", "output"),
           g.behavior \in {"block", "soft_block"}, Reads(g, "assistant", "output")
    PROVE  words \cap g.values = {}
<1>1. Decision(g, Said(words), "output", 0, {}) = "pass"
  BY VerdictFacts
<1>2. CASE words # {}
  <2> DEFINE S == Selected(Said(words), g, "output", 0)
  <2>1. S = {1} /\ Said(words)[1].words = words
    BY SaidSelected
  <2>2. TextsRead(Said(words), g, "output", 0) = {words}
    <3> DEFINE places == {i \in S : Said(words)[i].words # {}}
    <3>1. places = {1}
      BY <1>2, <2>1
    <3>2. {i \in places : \A j \in places : j <= i} = {1}
      BY <3>1
    <3>3. \/ TextsRead(Said(words), g, "output", 0) = {Said(words)[i].words : i \in places}
          \/ TextsRead(Said(words), g, "output", 0)
               = {Said(words)[i].words : i \in {i \in places : \A j \in places : j <= i}}
      BY DEF TextsRead
    <3> HIDE DEF places
    <3> QED
      BY <2>1, <3>1, <3>2, <3>3
  <2>3. Handled(g) # "pass" /\ ~Silent(g, {})
        /\ ~Fails(g, {words}, {})
    BY DEF Handled, Silent, Fails
  <2>4. ~Triggers(g, {words})
    BY <1>1, <2>2, <2>3 DEF Decision
  <2> QED
    BY <2>4 DEF Triggers
<1> QED
  BY <1>2

\* A reply that was redacted.
LEMMA SaidRedacted ==
    ASSUME WellFormed, NEW gs \in Seq(GuardrailConfig),
           NEW words \in SUBSET Vocabulary
    PROVE  LET left == Redacted(gs, Said(words), "output")[1].words
           IN  /\ left \in SUBSET Vocabulary
               /\ \A g \in GuardrailsFor(gs, "redact", "output") :
                    Reads(g, "assistant", "output") => left \cap g.values = {}
<1> DEFINE out == Redacted(gs, Said(words), "output")
<1>1. Said(words) \in Seq(Message) /\ Len(Said(words)) = 1
  BY SaidSelected
<1>2. out \in Masking(Said(words))
  BY <1>1, RedactedFacts
<1>3. out[1].words \in SUBSET Vocabulary
  BY <1>1, <1>2 DEF Masking, Message
<1>4. ASSUME NEW g \in GuardrailsFor(gs, "redact", "output"),
             Reads(g, "assistant", "output")
      PROVE  out[1].words \cap g.values = {}
  <2>1. 1 \in Selected(Said(words), g, "output", 0)
    BY <1>4, SaidSelected
  <2> QED
    BY <1>1, <2>1, RedactedFacts
<1> QED
  BY <1>3, <1>4

-----------------------------------------------------------------------------
\* What is read of messages are texts of theirs.
LEMMA TextsAreWords ==
    ASSUME NEW ms \in Seq(Message)
    PROVE  /\ \A g, where, broken, gs : \A skip \in Nat :
                Shown(gs, ms, where, skip, broken) \subseteq Words(ms)
           /\ \A router : RoutingTexts(router, ms) \subseteq Words(ms)
<1>1. ASSUME NEW g, NEW where, NEW skip \in Nat
      PROVE  TextsRead(ms, g, where, skip) \subseteq Words(ms)
  <2>1. Selected(ms, g, where, skip) \subseteq 1 .. Len(ms)
    BY DEF Selected
  <2> QED
    BY <2>1 DEF TextsRead, Words
<1>2. ASSUME NEW gs, NEW where, NEW skip \in Nat, NEW broken
      PROVE  Shown(gs, ms, where, skip, broken) \subseteq Words(ms)
  BY <1>1 DEF Shown
<1>3. ASSUME NEW router PROVE RoutingTexts(router, ms) \subseteq Words(ms)
  <2>1. UserTexts(ms) \subseteq 1 .. Len(ms) /\ Texts(ms) \subseteq 1 .. Len(ms)
    BY DEF UserTexts, Texts
  <2> QED
    BY <2>1 DEF RoutingTexts, Words
<1> QED
  BY <1>2, <1>3

\* A router chooses among the models of the route.
LEMMA ChoosesOptions ==
    ASSUME WellFormed, NEW rt \in Routes, NEW ms
    PROVE  MayChoose(rt.router, ms) \subseteq Options(rt.router)
<1> DEFINE router == rt.router
           options == router.options
           hits == {i \in 1 .. Len(options) :
                      options[i].keywords \cap LastUserText(ms) # {}}
<1>1. Len(options) \in Nat
  BY DEF WellFormed
<1>2. hits # {} => (CHOOSE i \in hits : \A j \in hits : i <= j) \in 1 .. Len(options)
  <2>1. hits \subseteq 1 .. Len(options)
    OBVIOUS
  <2> HIDE DEF hits, options
  <2>2. hits # {} => \E i \in hits : \A j \in hits : i <= j
    BY <1>1, <2>1, FirstAndLast
  <2> QED
    BY <2>1, <2>2
<1>3. /\ router.default \in Options(router)
      /\ \A i \in 1 .. Len(options) : options[i].model \in Options(router)
  BY DEF Options
<1>4. hits # {} => options[CHOOSE i \in hits : \A j \in hits : i <= j].model
                     \in Options(router)
  <2> HIDE DEF hits
  <2> QED
    BY <1>2, <1>3
<1>5. \/ MayChoose(router, ms) = {router.default}
      \/ MayChoose(router, ms) = Options(router)
      \/ hits # {} /\ MayChoose(router, ms)
                        = {options[CHOOSE i \in hits : \A j \in hits : i <= j].model}
  <2> DEFINE first == CHOOSE i \in hits : \A j \in hits : i <= j
             unread == \/ router.kind = "none"
                       \/ /\ router.kind \notin {"time", "budget"}
                          /\ RoutingTexts(router, ms) = {}
  <2>1. MayChoose(router, ms) =
          CASE unread -> {router.default}
            [] router.kind = "keyword" ->
                 {IF hits = {} THEN router.default ELSE options[first].model}
            [] OTHER -> Options(router)
    BY DEF MayChoose
  <2> HIDE DEF hits, options, router, unread, first
  <2>2. \/ MayChoose(router, ms) = {router.default}
        \/ MayChoose(router, ms) = Options(router)
        \/ hits # {} /\ MayChoose(router, ms) = {options[first].model}
    BY <2>1
  <2> QED
    BY <2>2 DEF first
<1> QED
  <2> HIDE DEF hits, options
  <2> QED
    BY <1>3, <1>4, <1>5 DEF options

-----------------------------------------------------------------------------
\* The messages a cache knows a request by.
LEMMA TurnFacts ==
    ASSUME NEW api, NEW ms \in Seq(Message), NEW p \in Message
    PROVE  /\ Turn(api, ms) \in Seq(Message)
           /\ Turn(api, ms) # <<>> => Turn(api, ms)[1].words \in Words(ms)
           /\ \/ Turn(api, <<p>> \o ms) = Turn(api, ms)
              \/ /\ Turn(api, ms) = <<>>
                 /\ p.role = "user" \/ (api = "chat" /\ p.role = "developer")
<1> DEFINE roles == IF api = "chat" THEN {"user", "developer"} ELSE {"user"}
           Users(m) == {i \in 1 .. Len(m) : m[i].role \in roles}
           ns == <<p>> \o ms
<1>1. \A m : Turn(api, m) =
        IF Users(m) = {} THEN <<>> ELSE SubSeq(m, Max(Users(m)), Len(m))
  BY DEF Turn
<1>2. ASSUME NEW m \in Seq(Message), Users(m) # {}
      PROVE  /\ Max(Users(m)) \in 1 .. Len(m)
             /\ Max(Users(m)) \in Users(m)
             /\ \A i \in Users(m) : i <= Max(Users(m))
  <2>1. Users(m) \subseteq 1 .. Len(m) /\ Len(m) \in Nat
    OBVIOUS
  <2> HIDE DEF Users
  <2> QED
    BY <1>2, <2>1, FirstAndLast
<1>3. ns \in Seq(Message) /\ Len(ns) = Len(ms) + 1 /\ ns[1] = p
      /\ Len(ms) \in Nat /\ \A i \in 1 .. Len(ms) : ns[i + 1] = ms[i]
  OBVIOUS
<1>4. CASE Users(ms) = {}
  <2>1. Turn(api, ms) = <<>>
    BY <1>1, <1>4
  <2>2. CASE p.role \in roles
    BY <2>1, <2>2
  <2>3. CASE p.role \notin roles
    <3>1. Users(ns) = {}
      <4> SUFFICES ASSUME NEW i \in 1 .. Len(ns), ns[i].role \in roles PROVE FALSE
        OBVIOUS
      <4>1. i # 1
        BY <1>3, <2>3
      <4>2. i - 1 \in 1 .. Len(ms) /\ ns[i] = ms[i - 1]
        BY <1>3, <4>1
      <4> QED
        BY <1>4, <4>2
    <3>2. Turn(api, ns) = <<>>
      BY <1>1, <3>1
    <3> QED
      BY <2>1, <3>2
  <2> QED
    BY <2>1, <2>2, <2>3
<1>5. CASE Users(ms) # {}
  <2> DEFINE m == Max(Users(ms))
             n == Max(Users(ns))
  <2>1. m \in 1 .. Len(ms) /\ m \in Users(ms) /\ \A i \in Users(ms) : i <= m
    BY <1>2, <1>5
  <2>2. m + 1 \in Users(ns)
    BY <1>3, <2>1
  <2>3. n \in 1 .. Len(ns) /\ n \in Users(ns) /\ \A i \in Users(ns) : i <= n
    BY <1>2, <1>3, <2>2
  <2> HIDE DEF m, n
  <2>4. n = m + 1
    <3>1. n >= m + 1
      BY <2>1, <2>2, <2>3
    <3>2. n - 1 \in Users(ms)
      BY <1>3, <2>1, <2>3, <3>1
    <3> QED
      BY <1>3, <2>1, <2>3, <3>1, <3>2
  <2>5. Turn(api, ms) = SubSeq(ms, m, Len(ms))
        /\ Turn(api, ns) = SubSeq(ns, m + 1, Len(ms) + 1)
    BY <1>1, <1>3, <1>5, <2>2, <2>4 DEF m, n
  <2> HIDE DEF ns
  <2>6. SubSeq(ns, m + 1, Len(ms) + 1) = SubSeq(ms, m, Len(ms))
    BY <1>3, <2>1
  <2>7. SubSeq(ms, m, Len(ms)) \in Seq(Message) /\ SubSeq(ms, m, Len(ms))[1] = ms[m]
    BY <2>1
  <2>8. ms[m].words \in Words(ms)
    BY <2>1 DEF Words
  <2> QED
    BY <2>5, <2>6, <2>7, <2>8 DEF ns
<1> QED
  <2>1. <<>> \in Seq(Message)
    OBVIOUS
  <2> QED
    BY <1>1, <1>4, <1>5, <2>1

-----------------------------------------------------------------------------
\* The types of the pipeline.
LEMMA PromptTypes ==
    ASSUME WellFormed, NEW rt \in Routes, NEW p \in Prompts(rt)
    PROVE  p \in Message /\ p.role \in {"system", "developer"}
<1> DEFINE Given == [role : {"system", "developer"}, words : SUBSET Vocabulary]
<1>1. Prompts(rt) \subseteq Given
  BY DEF WellFormed
<1>2. \A q \in Given : q \in Message /\ q.role \in {"system", "developer"}
  BY DEF Message, Roles
<1> HIDE DEF Given
<1> QED
  BY <1>1, <1>2

\* A prompt, if there is one, in front of the messages.
Fronted(p, ms) == IF p = None THEN ms ELSE <<p>> \o ms
PromptsOf(rt) == Prompts(rt) \cup {None}

\* Messages behind a route's prompt are messages, of their texts and its own.
LEMMA FrontedType ==
    ASSUME WellFormed, NEW rt \in Routes, NEW ms \in Seq(Message)
    PROVE  /\ \A p \in PromptsOf(rt) :
                /\ Fronted(p, ms) \in Seq(Message)
                /\ Words(Fronted(p, ms))
                     \subseteq Words(ms) \cup {q.words : q \in Prompts(rt)}
           /\ \A model \in Options(rt.router) :
                /\ model.prompt \in PromptsOf(rt)
                /\ WithPrompt(model, ms) = Fronted(model.prompt, ms)
<1>1. ASSUME NEW p \in PromptsOf(rt)
      PROVE  /\ Fronted(p, ms) \in Seq(Message)
             /\ Words(Fronted(p, ms))
                  \subseteq Words(ms) \cup {q.words : q \in Prompts(rt)}
  <2>1. CASE p = None
    BY <2>1 DEF Fronted
  <2>2. CASE p # None
    <3> DEFINE ns == <<p>> \o ms
    <3>1. p \in Prompts(rt) /\ p \in Message
      BY <2>2, PromptTypes DEF PromptsOf
    <3>2. ns \in Seq(Message) /\ Len(ns) = Len(ms) + 1 /\ ns[1] = p
          /\ Len(ms) \in Nat /\ \A i \in 1 .. Len(ms) : ns[i + 1] = ms[i]
      BY <3>1
    <3> HIDE DEF ns
    <3>3. \A i \in 1 .. Len(ns) : i = 1 \/ (i - 1 \in 1 .. Len(ms) /\ ns[i] = ms[i - 1])
      BY <3>2
    <3>4. Fronted(p, ms) = ns
      BY <2>2 DEF Fronted, ns
    <3>5. ASSUME NEW i \in 1 .. Len(ns)
          PROVE  ns[i].words \in Words(ms) \cup {q.words : q \in Prompts(rt)}
      <4>1. CASE i = 1
        BY <3>1, <3>2, <4>1
      <4>2. CASE i # 1
        BY <3>3, <4>2 DEF Words
      <4> QED
        BY <4>1, <4>2
    <3>6. Words(ns) \subseteq Words(ms) \cup {q.words : q \in Prompts(rt)}
      <4> DEFINE Either == Words(ms) \cup {q.words : q \in Prompts(rt)}
      <4> HIDE DEF Either
      <4>1. \A i \in 1 .. Len(ns) : ns[i].words \in Either
        BY <3>5 DEF Either
      <4>2. Words(ns) \subseteq Either
        BY <4>1 DEF Words
      <4> QED
        BY <4>2 DEF Either
    <3> QED
      BY <3>2, <3>4, <3>6
  <2> QED
    BY <2>1, <2>2
<1>2. ASSUME NEW model \in Options(rt.router)
      PROVE  /\ model.prompt \in PromptsOf(rt)
             /\ WithPrompt(model, ms) = Fronted(model.prompt, ms)
  <2>1. model.prompt = None \/ model.prompt \in Prompts(rt)
    BY DEF Prompts
  <2>2. WithPrompt(model, ms) = Fronted(model.prompt, ms)
    BY DEF WithPrompt, Fronted
  <2> QED
    BY <2>1, <2>2 DEF PromptsOf
<1> QED
  BY <1>1, <1>2

\* What is left of messages after the plugins, and after redaction.
Left(rt, ms) == Plugged(rt.plugins, ms)
Kept(rt, ms) == Redacted(rt.guardrails, Left(rt, ms), "input")

\* What is left of messages are messages.
LEMMA KeptFacts ==
    ASSUME WellFormed, route \in Routes, NEW ms \in Seq(Message)
    PROVE  /\ Understood(ms) = Kept(route, ms)
           /\ Left(route, ms) \in Seq(Message)
           /\ Kept(route, ms) \in Seq(Message)
<1>1. Understood(ms) = Kept(route, ms)
  BY DEF Understood, Kept, Left
<1> QED
  BY <1>1, UnderstoodFacts, MaskingFacts DEF Left

\* The texts of messages are of the vocabulary.
LEMMA WordsType ==
    ASSUME NEW ms \in Seq(Message)
    PROVE  Words(ms) \subseteq SUBSET Vocabulary
<1>1. \A i \in 1 .. Len(ms) : ms[i] \in Message
  OBVIOUS
<1>2. \A m \in Message : m.words \in SUBSET Vocabulary
  BY DEF Message
<1> QED
  BY <1>1, <1>2 DEF Words

\* The services that fail in a step are at most one for each of its checks.
LEMMA FailuresCounted ==
    ASSUME failures \in Nat, NEW where, NEW f \in MayFail(where)
    PROVE  /\ Cardinality(f.judged) \in Nat /\ Cardinality(f.warned) \in Nat
           /\ \/ f.judged = {}
              \/ \E g \in Fallible(route.guardrails, where) : f.judged = {g}
<1>1. /\ \/ f.judged = {}
         \/ \E g \in Fallible(route.guardrails, where) : f.judged = {g}
      /\ f.warned = {} \/ \E g : f.warned = {g}
  BY DEF MayFail
<1>2. Cardinality({}) = 0 /\ \A g : Cardinality({g}) = 1
  BY FS_EmptySet, FS_Singleton
<1>3. ASSUME NEW S, S = {} \/ \E g : S = {g} PROVE Cardinality(S) \in Nat
  <2>1. CASE S = {}
    BY <1>2, <2>1
  <2>2. CASE \E g : S = {g}
    <3>1. PICK g : S = {g}
      BY <2>2
    <3>2. Cardinality(S) = Cardinality({g})
      BY <3>1, Zenon
    <3>3. Cardinality(S) = 1
      BY <1>2, <3>2, Zenon
    <3> QED
      BY <3>3
  <2> QED
    BY <1>3, <2>1, <2>2
<1>4. Cardinality(f.judged) \in Nat /\ Cardinality(f.warned) \in Nat
  BY <1>1, <1>3, Zenon
<1> QED
  BY <1>1, <1>4

\* One request moves, and the others stay.
LEMMA BecomesType ==
    ASSUME ChatTypeOK, NEW r \in Requests, NEW x \in Request, Becomes(r, x)
    PROVE  req' \in [Requests -> Request] /\ req'[r] = x
           /\ \A q \in Requests : q # r => req'[q] = req[q]
  BY DEF ChatTypeOK, Becomes

\* What is told has the type of the history.
LEMMA TellType ==
    ASSUME ChatTypeOK, NEW r \in Requests, NEW texts \in SUBSET SUBSET Vocabulary,
           \/ Tell(r, "router", texts) \/ Tell(r, "judge", texts)
           \/ Tell(r, "embedder", texts) \/ Tell(r, "model", texts)
           \/ Tell(r, "output judge", texts)
    PROVE  told' \subseteq [request : Requests, service : Services, words : SUBSET Vocabulary]
<1>1. ASSUME NEW service \in Services, Tell(r, service, texts)
      PROVE  told' \subseteq [request : Requests, service : Services,
                              words : SUBSET Vocabulary]
  <2> DEFINE T == [request : Requests, service : Services, words : SUBSET Vocabulary]
  <2>1. \A w \in texts : [request |-> r, service |-> service, words |-> w] \in T
    OBVIOUS
  <2>2. told \subseteq T
    BY DEF ChatTypeOK
  <2> HIDE DEF T
  <2>3. told' \subseteq T
    BY <1>1, <2>1, <2>2 DEF Tell
  <2> QED
    BY <2>3 DEF T
<1> QED
  BY <1>1 DEF Services

\* What a request is known by has the type of a key.
LEMMA KnownType ==
    ASSUME NEW x \in Request
    PROVE  /\ Known(x) \in Seq(Message)
           /\ Embeddable(x) \in SUBSET Vocabulary
           /\ x.api \in {"chat", "responses"}
                => CacheKey(x) \in Key \cup {None}
<1>1. x.messages \in Seq(Message) /\ x.clean \in Seq(Message)
  BY DEF Request
<1>2. PICK ms \in Seq(Message) : Known(x) = Turn(x.api, ms)
  BY <1>1 DEF Known
<1>3. PICK p : p \in Message
  <2>1. [role |-> "user", words |-> {}] \in Message
    BY DEF Message, Roles
  <2> QED
    BY <2>1
<1>4. Known(x) \in Seq(Message)
  <2>1. Turn(x.api, ms) \in Seq(Message)
    BY <1>3, TurnFacts
  <2> QED
    BY <1>2, <2>1
<1>5. Known(x) # <<>> => Known(x)[1] \in Message
  BY <1>4
<1> QED
  BY <1>4, <1>5 DEF Embeddable, CacheKey, Key, Message

\* At first the types hold.
LEMMA InitTyped == WellFormed /\ ChatInit => ChatTypeOK
<1> SUFFICES ASSUME WellFormed, ChatInit PROVE ChatTypeOK
  OBVIOUS
<1>1. Fresh \in Request
  BY DEF Fresh, Request, Message
<1> QED
  BY <1>1 DEF ChatInit, ChatTypeOK

\* What a step on a request leaves alone: the other requests, the route, and
\* what its client asked.
Moved(r) ==
    /\ req' \in [Requests -> Request]
    /\ \A q \in Requests : q # r => req'[q] = req[q]
    /\ route' = route
Asking(r) ==
    req'[r].api = req[r].api /\ req'[r].way = req[r].way /\ req'[r].sent = req[r].sent

\* What becomes of a request under each action.
LEMMA TypesNow ==
    ASSUME WellFormed, ChatTypeOK
    PROVE  /\ route \in Routes /\ failures \in Nat
           /\ route.guardrails \in Seq(GuardrailConfig)
           /\ \A r \in Requests : /\ req[r] \in Request
                                  /\ req[r].sent \in Seq(Message)
                                  /\ req[r].messages \in Seq(Message)
                                  /\ req[r].clean \in Seq(Message)
                                  /\ req[r].skip \in {0, 1} /\ req[r].skip \in Nat
                                  /\ req[r].words \in SUBSET Vocabulary
<1>1. ASSUME NEW y \in Request
      PROVE  /\ y.sent \in Seq(Message) /\ y.messages \in Seq(Message)
             /\ y.clean \in Seq(Message) /\ y.skip \in {0, 1} /\ y.skip \in Nat
             /\ y.words \in SUBSET Vocabulary
  BY DEF Request
<1>2. route \in Routes /\ failures \in Nat /\ req \in [Requests -> Request]
  BY DEF ChatTypeOK
<1>3. route.guardrails \in Seq(GuardrailConfig)
  BY <1>2 DEF WellFormed
<1> QED
  BY <1>1, <1>2, <1>3

\* A request arrives with what its client sent.
LEMMA ArriveDoes ==
    ASSUME WellFormed, ChatTypeOK, NEW r \in Requests, NEW ask \in Asked,
           Arrive(r, ask)
    PROVE  /\ Moved(r) /\ UNCHANGED <<cache, told, failures>>
           /\ req[r].at = "idle" /\ req'[r].at = "preprocess"
           /\ req'[r].api \in {"chat", "responses"} /\ req'[r].way \in {"complete", "stream"}
           /\ req'[r].messages = req'[r].sent
           /\ req'[r].key = req[r].key /\ req'[r].hit = req[r].hit
<1> DEFINE x == [req[r] EXCEPT !.at = "preprocess", !.api = ask.api, !.way = ask.way,
                   !.sent = ask.messages, !.messages = ask.messages]
<1>1. Becomes(r, x) /\ UNCHANGED <<route, cache, told, failures>> /\ req[r].at = "idle"
  BY DEF Arrive
<1>2. /\ ask.api \in {"chat", "responses"} /\ ask.way \in {"complete", "stream"}
      /\ ask.messages \in Seq(Message)
  BY DEF WellFormed
<1>3. ASSUME NEW y \in Request, NEW z,
             z = [y EXCEPT !.at = "preprocess", !.api = ask.api, !.way = ask.way,
                   !.sent = ask.messages, !.messages = ask.messages]
      PROVE  /\ z \in Request /\ z.at = "preprocess" /\ z.api = ask.api /\ z.way = ask.way
             /\ z.messages = z.sent /\ z.key = y.key /\ z.hit = y.hit
  BY <1>2, <1>3 DEF Request
<1>4. req[r] \in Request
  BY TypesNow
<1>5. /\ x \in Request /\ x.at = "preprocess" /\ x.api = ask.api /\ x.way = ask.way
      /\ x.messages = x.sent /\ x.key = req[r].key /\ x.hit = req[r].hit
  <2> HIDE DEF x
  <2> QED
    BY <1>3, <1>4 DEF x
<1> HIDE DEF x
<1> QED
  BY <1>1, <1>2, <1>5, BecomesType DEF Moved

\* The plugins leave what Left says.
LEMMA PreprocessDoes ==
    ASSUME WellFormed, ChatTypeOK, NEW r \in Requests, Preprocess(r)
    PROVE  /\ Moved(r) /\ Asking(r) /\ UNCHANGED <<cache, told, failures>>
           /\ req[r].at = "preprocess" /\ req'[r].at = "redact"
           /\ req'[r].messages = Left(route, req[r].messages)
           /\ req'[r].key = req[r].key /\ req'[r].hit = req[r].hit /\ req'[r].from = req[r].from
<1> DEFINE left == Left(route, req[r].messages)
           X(y, m) == [y EXCEPT !.at = "redact", !.messages = m]
<1>1. /\ Becomes(r, X(req[r], left)) /\ UNCHANGED <<route, cache, told, failures>>
      /\ req[r].at = "preprocess"
  BY DEF Preprocess, Left
<1>2. left \in Seq(Message) /\ req[r] \in Request
  BY TypesNow, KeptFacts
<1>3. ASSUME NEW y \in Request, NEW m \in Seq(Message)
      PROVE  /\ X(y, m) \in Request /\ X(y, m).at = "redact" /\ X(y, m).messages = m
             /\ X(y, m).api = y.api /\ X(y, m).way = y.way /\ X(y, m).sent = y.sent
             /\ X(y, m).key = y.key /\ X(y, m).hit = y.hit /\ X(y, m).from = y.from
  BY DEF Request
<1> HIDE DEF left, X
<1> QED
  BY <1>1, <1>2, <1>3, BecomesType DEF Moved, Asking, left

\* The redact guardrails leave what Kept says.
LEMMA RedactDoes ==
    ASSUME WellFormed, ChatTypeOK, NEW r \in Requests, RedactInput(r)
    PROVE  /\ Moved(r) /\ Asking(r) /\ UNCHANGED <<cache, told, failures>>
           /\ req[r].at = "redact" /\ req'[r].at = "route"
           /\ req'[r].messages = req[r].messages
           /\ req'[r].clean = Redacted(route.guardrails, req[r].messages, "input")
           /\ req'[r].key = req[r].key /\ req'[r].hit = req[r].hit /\ req'[r].from = req[r].from
<1> DEFINE clean == Redacted(route.guardrails, req[r].messages, "input")
           X(y, c, b) == [y EXCEPT !.at = "route", !.clean = c, !.warned = b]
<1>1. /\ Becomes(r, X(req[r], clean, clean # req[r].messages))
      /\ UNCHANGED <<route, cache, told, failures>> /\ req[r].at = "redact"
  BY DEF RedactInput
<1>2. clean \in Seq(Message) /\ req[r] \in Request
  BY TypesNow, RedactedFacts, MaskingFacts
<1>3. ASSUME NEW y \in Request, NEW c \in Seq(Message), NEW b \in BOOLEAN
      PROVE  /\ X(y, c, b) \in Request /\ X(y, c, b).at = "route" /\ X(y, c, b).clean = c
             /\ X(y, c, b).messages = y.messages
             /\ X(y, c, b).api = y.api /\ X(y, c, b).way = y.way /\ X(y, c, b).sent = y.sent
             /\ X(y, c, b).key = y.key /\ X(y, c, b).hit = y.hit /\ X(y, c, b).from = y.from
  BY DEF Request
<1>4. PICK b \in BOOLEAN : b = (clean # req[r].messages)
  OBVIOUS
<1> HIDE DEF clean
<1> DEFINE x == X(req[r], clean, b)
<1> HIDE DEF X
<1>5. /\ x \in Request /\ x.at = "route" /\ x.clean = clean
      /\ x.messages = req[r].messages
      /\ x.api = req[r].api /\ x.way = req[r].way /\ x.sent = req[r].sent
      /\ x.key = req[r].key /\ x.hit = req[r].hit /\ x.from = req[r].from
  BY <1>2, <1>3
<1>6. Becomes(r, x)
  BY <1>1, <1>4
<1> HIDE DEF x
<1> QED
  BY <1>1, <1>5, <1>6, BecomesType DEF Moved, Asking, clean

\* A router is told texts of the request and puts its model's prompt in front.
LEMMA RouteDoes ==
    ASSUME WellFormed, ChatTypeOK, NEW r \in Requests, RouteTo(r)
    PROVE  \E model \in Options(route.router) :
           /\ Moved(r) /\ Asking(r) /\ UNCHANGED <<cache, failures>>
           /\ req[r].at = "route" /\ req'[r].at = "check"
           /\ req'[r].messages = IF req[r].api = "chat" THEN Fronted(model.prompt, req[r].messages)
                                 ELSE req[r].messages
           /\ req'[r].clean = Fronted(model.prompt, req[r].clean)
           /\ req'[r].skip = PromptMessages(model)
           /\ req'[r].key = req[r].key /\ req'[r].hit = req[r].hit /\ req'[r].from = req[r].from
           /\ \E texts \in SUBSET Words(req[r].clean) : Tell(r, "router", texts)
<1> DEFINE X(y, m, c, k) == [y EXCEPT !.at = "check", !.messages = m, !.clean = c, !.skip = k]
           texts == IF Discloses(route.router)
                    THEN RoutingTexts(route.router, req[r].clean) ELSE {}
<1>1. PICK model \in MayChoose(route.router, req[r].clean) :
          Becomes(r, X(req[r],
            IF req[r].api = "chat" THEN WithPrompt(model, req[r].messages)
            ELSE req[r].messages,
            WithPrompt(model, req[r].clean),
            PromptMessages(model)))
  BY DEF RouteTo
<1> DEFINE m == IF req[r].api = "chat" THEN Fronted(model.prompt, req[r].messages)
                ELSE req[r].messages
           c == Fronted(model.prompt, req[r].clean)
           k == PromptMessages(model)
<1>2. /\ UNCHANGED <<route, cache, failures>> /\ req[r].at = "route"
      /\ Tell(r, "router", texts)
  BY DEF RouteTo
<1>3. route \in Routes /\ req[r] \in Request
      /\ req[r].messages \in Seq(Message) /\ req[r].clean \in Seq(Message)
  BY TypesNow
<1>4. model \in Options(route.router)
  BY <1>3, ChoosesOptions
<1>5. /\ WithPrompt(model, req[r].messages) = Fronted(model.prompt, req[r].messages)
      /\ WithPrompt(model, req[r].clean) = c
      /\ m \in Seq(Message) /\ c \in Seq(Message) /\ k \in {0, 1}
  BY <1>3, <1>4, FrontedType DEF PromptMessages
<1>6. Becomes(r, X(req[r], m, c, k))
  <2> HIDE DEF X
  <2> QED
    BY <1>1, <1>5
<1>7. texts \in SUBSET Words(req[r].clean)
  BY <1>3, TextsAreWords
<1> HIDE DEF m, c, k, texts
<1>8. ASSUME NEW y \in Request
      PROVE  LET x == X(y, m, c, k)
             IN  /\ x \in Request /\ x.at = "check" /\ x.messages = m /\ x.clean = c
                 /\ x.skip = k
                 /\ x.api = y.api /\ x.way = y.way /\ x.sent = y.sent /\ x.key = y.key
                 /\ x.hit = y.hit /\ x.from = y.from
  BY <1>5 DEF Request
<1> DEFINE x == X(req[r], m, c, k)
<1> HIDE DEF X
<1>9. /\ x \in Request /\ x.at = "check" /\ x.messages = m /\ x.clean = c /\ x.skip = k
      /\ x.api = req[r].api /\ x.way = req[r].way /\ x.sent = req[r].sent
      /\ x.key = req[r].key /\ x.hit = req[r].hit /\ x.from = req[r].from
  BY <1>3, <1>8
<1> HIDE DEF x
<1>10. Moved(r) /\ req'[r] = x
  BY <1>2, <1>6, <1>9, BecomesType DEF Moved, x
<1> QED
  BY <1>2, <1>4, <1>7, <1>9, <1>10 DEF Asking, m, c, k

\* What the rest of a step keeps of a request.
Keeping(r) ==
    /\ req'[r].key = req[r].key /\ req'[r].hit = req[r].hit /\ req'[r].from = req[r].from
    /\ req'[r].messages = req[r].messages /\ req'[r].clean = req[r].clean
    /\ req'[r].skip = req[r].skip /\ req'[r].vector = req[r].vector

\* None of the services is out of order, or one of those that may be.
OneBroken(where, broken) ==
    broken = {} \/ \E g \in Fallible(route.guardrails, where) : broken = {g}

\* The input checks decide by the verdict, with one service out of order at most.
LEMMA CheckDoes ==
    ASSUME WellFormed, ChatTypeOK, NEW r \in Requests, CheckInput(r)
    PROVE  /\ Moved(r) /\ Asking(r) /\ Keeping(r) /\ cache' = cache /\ failures' \in Nat
           /\ req[r].at = "check"
           /\ \E texts \in SUBSET Words(req[r].clean) : Tell(r, "judge", texts)
           /\ \E broken : OneBroken("input", broken) /\
                LET v == Verdict(route.guardrails, req[r].clean, "input",
                                          req[r].skip, broken)
                IN  \/ v = "pass" /\ req'[r].at \in {"call", "key"}
                    \/ v = "soft_block" /\ req'[r].at = "reply" /\ req'[r].refused
                    \/ v \in {"block", "error"} /\ req'[r].at = v
<1>1. PICK f \in MayFail("input") :
        LET m == req[r].clean
            verdict == Verdict(route.guardrails, m, "input", req[r].skip, f.judged)
        IN /\ Count(f)
           /\ Tell(r, "judge", Shown(route.guardrails, m, "input", req[r].skip, f.judged))
           /\ CASE verdict = "pass" ->
                     Becomes(r, [req[r] EXCEPT
                              !.at = IF route.caching = None THEN "call" ELSE "key",
                              !.excused = f.judged # {},
                              !.warned = \/ req[r].warned
                                         \/ Warns(route.guardrails, m, "input",
                                                  req[r].skip, f.warned)])
                [] verdict = "soft_block" ->
                     Becomes(r, [req[r] EXCEPT !.at = "reply", !.words = {"refusal"},
                              !.refused = TRUE, !.header = TRUE])
                [] OTHER -> Becomes(r, [req[r] EXCEPT !.at = verdict])
  BY DEF CheckInput
<1> DEFINE v == Verdict(route.guardrails, req[r].clean, "input", req[r].skip, f.judged)
           texts == Shown(route.guardrails, req[r].clean, "input", req[r].skip, f.judged)
           at == IF route.caching = None THEN "call" ELSE "key"
           excused == f.judged # {}
           warned == \/ req[r].warned
                     \/ Warns(route.guardrails, req[r].clean, "input", req[r].skip, f.warned)
           P(y) == [y EXCEPT !.at = at, !.excused = excused, !.warned = warned]
           S(y) == [y EXCEPT !.at = "reply", !.words = {"refusal"}, !.refused = TRUE, !.header = TRUE]
           O(y) == [y EXCEPT !.at = v]
<1>2. /\ UNCHANGED <<route, cache>> /\ req[r].at = "check"
      /\ Count(f) /\ Tell(r, "judge", texts)
      /\ \/ v = "pass" /\ Becomes(r, P(req[r]))
         \/ v = "soft_block" /\ Becomes(r, S(req[r]))
         \/ v \notin {"pass", "soft_block"} /\ Becomes(r, O(req[r]))
  <2>1. UNCHANGED <<route, cache>> /\ req[r].at = "check"
    BY DEF CheckInput
  <2> HIDE DEF at, excused, warned
  <2>2. /\ Count(f) /\ Tell(r, "judge", texts)
        /\ CASE v = "pass" -> Becomes(r, P(req[r]))
             [] v = "soft_block" -> Becomes(r, S(req[r]))
             [] OTHER -> Becomes(r, O(req[r]))
    BY <1>1, Zenon DEF at, excused, warned
  <2> HIDE DEF P, S, O, v, texts
  <2> QED
    BY <2>1, <2>2
<1>3. /\ route \in Routes /\ req[r] \in Request /\ failures \in Nat
      /\ req[r].clean \in Seq(Message) /\ req[r].skip \in Nat
      /\ route.guardrails \in Seq(GuardrailConfig)
  BY TypesNow
<1>4. texts \in SUBSET Words(req[r].clean)
  BY <1>3, TextsAreWords
<1>5. OneBroken("input", f.judged) /\ failures' \in Nat
  BY <1>2, <1>3, FailuresCounted DEF Count, OneBroken
<1>6. v \in {"pass", "block", "soft_block", "error"}
  BY <1>3, VerdictFacts
<1>7. at \in {"call", "key"} /\ excused \in BOOLEAN
  OBVIOUS
<1>8. req[r].warned \in BOOLEAN => warned \in BOOLEAN
  BY DEF Warns
<1> HIDE DEF v, texts, at, excused, warned
<1> DEFINE Same(x, y) ==
             /\ x \in Request
             /\ x.api = y.api /\ x.way = y.way /\ x.sent = y.sent /\ x.key = y.key
             /\ x.hit = y.hit /\ x.from = y.from /\ x.messages = y.messages
             /\ x.clean = y.clean /\ x.skip = y.skip
             /\ x.vector = y.vector
<1>9. ASSUME NEW y \in Request, warned \in BOOLEAN
      PROVE  Same(P(y), y) /\ P(y).at = at
  BY <1>7, <1>9 DEF Request
<1>10. ASSUME NEW y \in Request
       PROVE  /\ Same(S(y), y) /\ S(y).at = "reply" /\ S(y).refused
              /\ v \in {"block", "error"} => Same(O(y), y) /\ O(y).at = v
  <2>1. {"refusal"} \subseteq Vocabulary
    BY DEF WellFormed
  <2> QED
    BY <2>1 DEF Request
<1>11. warned \in BOOLEAN
  <2>1. \A y \in Request : y.warned \in BOOLEAN
    BY DEF Request
  <2> QED
    BY <1>3, <1>8, <2>1
<1> HIDE DEF P, S, O
<1>12. PICK x : /\ Becomes(r, x) /\ Same(x, req[r])
                /\ \/ v = "pass" /\ x.at = at
                   \/ v = "soft_block" /\ x.at = "reply" /\ x.refused
                   \/ v \in {"block", "error"} /\ x.at = v
  <2> HIDE DEF Same
  <2> QED
    BY <1>2, <1>3, <1>6, <1>9, <1>10, <1>11
<1>13. Moved(r) /\ req'[r] = x
  BY <1>2, <1>12, BecomesType DEF Moved
<1>14. /\ Asking(r) /\ Keeping(r)
       /\ \/ v = "pass" /\ req'[r].at \in {"call", "key"}
          \/ v = "soft_block" /\ req'[r].at = "reply" /\ req'[r].refused
          \/ v \in {"block", "error"} /\ req'[r].at = v
  BY <1>7, <1>12, <1>13 DEF Asking, Keeping
<1> QED
  BY <1>2, <1>4, <1>5, <1>13, <1>14 DEF v

\* A key is made of what a request is known by, or there is none.
LEMMA KeyDoes ==
    ASSUME WellFormed, ChatTypeOK, NEW r \in Requests, MakeKey(r),
           req[r].api \in {"chat", "responses"}
    PROVE  /\ Moved(r) /\ Asking(r) /\ cache' = cache /\ failures' \in Nat
           /\ req'[r].hit = req[r].hit /\ req'[r].from = req[r].from
           /\ req'[r].messages = req[r].messages /\ req'[r].clean = req[r].clean
           /\ req'[r].skip = req[r].skip
           /\ req[r].at = "key"
           /\ \/ told' = told
              \/ /\ Known(req[r]) # <<>>
                 /\ Tell(r, "embedder", {Known(req[r])[1].words})
           /\ \/ req'[r].at \in {"call", "error"} /\ req'[r].key \in {req[r].key, None}
              \/ /\ req'[r].at = "lookup" /\ Known(req[r]) # <<>>
                 /\ req'[r].key = [api |-> req[r].api, turn |-> Known(req[r])]
                 /\ route.caching = "exact" \/ req'[r].vector = Known(req[r])[1].words
<1> DEFINE known == Known(req[r])
           key == CacheKey(req[r])
           vector == Embeddable(req[r])
           E(y) == [y EXCEPT !.at = IF key = None THEN "call" ELSE "lookup", !.key = key]
           F(y) == [y EXCEPT !.at = "lookup", !.key = key, !.vector = vector]
           C(y) == [y EXCEPT !.at = "call"]
           G(y) == [y EXCEPT !.at = "error"]
<1>1. /\ UNCHANGED <<route, cache>> /\ req[r].at = "key"
      /\ failures' \in {failures, failures + 1}
      /\ \/ told' = told
         \/ vector # {} /\ Tell(r, "embedder", {vector})
      /\ \/ /\ route.caching = "exact" \/ key = None
            /\ Becomes(r, E(req[r]))
         \/ vector # {} /\ Becomes(r, F(req[r]))
         \/ Becomes(r, C(req[r])) \/ Becomes(r, G(req[r]))
  <2> HIDE DEF key, vector
  <2>1. /\ UNCHANGED <<route, cache>> /\ req[r].at = "key"
        /\ \/ /\ route.caching = "exact" \/ (req[r].api = "responses" /\ key = None)
              /\ Becomes(r, E(req[r]))
              /\ UNCHANGED <<told, failures>>
           \/ IF vector = {}
              THEN /\ Becomes(r, [req[r] EXCEPT !.at =
                                        CASE req[r].api = "chat" -> "error" [] OTHER -> "call"])
                   /\ UNCHANGED <<told, failures>>
              ELSE /\ Tell(r, "embedder", {vector})
                   /\ \/ Becomes(r, F(req[r])) /\ UNCHANGED failures
                      \/ /\ failures' = failures + 1
                         /\ Becomes(r, [req[r] EXCEPT !.at =
                                        CASE req[r].api = "chat" -> "error" [] OTHER -> "call"])
    BY Zenon DEF MakeKey, key, vector
  <2>2. [req[r] EXCEPT !.at = CASE req[r].api = "chat" -> "error" [] OTHER -> "call"]
          \in {C(req[r]), G(req[r])}
    BY Zenon
  <2> HIDE DEF E, F, C, G
  <2> QED
    BY <2>1, <2>2
<1>2. req[r] \in Request /\ failures \in Nat
  BY TypesNow
<1>3. key \in Key \cup {None} /\ vector \in SUBSET Vocabulary
  BY <1>2, KnownType
<1>4. /\ key = IF known = <<>> THEN None ELSE [api |-> req[r].api, turn |-> known]
      /\ vector = IF known = <<>> THEN {} ELSE known[1].words
  BY DEF CacheKey, Embeddable
<1> HIDE DEF key, vector, known
<1> DEFINE Same(x, y) ==
             /\ x \in Request
             /\ x.api = y.api /\ x.way = y.way /\ x.sent = y.sent
             /\ x.hit = y.hit /\ x.from = y.from /\ x.messages = y.messages
             /\ x.clean = y.clean /\ x.skip = y.skip
<1>5. ASSUME NEW y \in Request
      PROVE  /\ Same(E(y), y) /\ E(y).key = key
             /\ E(y).at = IF key = None THEN "call" ELSE "lookup"
  BY <1>3 DEF Request
<1>6. ASSUME NEW y \in Request
      PROVE  Same(F(y), y) /\ F(y).key = key /\ F(y).at = "lookup" /\ F(y).vector = vector
  BY <1>3 DEF Request
<1>7. ASSUME NEW y \in Request
      PROVE  /\ Same(C(y), y) /\ C(y).key = y.key /\ C(y).at = "call"
             /\ Same(G(y), y) /\ G(y).key = y.key /\ G(y).at = "error"
  BY DEF Request
<1> HIDE DEF E, F, C, G
<1>8. PICK x : /\ Becomes(r, x) /\ Same(x, req[r])
               /\ \/ x.at \in {"call", "error"} /\ x.key \in {req[r].key, None}
                  \/ /\ x.at = "lookup" /\ x.key = key /\ key # None
                     /\ route.caching = "exact"
                  \/ /\ x.at = "lookup" /\ x.key = key /\ vector # {}
                     /\ x.vector = vector
  <2> HIDE DEF Same
  <2> QED
    BY <1>1, <1>2, <1>5, <1>6, <1>7
<1>9. Moved(r) /\ req'[r] = x
  BY <1>1, <1>8, BecomesType DEF Moved
<1>10. \/ req'[r].at \in {"call", "error"} /\ req'[r].key \in {req[r].key, None}
       \/ /\ req'[r].at = "lookup" /\ known # <<>>
          /\ req'[r].key = [api |-> req[r].api, turn |-> known]
          /\ route.caching = "exact" \/ req'[r].vector = known[1].words
  BY <1>4, <1>8, <1>9
<1>11. \/ told' = told
       \/ known # <<>> /\ Tell(r, "embedder", {known[1].words})
  BY <1>1, <1>4
<1> QED
  BY <1>1, <1>2, <1>8, <1>9, <1>10, <1>11 DEF Asking, known

\* A lookup misses, or takes the reply of an entry that matches.
LEMMA LookUpDoes ==
    ASSUME WellFormed, ChatTypeOK, NEW r \in Requests, LookUp(r)
    PROVE  /\ Moved(r) /\ Asking(r) /\ UNCHANGED <<cache, told, failures>>
           /\ req'[r].key = req[r].key /\ req'[r].messages = req[r].messages
           /\ req'[r].clean = req[r].clean /\ req'[r].skip = req[r].skip
           /\ req'[r].vector = req[r].vector
           /\ req[r].at = "lookup"
           /\ \/ req'[r].at = "call" /\ req'[r].hit = req[r].hit /\ req'[r].from = req[r].from
              \/ \E e \in Matches(req[r]) :
                   /\ e.key.api = req[r].api
                   /\ req'[r].at = IF ScreensHit(req[r]) THEN "screen" ELSE "reply"
                   /\ req'[r].words = e.words /\ req'[r].refused = e.refused
                   /\ req'[r].excused = e.excused /\ req'[r].from = e.sent /\ req'[r].hit
<1> DEFINE at == IF ScreensHit(req[r]) THEN "screen" ELSE "reply"
           H(y, e) == [y EXCEPT !.at = at, !.words = e.words, !.refused = e.refused, !.hit = TRUE,
                         !.excused = e.excused, !.from = e.sent]
           C(y) == [y EXCEPT !.at = "call"]
<1>1. /\ UNCHANGED <<route, cache, told, failures>> /\ req[r].at = "lookup"
      /\ \/ Becomes(r, C(req[r]))
         \/ \E e \in Matches(req[r]) :
               e.key.api = req[r].api /\ Becomes(r, H(req[r], e))
  BY Zenon DEF LookUp
<1>2. req[r] \in Request
  BY TypesNow
<1>3. Matches(req[r]) \subseteq cache
  BY DEF Matches
<1>4. ASSUME NEW e \in cache
      PROVE  /\ e.words \in SUBSET Vocabulary /\ e.refused \in BOOLEAN /\ e.excused \in BOOLEAN
             /\ e.sent \in Seq(Message)
  BY DEF ChatTypeOK
<1>5. at \in {"screen", "reply"}
  OBVIOUS
<1> HIDE DEF at
<1> DEFINE Same(x, y) ==
             /\ x \in Request
             /\ x.api = y.api /\ x.way = y.way /\ x.sent = y.sent /\ x.key = y.key
             /\ x.messages = y.messages /\ x.clean = y.clean /\ x.skip = y.skip
             /\ x.vector = y.vector
           Got(x, e) == x.at = at /\ x.words = e.words /\ x.refused = e.refused
                        /\ x.excused = e.excused /\ x.from = e.sent /\ x.hit
<1>6. ASSUME NEW y \in Request, NEW e \in cache
      PROVE  Same(H(y, e), y) /\ Got(H(y, e), e)
  BY <1>4, <1>5 DEF Request
<1>7. ASSUME NEW y \in Request
      PROVE  Same(C(y), y) /\ C(y).at = "call" /\ C(y).hit = y.hit /\ C(y).from = y.from
  BY DEF Request
<1> HIDE DEF H, C
<1>8. PICK x : /\ Becomes(r, x) /\ Same(x, req[r])
               /\ \/ x.at = "call" /\ x.hit = req[r].hit /\ x.from = req[r].from
                  \/ \E e \in Matches(req[r]) : e.key.api = req[r].api /\ Got(x, e)
  <2> HIDE DEF Same, Got
  <2> QED
    BY <1>1, <1>2, <1>3, <1>6, <1>7
<1>9. Moved(r) /\ req'[r] = x
  BY <1>1, <1>8, BecomesType DEF Moved
<1> QED
  BY <1>1, <1>8, <1>9 DEF Asking, at

\* A reply is stored as it is given.
LEMMA StoreDoes ==
    ASSUME WellFormed, ChatTypeOK, NEW r \in Requests, Store(r)
    PROVE  /\ Moved(r) /\ Asking(r) /\ Keeping(r) /\ UNCHANGED <<told, failures>>
           /\ req[r].at = "store" /\ req'[r].at = "reply"
           /\ req'[r].words = req[r].words /\ req'[r].refused = req[r].refused
           /\ req'[r].excused = req[r].excused
           /\ cache' \subseteq cache \cup
                {[key |-> req[r].key, vector |-> req[r].vector, words |-> req[r].words,
                  refused |-> req[r].refused, excused |-> req[r].excused, sent |-> req[r].sent]}
<1> DEFINE R(y) == [y EXCEPT !.at = "reply"]
<1>1. /\ UNCHANGED <<route, told, failures>> /\ req[r].at = "store"
      /\ Becomes(r, R(req[r]))
      /\ cache' \subseteq cache \cup
           {[key |-> req[r].key, vector |-> req[r].vector, words |-> req[r].words,
             refused |-> req[r].refused, excused |-> req[r].excused, sent |-> req[r].sent]}
  BY DEF Store
<1>2. req[r] \in Request
  BY TypesNow
<1> DEFINE Same(x, y) ==
             /\ x \in Request
             /\ x.api = y.api /\ x.way = y.way /\ x.sent = y.sent /\ x.key = y.key
             /\ x.hit = y.hit /\ x.from = y.from /\ x.words = y.words
             /\ x.refused = y.refused /\ x.excused = y.excused
             /\ x.messages = y.messages /\ x.clean = y.clean /\ x.skip = y.skip
             /\ x.vector = y.vector
<1>3. ASSUME NEW y \in Request PROVE Same(R(y), y) /\ R(y).at = "reply"
  BY DEF Request
<1> HIDE DEF R
<1>4. PICK x : Becomes(r, x) /\ Same(x, req[r]) /\ x.at = "reply"
  <2> HIDE DEF Same
  <2> QED
    BY <1>1, <1>2, <1>3
<1>5. Moved(r) /\ req'[r] = x
  BY <1>1, <1>4, BecomesType DEF Moved
<1> QED
  BY <1>1, <1>4, <1>5 DEF Asking, Keeping

\* A model is told the texts of the request; its reply is screened if anything screens.
LEMMA CallDoes ==
    ASSUME WellFormed, ChatTypeOK, NEW r \in Requests, CallModel(r)
    PROVE  /\ Moved(r) /\ Asking(r) /\ Keeping(r) /\ UNCHANGED <<cache, failures>>
           /\ req[r].at = "call" /\ Tell(r, "model", {{}} \cup Words(req[r].clean))
           /\ \/ Screens /\ req'[r].at = "screen"
              \/ ~Screens /\ req'[r].at = "store" /\ req[r].key # None
              \/ ~Screens /\ req'[r].at = "reply"
<1> DEFINE Onward(words) ==
             CASE Screens -> "screen"
               [] /\ ~Screens
                  /\ req[r].key # None
                  /\ words # {} \/ req[r].way = "complete" \/ req[r].api = "responses"
                  -> "store"
               [] OTHER -> "reply"
           W(y, words) == [y EXCEPT !.words = words, !.at = Onward(words)]
<1>1. PICK words \in Answers : Becomes(r, W(req[r], words))
  BY Zenon DEF CallModel
<1>2. /\ UNCHANGED <<route, cache, failures>> /\ req[r].at = "call"
      /\ Tell(r, "model", {{}} \cup Words(req[r].clean))
  BY DEF CallModel
<1>3. req[r] \in Request /\ words \in SUBSET Vocabulary
  BY TypesNow DEF WellFormed
<1>4. \/ Screens /\ Onward(words) = "screen"
      \/ ~Screens /\ Onward(words) = "store" /\ req[r].key # None
      \/ ~Screens /\ Onward(words) = "reply"
  OBVIOUS
<1> DEFINE at == Onward(words)
<1>5. at \in {"screen", "store", "reply"}
  BY <1>4
<1> HIDE DEF Onward, at
<1> DEFINE Same(x, y) ==
             /\ x \in Request
             /\ x.api = y.api /\ x.way = y.way /\ x.sent = y.sent /\ x.key = y.key
             /\ x.hit = y.hit /\ x.from = y.from
             /\ x.messages = y.messages /\ x.clean = y.clean /\ x.skip = y.skip
             /\ x.vector = y.vector
           V(y) == [y EXCEPT !.words = words, !.at = at]
<1>6. ASSUME NEW y \in Request PROVE Same(V(y), y) /\ V(y).at = at
  BY <1>3, <1>5 DEF Request
<1>7. Becomes(r, V(req[r]))
  BY <1>1 DEF at
<1> HIDE DEF V, W
<1>8. PICK x : Becomes(r, x) /\ Same(x, req[r]) /\ x.at = at
  <2> HIDE DEF Same
  <2> QED
    BY <1>3, <1>6, <1>7
<1>9. Moved(r) /\ req'[r] = x
  BY <1>2, <1>8, BecomesType DEF Moved
<1> QED
  BY <1>2, <1>4, <1>8, <1>9 DEF Asking, Keeping, at

\* A reply after redaction, but that of a chat stream, has nothing to mask.
LEMMA AfterRedactionType ==
    ASSUME WellFormed, ChatTypeOK, NEW r \in Requests
    PROVE  /\ AfterRedaction(req[r]) \in SUBSET Vocabulary
           /\ (req[r].api = "chat" /\ req[r].way = "stream")
                \/ \A g \in GuardrailsFor(route.guardrails, "redact", "output") :
                     Reads(g, "assistant", "output")
                       => AfterRedaction(req[r]) \cap g.values = {}
<1>1. req[r].words \in SUBSET Vocabulary /\ route.guardrails \in Seq(GuardrailConfig)
  BY TypesNow
<1>2. AfterRedaction(req[r]) =
        IF req[r].words = {} \/ (req[r].api = "chat" /\ req[r].way = "stream") THEN req[r].words
        ELSE Redacted(route.guardrails, Said(req[r].words), "output")[1].words
  BY DEF AfterRedaction, Said
<1> QED
  BY <1>1, <1>2, SaidRedacted

\* A reply that goes on has passed, or is a refusal.
LEMMA ScreenDoes ==
    ASSUME WellFormed, ChatTypeOK, NEW r \in Requests, ScreenOutput(r)
    PROVE  /\ Moved(r) /\ Asking(r) /\ Keeping(r) /\ cache' = cache /\ failures' \in Nat
           /\ req[r].at = "screen"
           /\ \E texts \in SUBSET SUBSET Vocabulary : Tell(r, "output judge", texts)
           /\ \/ \E broken : LET words == AfterRedaction(req[r]) IN
                   /\ Verdict(route.guardrails, Said(words), "output", 0, broken) = "pass"
                   /\ req'[r].words = words /\ req'[r].refused = req[r].refused
                   /\ req'[r].excused = (broken # {})
                   /\ req'[r].at = AfterScreen(req[r])
              \/ req'[r].at = AfterScreen(req[r]) /\ req'[r].refused
              \/ req'[r].at \in {"block", "error"}
<1> DEFINE words == AfterRedaction(req[r])
           buffered == req[r].api = "chat" /\ req[r].way = "stream"
           V(f) == Verdict(route.guardrails, Said(words), "output", 0, f.judged)
           Told(f) == Shown(route.guardrails, Said(words), "output", 0, f.judged)
           after == AfterScreen(req[r])
           W(f) == \/ req[r].warned
                   \/ ~buffered /\ words # req[r].words
                   \/ ~buffered /\ Warns(route.guardrails, Said(words), "output", 0, f.warned)
           P(y, e, w) == [y EXCEPT !.at = after, !.words = words, !.excused = e, !.warned = w]
           S(y) == [y EXCEPT !.at = after, !.words = {"refusal"}, !.refused = TRUE,
                       !.header = TRUE, !.warned = TRUE]
           O(y, at) == [y EXCEPT !.at = at]
<1>1. PICK f \in MayFail("output") :
        /\ Count(f)
        /\ Tell(r, "output judge", Told(f))
        /\ CASE V(f) = "pass" -> Becomes(r, P(req[r], f.judged # {}, W(f)))
             [] V(f) = "soft_block" /\ ~buffered -> Becomes(r, S(req[r]))
             [] OTHER -> Becomes(r, O(req[r], IF V(f) = "soft_block" THEN "block" ELSE V(f)))
  BY Zenon DEF ScreenOutput, Said
<1> DEFINE v == V(f)
           excused == f.judged # {}
           warned == W(f)
           stopped == IF v = "soft_block" THEN "block" ELSE v
           texts == Told(f)
<1>2. /\ UNCHANGED <<route, cache>> /\ req[r].at = "screen"
      /\ Count(f) /\ Tell(r, "output judge", texts)
      /\ \/ v = "pass" /\ Becomes(r, P(req[r], excused, warned))
         \/ Becomes(r, S(req[r]))
         \/ v # "pass" /\ Becomes(r, O(req[r], stopped))
  <2>1. UNCHANGED <<route, cache>> /\ req[r].at = "screen"
    BY DEF ScreenOutput
  <2> HIDE DEF P, S, O, V, W, Told, buffered
  <2> QED
    BY <1>1, <2>1
<1>3. /\ route \in Routes /\ req[r] \in Request /\ failures \in Nat
      /\ route.guardrails \in Seq(GuardrailConfig)
  BY TypesNow
<1>4. words \in SUBSET Vocabulary
  BY AfterRedactionType
<1>5. texts \in SUBSET SUBSET Vocabulary
  <2>1. Said(words) \in Seq(Message)
    BY <1>4, SaidSelected
  <2> HIDE DEF words
  <2> QED
    BY <2>1, TextsAreWords, WordsType
<1>6. failures' \in Nat
  <2>1. failures' = failures + Cardinality(f.judged) + Cardinality(f.warned)
    BY <1>2 DEF Count
  <2>2. Cardinality(f.judged) \in Nat /\ Cardinality(f.warned) \in Nat
    BY <1>3, FailuresCounted
  <2> QED
    BY <1>3, <2>1, <2>2
<1>7. v \in {"pass", "block", "soft_block", "error"}
  <2> HIDE DEF words
  <2> QED
    BY <1>3, VerdictFacts
<1>8. after \in {"reply", "store"} /\ excused \in BOOLEAN
  BY DEF AfterScreen
<1>9. v # "pass" => stopped \in {"block", "error"}
  <2> HIDE DEF v
  <2> QED
    BY <1>7
<1>10. req[r].warned \in BOOLEAN => warned \in BOOLEAN
  BY DEF Warns
<1>11. \A y \in Request : y.warned \in BOOLEAN
  BY DEF Request
<1>12. warned \in BOOLEAN
  BY <1>3, <1>10, <1>11
<1> HIDE DEF words, v, excused, warned, stopped, texts, after
<1> DEFINE Same(x, y) ==
             /\ x \in Request
             /\ x.api = y.api /\ x.way = y.way /\ x.sent = y.sent /\ x.key = y.key
             /\ x.hit = y.hit /\ x.from = y.from
             /\ x.messages = y.messages /\ x.clean = y.clean /\ x.skip = y.skip
             /\ x.vector = y.vector
           Passed(x, y) == x.at = after /\ x.words = words /\ x.refused = y.refused
                           /\ x.excused = excused
<1> DEFINE P1(y) == P(y, excused, warned)
           O1(y) == O(y, stopped)
<1>13. ASSUME NEW y \in Request PROVE Same(P1(y), y) /\ Passed(P1(y), y)
  BY <1>4, <1>8, <1>12 DEF Request
<1>14. ASSUME NEW y \in Request PROVE Same(S(y), y) /\ S(y).at = after /\ S(y).refused
  <2>1. {"refusal"} \subseteq Vocabulary
    BY DEF WellFormed
  <2> QED
    BY <1>8, <2>1 DEF Request
<1>15. ASSUME NEW y \in Request, v # "pass" PROVE Same(O1(y), y) /\ O1(y).at = stopped
  BY <1>9, <1>15 DEF Request
<1>16. \/ v = "pass" /\ Becomes(r, P1(req[r]))
       \/ Becomes(r, S(req[r]))
       \/ v # "pass" /\ Becomes(r, O1(req[r]))
  <2> HIDE DEF P, S, O
  <2> QED
    BY <1>2
<1> HIDE DEF P1, S, O1, P, O
<1>17. PICK x : /\ Becomes(r, x) /\ Same(x, req[r])
                /\ \/ v = "pass" /\ Passed(x, req[r])
                   \/ x.at = after /\ x.refused
                   \/ x.at \in {"block", "error"}
  <2> HIDE DEF Same, Passed
  <2> QED
    BY <1>3, <1>9, <1>13, <1>14, <1>15, <1>16
<1>18. Moved(r) /\ req'[r] = x
  BY <1>2, <1>17, BecomesType DEF Moved
<1>19. Asking(r) /\ Keeping(r)
  BY <1>17, <1>18 DEF Asking, Keeping
<1>20. \/ /\ Verdict(route.guardrails, Said(words), "output", 0, f.judged) = "pass"
          /\ req'[r].words = words /\ req'[r].refused = req[r].refused
          /\ req'[r].excused = (f.judged # {})
          /\ req'[r].at = after
       \/ req'[r].at = after /\ req'[r].refused
       \/ req'[r].at \in {"block", "error"}
  BY <1>17, <1>18 DEF v, excused
<1> QED
  BY <1>2, <1>5, <1>6, <1>18, <1>19, <1>20 DEF words, after

\* A request that fails is over.
LEMMA FailDoes ==
    ASSUME WellFormed, ChatTypeOK, NEW r \in Requests, Fail(r)
    PROVE  /\ Moved(r) /\ Asking(r) /\ Keeping(r) /\ UNCHANGED <<cache, told>> /\ failures' \in Nat
           /\ req[r].at # "idle" /\ req'[r].at = "error"
<1> DEFINE R(y) == [y EXCEPT !.at = "error"]
<1>1. /\ UNCHANGED <<route, cache, told>> /\ req[r].at # "idle" /\ failures' = failures + 1
      /\ Becomes(r, R(req[r]))
  BY DEF Fail
<1>2. req[r] \in Request /\ failures \in Nat
  BY TypesNow
<1> DEFINE Same(x, y) ==
             /\ x \in Request
             /\ x.api = y.api /\ x.way = y.way /\ x.sent = y.sent /\ x.key = y.key
             /\ x.hit = y.hit /\ x.from = y.from
             /\ x.messages = y.messages /\ x.clean = y.clean /\ x.skip = y.skip
             /\ x.vector = y.vector
<1>3. ASSUME NEW y \in Request PROVE Same(R(y), y) /\ R(y).at = "error"
  BY DEF Request
<1> HIDE DEF R
<1>4. PICK x : Becomes(r, x) /\ Same(x, req[r]) /\ x.at = "error"
  <2> HIDE DEF Same
  <2> QED
    BY <1>1, <1>2, <1>3
<1>5. Moved(r) /\ req'[r] = x
  BY <1>1, <1>4, BecomesType DEF Moved
<1> QED
  BY <1>1, <1>2, <1>4, <1>5 DEF Asking, Keeping

\* How far a request is: what its messages are made of at each stage of it.
Behind(rt, x) ==
    \E p \in PromptsOf(rt) :
        /\ x.clean = Fronted(p, Kept(rt, x.sent))
        /\ x.api = "chat" => x.messages = Fronted(p, Left(rt, x.sent))
        /\ x.skip = IF p = None THEN 0 ELSE 1
StageOf(rt, x) ==
    /\ x.at # "idle" => x.api \in {"chat", "responses"} /\ x.way \in {"complete", "stream"}
    /\ x.at = "idle" => ~x.hit
    /\ x.at \in {"idle", "preprocess", "redact", "route", "check", "key"} => x.key = None
    /\ x.at = "preprocess" => x.messages = x.sent
    /\ x.at \in {"redact", "route"} => x.messages = Left(rt, x.sent)
    /\ x.at = "route" => x.clean = Kept(rt, x.sent)
    /\ x.at \in {"check", "key", "lookup", "call"} => Behind(rt, x)

\* What the cache knows a request by: its messages, behind a prompt of the route.
Asis(rt, api, ms) == IF api = "chat" THEN Left(rt, ms) ELSE Kept(rt, ms)
Keyed(rt, api, ms, key, vector) ==
    /\ key \in Key /\ key.api = api /\ key.turn # <<>>
    /\ \E p \in PromptsOf(rt) : key.turn = Turn(api, Fronted(p, Asis(rt, api, ms)))
    /\ rt.caching = "exact" \/ vector = key.turn[1].words
KeyedBy(rt, x) ==
    \/ x.at \in {"lookup", "store"}
    \/ x.at \in {"call", "screen"} /\ x.key # None
    => Keyed(rt, x.api, x.sent, x.key, x.vector)
Stages == \A r \in Requests : StageOf(route, req[r]) /\ KeyedBy(route, req[r])

\* Behind its route's prompt a request is known by a turn of the two.
LEMMA KnownBehind ==
    ASSUME NEW x \in Request, Behind(route, x), x.api \in {"chat", "responses"}
    PROVE  \E p \in PromptsOf(route) :
              Known(x) = Turn(x.api, Fronted(p, Asis(route, x.api, x.sent)))
  BY DEF Behind, Known, Asis

\* Every step keeps the stages.
LEMMA StepStages ==
    ASSUME WellFormed, ChatTypeOK, Stages, ChatNext
    PROVE  Stages'
<1>1. ASSUME NEW r \in Requests, Moved(r),
             StageOf(route, req'[r]), KeyedBy(route, req'[r])
      PROVE  Stages'
  BY <1>1 DEF Stages, Moved
<1>2. ASSUME NEW r \in Requests
      PROVE  /\ StageOf(route, req[r]) /\ KeyedBy(route, req[r])
             /\ req[r].sent \in Seq(Message) /\ req[r] \in Request
  BY TypesNow DEF Stages
<1> USE DEF StageOf, KeyedBy
<1>3. ASSUME NEW r \in Requests, NEW ask \in Asked, Arrive(r, ask) PROVE Stages'
  BY <1>1, <1>2, <1>3, ArriveDoes
<1>4. ASSUME NEW r \in Requests, Preprocess(r) PROVE Stages'
  BY <1>1, <1>2, <1>4, PreprocessDoes DEF Asking
<1>5. ASSUME NEW r \in Requests, RedactInput(r) PROVE Stages'
  BY <1>1, <1>2, <1>5, RedactDoes DEF Asking, Kept
<1>6. ASSUME NEW r \in Requests, RouteTo(r) PROVE Stages'
  <2>1. PICK model \in Options(route.router) :
           /\ Moved(r) /\ Asking(r) /\ UNCHANGED <<cache, failures>>
           /\ req[r].at = "route" /\ req'[r].at = "check"
           /\ req'[r].messages = IF req[r].api = "chat" THEN Fronted(model.prompt, req[r].messages)
                                 ELSE req[r].messages
           /\ req'[r].clean = Fronted(model.prompt, req[r].clean)
           /\ req'[r].skip = PromptMessages(model)
           /\ req'[r].key = req[r].key /\ req'[r].hit = req[r].hit /\ req'[r].from = req[r].from
    BY <1>6, RouteDoes
  <2>2. model.prompt \in PromptsOf(route)
    BY TypesNow, FrontedType
  <2>3. Behind(route, req'[r])
    BY <1>2, <2>1, <2>2 DEF Behind, Asking, PromptMessages
  <2> QED
    BY <1>1, <1>2, <2>1, <2>3 DEF Asking
<1>7. ASSUME NEW r \in Requests, Asking(r), Keeping(r), Behind(route, req[r])
      PROVE  Behind(route, req'[r])
  BY <1>7 DEF Asking, Keeping, Behind
<1>8. ASSUME NEW r \in Requests, CheckInput(r) PROVE Stages'
  <2>1. /\ Moved(r) /\ Asking(r) /\ Keeping(r) /\ req[r].at = "check"
        /\ req'[r].at \in {"call", "key", "reply", "block", "error"}
    BY <1>8, CheckDoes
  <2> QED
    BY <1>1, <1>2, <1>7, <2>1 DEF Asking, Keeping
<1>9. ASSUME NEW r \in Requests, MakeKey(r) PROVE Stages'
  <2>1. req[r].at = "key"
    BY <1>9 DEF MakeKey
  <2>2. req[r].api \in {"chat", "responses"} /\ Behind(route, req[r]) /\ req[r].key = None
    BY <1>2, <2>1
  <2>3. /\ Moved(r) /\ Asking(r) /\ req'[r].messages = req[r].messages
        /\ req'[r].clean = req[r].clean /\ req'[r].skip = req[r].skip
        /\ \/ req'[r].at \in {"call", "error"} /\ req'[r].key \in {req[r].key, None}
           \/ /\ req'[r].at = "lookup" /\ Known(req[r]) # <<>>
              /\ req'[r].key = [api |-> req[r].api, turn |-> Known(req[r])]
              /\ route.caching = "exact" \/ req'[r].vector = Known(req[r])[1].words
    BY <1>9, <2>2, KeyDoes
  <2>4. Behind(route, req'[r])
    BY <2>2, <2>3 DEF Asking, Behind
  <2>7. req'[r].api \in {"chat", "responses"} /\ req'[r].way \in {"complete", "stream"}
    BY <1>2, <2>1, <2>3 DEF Asking
  <2>8. req'[r].at \in {"call", "error", "lookup"}
    BY <2>3
  <2>9. StageOf(route, req'[r])
    BY <2>4, <2>7, <2>8
  <2>5. CASE req'[r].at \in {"call", "error"}
    <3>1. KeyedBy(route, req'[r])
      BY <2>2, <2>3, <2>5
    <3> QED
      BY <1>1, <2>3, <2>9, <3>1
  <2>6. CASE req'[r].at = "lookup"
    <3>1. PICK p \in PromptsOf(route) :
            Known(req[r])
              = Turn(req[r].api, Fronted(p, Asis(route, req[r].api, req[r].sent)))
      BY <1>2, <2>2, KnownBehind
    <3>2. Known(req[r]) \in Seq(Message)
      BY <1>2, KnownType
    <3>3. Keyed(route, req'[r].api, req'[r].sent, req'[r].key, req'[r].vector)
      BY <2>2, <2>3, <2>6, <3>1, <3>2 DEF Keyed, Asking, Key
    <3>4. KeyedBy(route, req'[r])
      BY <3>3
    <3> QED
      BY <1>1, <2>3, <2>9, <3>4
  <2> QED
    BY <2>3, <2>5, <2>6
<1>10. ASSUME NEW r \in Requests, LookUp(r) PROVE Stages'
  <2>1. /\ Moved(r) /\ Asking(r) /\ req'[r].key = req[r].key /\ req'[r].messages = req[r].messages
        /\ req'[r].clean = req[r].clean /\ req'[r].skip = req[r].skip
        /\ req'[r].vector = req[r].vector /\ req[r].at = "lookup"
        /\ req'[r].at \in {"call", "screen", "reply"}
    BY <1>10, LookUpDoes
  <2>2. Behind(route, req'[r])
    BY <1>2, <2>1 DEF Asking, Behind
  <2>3. Keyed(route, req'[r].api, req'[r].sent, req'[r].key, req'[r].vector)
    BY <1>2, <2>1 DEF Asking
  <2>4. req'[r].api \in {"chat", "responses"} /\ req'[r].way \in {"complete", "stream"}
    BY <1>2, <2>1 DEF Asking
  <2>5. StageOf(route, req'[r]) /\ KeyedBy(route, req'[r])
    BY <2>1, <2>2, <2>3, <2>4
  <2> QED
    BY <1>1, <2>1, <2>5
<1>11. ASSUME NEW r \in Requests, Store(r) PROVE Stages'
  <2>1. Moved(r) /\ Asking(r) /\ req[r].at = "store" /\ req'[r].at = "reply"
    BY <1>11, StoreDoes
  <2>2. req'[r].api \in {"chat", "responses"} /\ req'[r].way \in {"complete", "stream"}
    BY <1>2, <2>1 DEF Asking
  <2> QED
    BY <1>1, <2>1, <2>2
<1>12. ASSUME NEW r \in Requests, CallModel(r) PROVE Stages'
  <2>1. /\ Moved(r) /\ Asking(r) /\ Keeping(r) /\ req[r].at = "call"
        /\ \/ req'[r].at \in {"screen", "reply"}
           \/ req'[r].at = "store" /\ req[r].key # None
    BY <1>12, CallDoes
  <2>2. req'[r].api \in {"chat", "responses"} /\ req'[r].way \in {"complete", "stream"}
    BY <1>2, <2>1 DEF Asking
  <2>3. req'[r].key # None
          => Keyed(route, req'[r].api, req'[r].sent, req'[r].key, req'[r].vector)
    BY <1>2, <2>1 DEF Asking, Keeping
  <2>4. StageOf(route, req'[r]) /\ KeyedBy(route, req'[r])
    BY <2>1, <2>2, <2>3 DEF Keeping
  <2> QED
    BY <1>1, <2>1, <2>4
<1>13. ASSUME NEW r \in Requests, ScreenOutput(r) PROVE Stages'
  <2>1. /\ Moved(r) /\ Asking(r) /\ Keeping(r) /\ req[r].at = "screen"
        /\ req'[r].at \in {AfterScreen(req[r]), "block", "error"}
    BY <1>13, ScreenDoes
  <2>2. \/ req'[r].at = "store" /\ req[r].key # None
        \/ req'[r].at \in {"reply", "block", "error"}
    BY <2>1 DEF AfterScreen
  <2> QED
    BY <1>1, <1>2, <2>1, <2>2 DEF Asking, Keeping
<1>14. ASSUME NEW r \in Requests, Fail(r) PROVE Stages'
  BY <1>1, <1>2, <1>14, FailDoes DEF Asking, Keeping
<1>15. CASE Expire
  BY <1>15 DEF Expire, Stages
<1> QED
  BY <1>3, <1>4, <1>5, <1>6, <1>8, <1>9, <1>10, <1>11, <1>12, <1>13, <1>14, <1>15
  DEF ChatNext
\* Every step keeps the types.
LEMMA StepTyped ==
    ASSUME WellFormed, ChatTypeOK, Stages, ChatNext
    PROVE  ChatTypeOK'
<1> DEFINE Entry == [key : Key, vector : SUBSET Vocabulary, words : SUBSET Vocabulary,
                     refused : BOOLEAN, excused : BOOLEAN, sent : Seq(Message)]
<1>0. route \in Routes /\ failures \in Nat /\ cache \subseteq Entry
  BY DEF ChatTypeOK
<1>1. ASSUME NEW r \in Requests, Moved(r), UNCHANGED told, failures' \in Nat, cache' \subseteq Entry
      PROVE  ChatTypeOK'
  BY <1>1 DEF Moved, ChatTypeOK
<1>2. ASSUME NEW r \in Requests, Moved(r), failures' \in Nat, cache' \subseteq Entry,
             told' \subseteq [request : Requests, service : Services, words : SUBSET Vocabulary]
      PROVE  ChatTypeOK'
  BY <1>2 DEF Moved, ChatTypeOK
<1>3. ASSUME NEW r \in Requests
      PROVE  /\ \A texts \in SUBSET Words(req[r].clean) : texts \in SUBSET SUBSET Vocabulary
             /\ Words(req[r].clean) \in SUBSET SUBSET Vocabulary
  BY TypesNow, WordsType
<1>4. ASSUME NEW r \in Requests, NEW ask \in Asked, Arrive(r, ask) PROVE ChatTypeOK'
  BY <1>0, <1>1, <1>4, ArriveDoes
<1>5. ASSUME NEW r \in Requests, Preprocess(r) PROVE ChatTypeOK'
  BY <1>0, <1>1, <1>5, PreprocessDoes
<1>6. ASSUME NEW r \in Requests, RedactInput(r) PROVE ChatTypeOK'
  BY <1>0, <1>1, <1>6, RedactDoes
<1>7. ASSUME NEW r \in Requests, RouteTo(r) PROVE ChatTypeOK'
  <2>1. /\ Moved(r) /\ UNCHANGED <<cache, failures>>
        /\ \E texts \in SUBSET Words(req[r].clean) : Tell(r, "router", texts)
    BY <1>7, RouteDoes
  <2>2. told' \subseteq [request : Requests, service : Services, words : SUBSET Vocabulary]
    BY <1>3, <2>1, TellType
  <2> QED
    BY <1>0, <1>2, <2>1, <2>2
<1>8. ASSUME NEW r \in Requests, CheckInput(r) PROVE ChatTypeOK'
  <2>1. /\ Moved(r) /\ cache' = cache /\ failures' \in Nat
        /\ \E texts \in SUBSET Words(req[r].clean) : Tell(r, "judge", texts)
    BY <1>8, CheckDoes
  <2>2. told' \subseteq [request : Requests, service : Services, words : SUBSET Vocabulary]
    BY <1>3, <2>1, TellType
  <2> QED
    BY <1>0, <1>2, <2>1, <2>2
<1>9. ASSUME NEW r \in Requests, MakeKey(r) PROVE ChatTypeOK'
  <2>0. req[r].api \in {"chat", "responses"}
    BY <1>9 DEF MakeKey, Stages, StageOf
  <2>1. /\ Moved(r) /\ cache' = cache /\ failures' \in Nat
        /\ \/ told' = told
           \/ /\ Known(req[r]) # <<>>
              /\ Tell(r, "embedder", {Known(req[r])[1].words})
    BY <1>9, <2>0, KeyDoes
  <2>2. Known(req[r]) # <<>>
          => {Known(req[r])[1].words} \in SUBSET SUBSET Vocabulary
    <3>1. Known(req[r]) \in Seq(Message)
      BY TypesNow, KnownType
    <3>2. Known(req[r]) # <<>> => Known(req[r])[1] \in Message
      BY <3>1
    <3> QED
      BY <3>2 DEF Message
  <2>3. CASE told' = told
    BY <1>0, <1>1, <2>1, <2>3
  <2>4. CASE told' # told
    <3>1. told' \subseteq [request : Requests, service : Services, words : SUBSET Vocabulary]
      BY <2>1, <2>2, <2>4, TellType
    <3> QED
      BY <1>0, <1>2, <2>1, <3>1
  <2> QED
    BY <2>3, <2>4
<1>10. ASSUME NEW r \in Requests, LookUp(r) PROVE ChatTypeOK'
  BY <1>0, <1>1, <1>10, LookUpDoes
<1>11. ASSUME NEW r \in Requests, Store(r) PROVE ChatTypeOK'
  <2>0. req[r].key \in Key
    BY <1>11 DEF Store, Stages, KeyedBy, Keyed
  <2>1. \A y \in Request : y.key \in Key =>
          [key |-> y.key, vector |-> y.vector, words |-> y.words, refused |-> y.refused,
           excused |-> y.excused, sent |-> y.sent] \in Entry
    BY DEF Request
  <2> HIDE DEF Entry
  <2>2. cache' \subseteq Entry
    BY <1>0, <1>11, <2>0, <2>1, StoreDoes, TypesNow
  <2> QED
    BY <1>0, <1>1, <1>11, <2>2, StoreDoes
<1>12. ASSUME NEW r \in Requests, CallModel(r) PROVE ChatTypeOK'
  <2>1. /\ Moved(r) /\ UNCHANGED <<cache, failures>>
        /\ Tell(r, "model", {{}} \cup Words(req[r].clean))
    BY <1>12, CallDoes
  <2> DEFINE texts == {{}} \cup Words(req[r].clean)
  <2>2. texts \in SUBSET SUBSET Vocabulary /\ Tell(r, "model", texts)
    BY <1>3, <2>1
  <2> HIDE DEF texts
  <2>3. told' \subseteq [request : Requests, service : Services, words : SUBSET Vocabulary]
    BY <2>2, TellType
  <2> QED
    BY <1>0, <1>2, <2>1, <2>3
<1>13. ASSUME NEW r \in Requests, ScreenOutput(r) PROVE ChatTypeOK'
  <2>1. /\ Moved(r) /\ cache' = cache /\ failures' \in Nat
        /\ \E texts \in SUBSET SUBSET Vocabulary : Tell(r, "output judge", texts)
    BY <1>13, ScreenDoes
  <2>2. told' \subseteq [request : Requests, service : Services, words : SUBSET Vocabulary]
    BY <2>1, TellType
  <2> QED
    BY <1>0, <1>2, <2>1, <2>2
<1>14. ASSUME NEW r \in Requests, Fail(r) PROVE ChatTypeOK'
  BY <1>0, <1>1, <1>14, FailDoes
<1>15. CASE Expire
  BY <1>0, <1>15 DEF Expire, ChatTypeOK
<1> QED
  BY <1>4, <1>5, <1>6, <1>7, <1>8, <1>9, <1>10, <1>11, <1>12, <1>13, <1>14, <1>15
  DEF ChatNext

\* At first nothing has been asked.
LEMMA InitStages == ChatInit => Stages
<1> SUFFICES ASSUME ChatInit, NEW r \in Requests
             PROVE  StageOf(route, req[r]) /\ KeyedBy(route, req[r])
  BY DEF Stages
<1>1. req[r].at = "idle" /\ ~req[r].hit /\ req[r].key = None
  BY DEF ChatInit, Fresh
<1> QED
  BY <1>1 DEF StageOf, KeyedBy

-----------------------------------------------------------------------------
\* What the services behind the gateway are told is a text of a route's prompt
\* or of what is understood of the request.
Fine(rt, ms, w) ==
    \/ w = {}
    \/ w \in {p.words : p \in Prompts(rt)}
    \/ w \in Words(Kept(rt, ms))
Exempt(x, service) == service = "output judge" \/ (service = "embedder" /\ x.api = "chat")
ToldOf(rt, x, t) == x.at # "idle" /\ (Exempt(x, t.service) \/ Fine(rt, x.sent, t.words))
ToldInv == \A t \in told : ToldOf(route, req[t.request], t)

\* Until the model has answered, the texts of a request are fine to tell.
LEMMA CleanFine ==
    ASSUME WellFormed, ChatTypeOK, Stages, NEW r \in Requests,
           req[r].at \in {"route", "check", "key", "lookup", "call"}
    PROVE  \A w \in Words(req[r].clean) : Fine(route, req[r].sent, w)
<1>1. route \in Routes /\ req[r].sent \in Seq(Message) /\ StageOf(route, req[r])
  BY TypesNow DEF Stages
<1>2. Kept(route, req[r].sent) \in Seq(Message)
  BY <1>1, KeptFacts
<1>3. CASE req[r].at = "route"
  BY <1>1, <1>3 DEF StageOf, Fine
<1>4. CASE req[r].at # "route"
  <2>1. PICK p \in PromptsOf(route) : req[r].clean = Fronted(p, Kept(route, req[r].sent))
    BY <1>1, <1>4 DEF StageOf, Behind
  <2>2. Words(req[r].clean)
          \subseteq Words(Kept(route, req[r].sent))
                      \cup {q.words : q \in Prompts(route)}
    BY <1>1, <1>2, <2>1, FrontedType
  <2> QED
    BY <2>2 DEF Fine
<1> QED
  BY <1>3, <1>4

\* Every step tells only what is fine to tell.
LEMMA StepTold ==
    ASSUME WellFormed, ChatTypeOK, Stages, ToldInv, ChatNext
    PROVE  ToldInv'
<1>0. \A t \in told : t.request \in Requests /\ ToldOf(route, req[t.request], t)
  BY DEF ChatTypeOK, ToldInv
<1>1. ASSUME NEW r \in Requests, Moved(r), Asking(r), req'[r].at # "idle", told' = told
      PROVE  ToldInv'
  BY <1>0, <1>1 DEF ToldInv, ToldOf, Exempt, Moved, Asking
<1>2. ASSUME NEW r \in Requests, Moved(r), Asking(r), req'[r].at # "idle",
             NEW service, NEW texts, Tell(r, service, texts),
             \A w \in texts : Exempt(req[r], service) \/ Fine(route, req[r].sent, w)
      PROVE  ToldInv'
  <2> SUFFICES ASSUME NEW t \in told' PROVE ToldOf(route', req'[t.request], t)
    BY DEF ToldInv
  <2>1. CASE t \in told
    BY <1>0, <1>2, <2>1 DEF ToldOf, Exempt, Moved, Asking
  <2>2. CASE t \notin told
    <3>1. PICK w \in texts : t = [request |-> r, service |-> service, words |-> w]
      BY <1>2, <2>2 DEF Tell
    <3>2. t.request = r /\ t.service = service /\ t.words = w
      BY <3>1
    <3> QED
      BY <1>2, <3>2 DEF ToldOf, Exempt, Moved, Asking
  <2> QED
    BY <2>1, <2>2
<1>3. ASSUME NEW r \in Requests, NEW ask \in Asked, Arrive(r, ask) PROVE ToldInv'
  <2>1. Moved(r) /\ told' = told /\ req[r].at = "idle"
    BY <1>3, ArriveDoes
  <2>2. \A t \in told : t.request # r
    BY <1>0, <2>1 DEF ToldOf
  <2> QED
    BY <1>0, <2>1, <2>2 DEF ToldInv, ToldOf, Moved
<1>4. ASSUME NEW r \in Requests, Preprocess(r) PROVE ToldInv'
  BY <1>1, <1>4, PreprocessDoes
<1>5. ASSUME NEW r \in Requests, RedactInput(r) PROVE ToldInv'
  BY <1>1, <1>5, RedactDoes
<1>6. ASSUME NEW r \in Requests, RouteTo(r) PROVE ToldInv'
  <2>1. PICK texts \in SUBSET Words(req[r].clean) :
          /\ Moved(r) /\ Asking(r) /\ req[r].at = "route" /\ req'[r].at # "idle"
          /\ Tell(r, "router", texts)
    BY <1>6, RouteDoes
  <2>2. \A w \in texts : Fine(route, req[r].sent, w)
    BY <2>1, CleanFine
  <2> QED
    BY <1>2, <2>1, <2>2
<1>7. ASSUME NEW r \in Requests, CheckInput(r) PROVE ToldInv'
  <2>1. /\ Moved(r) /\ Asking(r) /\ req[r].at = "check" /\ req'[r].at # "idle"
        /\ \E texts \in SUBSET Words(req[r].clean) : Tell(r, "judge", texts)
    BY <1>7, CheckDoes
  <2>2. PICK texts \in SUBSET Words(req[r].clean) : Tell(r, "judge", texts)
    BY <2>1
  <2>3. \A w \in texts : Fine(route, req[r].sent, w)
    BY <2>1, CleanFine
  <2> QED
    BY <1>2, <2>1, <2>2, <2>3
<1>8. ASSUME NEW r \in Requests, MakeKey(r) PROVE ToldInv'
  <2>0. req[r].at = "key" /\ req[r].api \in {"chat", "responses"}
    BY <1>8 DEF MakeKey, Stages, StageOf
  <2>1. /\ Moved(r) /\ Asking(r) /\ req'[r].at # "idle"
        /\ \/ told' = told
           \/ /\ Known(req[r]) # <<>>
              /\ Tell(r, "embedder", {Known(req[r])[1].words})
    BY <1>8, <2>0, KeyDoes
  <2>2. ASSUME req[r].api = "responses", Known(req[r]) # <<>>
        PROVE  Known(req[r])[1].words \in Words(req[r].clean)
    <3>1. Known(req[r]) = Turn("responses", req[r].clean)
      BY <2>2 DEF Known
    <3>2. req[r].clean \in Seq(Message)
      BY TypesNow
    <3>3. PICK p : p \in Message
      <4>1. [role |-> "user", words |-> {}] \in Message
        BY DEF Message, Roles
      <4> QED
        BY <4>1
    <3> QED
      BY <2>2, <3>1, <3>2, <3>3, TurnFacts
  <2>3. CASE told' = told
    BY <1>1, <2>1, <2>3
  <2>4. CASE told' # told
    <3>1. \A w \in {Known(req[r])[1].words} :
             Exempt(req[r], "embedder") \/ Fine(route, req[r].sent, w)
      BY <2>0, <2>1, <2>2, <2>4, CleanFine DEF Exempt
    <3> QED
      BY <1>2, <2>1, <2>4, <3>1
  <2> QED
    BY <2>3, <2>4
<1>9. ASSUME NEW r \in Requests, LookUp(r) PROVE ToldInv'
  BY <1>1, <1>9, LookUpDoes
<1>10. ASSUME NEW r \in Requests, Store(r) PROVE ToldInv'
  BY <1>1, <1>10, StoreDoes
<1>11. ASSUME NEW r \in Requests, CallModel(r) PROVE ToldInv'
  <2>1. /\ Moved(r) /\ Asking(r) /\ req[r].at = "call" /\ req'[r].at # "idle"
        /\ Tell(r, "model", {{}} \cup Words(req[r].clean))
    BY <1>11, CallDoes
  <2>2. \A w \in {{}} \cup Words(req[r].clean) : Fine(route, req[r].sent, w)
    BY <2>1, CleanFine DEF Fine
  <2> QED
    BY <1>2, <2>1, <2>2
<1>12. ASSUME NEW r \in Requests, ScreenOutput(r) PROVE ToldInv'
  <2>1. /\ Moved(r) /\ Asking(r) /\ req'[r].at \in {AfterScreen(req[r]), "block", "error"}
        /\ \E texts \in SUBSET SUBSET Vocabulary : Tell(r, "output judge", texts)
    BY <1>12, ScreenDoes
  <2>2. req'[r].at # "idle"
    BY <2>1 DEF AfterScreen
  <2>3. PICK texts : Tell(r, "output judge", texts)
    BY <2>1
  <2>4. Exempt(req[r], "output judge")
    BY DEF Exempt
  <2> QED
    BY <1>2, <2>1, <2>2, <2>3, <2>4
<1>13. ASSUME NEW r \in Requests, Fail(r) PROVE ToldInv'
  BY <1>1, <1>13, FailDoes
<1>14. CASE Expire
  BY <1>14 DEF Expire, ToldInv
<1> QED
  BY <1>3, <1>4, <1>5, <1>6, <1>7, <1>8, <1>9, <1>10, <1>11, <1>12, <1>13, <1>14
  DEF ChatNext

\* A text that is fine to tell is a prompt or has been masked.
LEMMA ToldMasked ==
    ASSUME WellFormed, ChatTypeOK, ToldInv PROVE MaskedFromModels
<1> SUFFICES ASSUME NEW t \in told,
                    ~Exempt(req[t.request], t.service),
                    t.words \notin {p.words : p \in Prompts(route)},
                    NEW g \in GuardrailsFor(route.guardrails, "redact", "input"),
                    NEW word \in t.words \cap g.values
             PROVE  \E i \in 1 .. Len(req[t.request].sent) :
                       /\ i \notin Selected(req[t.request].sent, g, "input", 0)
                       /\ t.words \ {"mask"} \subseteq req[t.request].sent[i].words
  BY DEF MaskedFromModels, Exempt
<1> DEFINE ms == req[t.request].sent
<1>1. route \in Routes /\ ms \in Seq(Message)
  BY TypesNow DEF ChatTypeOK
<1>2. t.words \in Words(Kept(route, ms))
  BY DEF ToldInv, ToldOf, Fine
<1>3. Kept(route, ms) \in Masking(ms) /\ Understood(ms) = Kept(route, ms)
  BY <1>1, KeptFacts, UnderstoodFacts
<1>4. PICK i \in 1 .. Len(Kept(route, ms)) : t.words = Kept(route, ms)[i].words
  BY <1>2 DEF Words
<1>5. Len(Kept(route, ms)) = Len(ms)
  BY <1>1, <1>3, MaskingFacts
<1>6. t.words \ {"mask"} \subseteq ms[i].words
  BY <1>3, <1>4, <1>5 DEF Masking
<1>7. i \notin Selected(ms, g, "input", 0)
  BY <1>1, <1>3, <1>4, UnderstoodFacts
<1> QED
  BY <1>4, <1>5, <1>6, <1>7

-----------------------------------------------------------------------------
\* What the input guardrails make of what is understood of a request, with
\* one service out of order at most.
Outcomes(rt, ms) ==
    {Verdict(rt.guardrails, Kept(rt, ms), "input", 0, {})}
    \cup {Verdict(rt.guardrails, Kept(rt, ms), "input", 0, {g}) :
             g \in Fallible(rt.guardrails, "input")}
AskedBy(r) == \E t \in told : t.request = r /\ t.service \in {"model", "embedder"}
JudgedOf(rt, x, asked) ==
    /\ asked => x.at # "idle" /\ "pass" \in Outcomes(rt, x.sent)
    /\ x.at \in {"key", "lookup", "call"} => "pass" \in Outcomes(rt, x.sent)
    /\ x.at \in {"screen", "store"} => asked \/ x.hit
    /\ x.at = "block" /\ ~asked /\ ~x.hit => "block" \in Outcomes(rt, x.sent)
    /\ x.at = "reply" /\ ~asked /\ ~x.hit => "soft_block" \in Outcomes(rt, x.sent)
JudgedInv == \A r \in Requests : JudgedOf(route, req[r], AskedBy(r))

\* The route's prompt in front changes nothing of what the checks decide.
LEMMA OutcomeBehind ==
    ASSUME WellFormed, ChatTypeOK, Stages, NEW r \in Requests, req[r].at = "check",
           NEW broken, OneBroken("input", broken)
    PROVE  Verdict(route.guardrails, req[r].clean, "input", req[r].skip, broken)
             \in Outcomes(route, req[r].sent)
<1> DEFINE kept == Kept(route, req[r].sent)
<1>1. /\ route \in Routes /\ req[r].sent \in Seq(Message)
      /\ route.guardrails \in Seq(GuardrailConfig)
  BY TypesNow
<1>2. kept \in Seq(Message)
  BY <1>1, KeptFacts
<1>3. PICK p \in PromptsOf(route) : /\ req[r].clean = Fronted(p, kept)
                                    /\ req[r].skip = IF p = None THEN 0 ELSE 1
  BY DEF Stages, StageOf, Behind
<1> HIDE DEF kept
<1>4. Verdict(route.guardrails, req[r].clean, "input", req[r].skip, broken)
        = Verdict(route.guardrails, kept, "input", 0, broken)
  <2>1. CASE p = None
    BY <1>3, <2>1 DEF Fronted
  <2>2. CASE p # None
    <3>1. p \in Message /\ Fronted(p, kept) = <<p>> \o kept
      BY <1>1, <2>2, PromptTypes DEF PromptsOf, Fronted
    <3>2. Verdict(route.guardrails, <<p>> \o kept, "input", 1, broken)
            = Verdict(route.guardrails, kept, "input", 0, broken)
      BY <1>1, <1>2, <3>1, VerdictBehind
    <3> QED
      BY <1>3, <2>2, <3>1, <3>2
  <2> QED
    BY <2>1, <2>2
<1> QED
  BY <1>4 DEF OneBroken, Outcomes, kept

\* At first nothing has been decided.
LEMMA InitJudged == ChatInit => JudgedInv
<1> SUFFICES ASSUME ChatInit, NEW r \in Requests
             PROVE  JudgedOf(route, req[r], AskedBy(r))
  BY DEF JudgedInv
<1>1. req[r].at = "idle" /\ ~AskedBy(r)
  BY DEF ChatInit, Fresh, AskedBy
<1> QED
  BY <1>1 DEF JudgedOf

\* Every step lets a request through, or stops it, as its own words are judged.
LEMMA StepJudged ==
    ASSUME WellFormed, ChatTypeOK, Stages, ToldInv, JudgedInv, ChatNext
    PROVE  JudgedInv'
<1>0. \A r \in Requests : JudgedOf(route, req[r], AskedBy(r))
  BY DEF JudgedInv
<1>1. ASSUME NEW r \in Requests, NEW service, NEW texts, Tell(r, service, texts)
      PROVE  /\ \A q \in Requests : q # r => (AskedBy(q)' <=> AskedBy(q))
             /\ AskedBy(r) => AskedBy(r)'
             /\ service \notin {"model", "embedder"} => (AskedBy(r)' <=> AskedBy(r))
             /\ service \in {"model", "embedder"} /\ texts # {} => AskedBy(r)'
  <2> DEFINE new == {[request |-> r, service |-> service, words |-> w] : w \in texts}
  <2>1. told' = told \cup new
    BY <1>1 DEF Tell
  <2>2. \A t \in new : t.request = r /\ t.service = service
    OBVIOUS
  <2>3. ASSUME texts # {} PROVE \E t \in new : TRUE
    <3>1. PICK w : w \in texts
      BY <2>3
    <3>2. [request |-> r, service |-> service, words |-> w] \in new
      BY <3>1
    <3> QED
      BY <3>2
  <2> HIDE DEF new
  <2> QED
    BY <2>1, <2>2, <2>3 DEF AskedBy
<1>2. ASSUME told' = told PROVE \A r \in Requests : AskedBy(r)' <=> AskedBy(r)
  BY <1>2 DEF AskedBy
<1>3. ASSUME NEW r \in Requests, Moved(r), NEW asked \in BOOLEAN, AskedBy(r)' <=> asked,
             \A q \in Requests : q # r => (AskedBy(q)' <=> AskedBy(q)),
             JudgedOf(route, req'[r], asked)
      PROVE  JudgedInv'
  <2> SUFFICES ASSUME NEW q \in Requests PROVE JudgedOf(route', req'[q], AskedBy(q)')
    BY DEF JudgedInv
  <2>1. CASE q = r
    BY <1>3, <2>1 DEF JudgedOf, Moved
  <2>2. CASE q # r
    BY <1>0, <1>3, <2>2 DEF JudgedOf, Moved
  <2> QED
    BY <2>1, <2>2
<1>4. ASSUME NEW r \in Requests, Moved(r), told' = told,
             JudgedOf(route, req'[r], AskedBy(r))
      PROVE  JudgedInv'
  <2>1. AskedBy(r) \in BOOLEAN
    BY DEF AskedBy
  <2> QED
    BY <1>2, <1>3, <1>4, <2>1
<1>5. ASSUME NEW r \in Requests, NEW ask \in Asked, Arrive(r, ask) PROVE JudgedInv'
  <2>1. Moved(r) /\ told' = told /\ req[r].at = "idle" /\ req'[r].at = "preprocess"
    BY <1>5, ArriveDoes
  <2>2. ~AskedBy(r)
    BY <1>0, <2>1 DEF JudgedOf
  <2> QED
    BY <1>4, <2>1, <2>2 DEF JudgedOf
<1>6. ASSUME NEW r \in Requests, Preprocess(r) PROVE JudgedInv'
  BY <1>0, <1>4, <1>6, PreprocessDoes DEF JudgedOf, Asking
<1>7. ASSUME NEW r \in Requests, RedactInput(r) PROVE JudgedInv'
  BY <1>0, <1>4, <1>7, RedactDoes DEF JudgedOf, Asking
<1>8. ASSUME NEW r \in Requests, NEW service, NEW texts, Tell(r, service, texts),
             service \notin {"model", "embedder"}, Moved(r),
             JudgedOf(route, req'[r], AskedBy(r))
      PROVE  JudgedInv'
  <2>1. AskedBy(r) \in BOOLEAN
    BY DEF AskedBy
  <2>2. /\ \A q \in Requests : q # r => (AskedBy(q)' <=> AskedBy(q))
        /\ AskedBy(r)' <=> AskedBy(r)
    BY <1>1, <1>8
  <2> QED
    BY <1>3, <1>8, <2>1, <2>2
<1>9. ASSUME NEW r \in Requests, RouteTo(r) PROVE JudgedInv'
  <2>1. PICK texts : /\ Moved(r) /\ Asking(r) /\ req[r].at = "route" /\ req'[r].at = "check"
                     /\ Tell(r, "router", texts)
    BY <1>9, RouteDoes
  <2>2. JudgedOf(route, req'[r], AskedBy(r))
    BY <1>0, <2>1 DEF JudgedOf, Asking
  <2> QED
    BY <1>8, <2>1, <2>2
<1>10. ASSUME NEW r \in Requests, CheckInput(r) PROVE JudgedInv'
  <2>1. /\ Moved(r) /\ Asking(r) /\ Keeping(r) /\ req[r].at = "check"
        /\ \E texts : Tell(r, "judge", texts)
    BY <1>10, CheckDoes
  <2>2. PICK broken :
          /\ OneBroken("input", broken)
          /\ LET v == Verdict(route.guardrails, req[r].clean, "input", req[r].skip, broken)
             IN  \/ v = "pass" /\ req'[r].at \in {"call", "key"}
                 \/ v = "soft_block" /\ req'[r].at = "reply" /\ req'[r].refused
                 \/ v \in {"block", "error"} /\ req'[r].at = v
    BY <1>10, CheckDoes
  <2>3. \/ "pass" \in Outcomes(route, req[r].sent) /\ req'[r].at \in {"call", "key"}
        \/ "soft_block" \in Outcomes(route, req[r].sent) /\ req'[r].at = "reply"
        \/ "block" \in Outcomes(route, req[r].sent) /\ req'[r].at = "block"
        \/ req'[r].at = "error"
    BY <2>1, <2>2, OutcomeBehind
  <2>4. JudgedOf(route, req'[r], AskedBy(r))
    BY <1>0, <2>1, <2>3 DEF JudgedOf, Asking, Keeping
  <2>5. PICK texts : Tell(r, "judge", texts)
    BY <2>1
  <2> QED
    BY <1>8, <2>1, <2>4, <2>5
<1>11. ASSUME NEW r \in Requests, MakeKey(r) PROVE JudgedInv'
  <2>0. req[r].at = "key" /\ req[r].api \in {"chat", "responses"}
    BY <1>11 DEF MakeKey, Stages, StageOf
  <2>1. /\ Moved(r) /\ Asking(r) /\ req'[r].hit = req[r].hit
        /\ req'[r].at \in {"call", "error", "lookup"}
        /\ \/ told' = told
           \/ Tell(r, "embedder", {Known(req[r])[1].words})
    BY <1>11, <2>0, KeyDoes
  <2>2. \A asked \in BOOLEAN : JudgedOf(route, req'[r], asked)
    BY <1>0, <2>0, <2>1 DEF JudgedOf, Asking
  <2>3. CASE told' = told
    <3>1. AskedBy(r) \in BOOLEAN
      BY DEF AskedBy
    <3> QED
      BY <1>4, <2>1, <2>2, <2>3, <3>1
  <2>4. CASE Tell(r, "embedder", {Known(req[r])[1].words})
    <3>1. AskedBy(r)' /\ \A q \in Requests : q # r => (AskedBy(q)' <=> AskedBy(q))
      BY <1>1, <2>4
    <3>2. JudgedOf(route, req'[r], TRUE)
      BY <2>2
    <3> QED
      BY <1>3, <2>1, <3>1, <3>2
  <2> QED
    BY <2>1, <2>3, <2>4
<1>12. ASSUME NEW r \in Requests, LookUp(r) PROVE JudgedInv'
  <2>1. /\ Moved(r) /\ Asking(r) /\ told' = told /\ req[r].at = "lookup"
        /\ \/ req'[r].at = "call"
           \/ req'[r].at \in {"screen", "reply"} /\ req'[r].hit
    BY <1>12, LookUpDoes
  <2>2. JudgedOf(route, req'[r], AskedBy(r))
    BY <1>0, <2>1 DEF JudgedOf, Asking
  <2> QED
    BY <1>4, <2>1, <2>2
<1>13. ASSUME NEW r \in Requests, Store(r) PROVE JudgedInv'
  BY <1>0, <1>4, <1>13, StoreDoes DEF JudgedOf, Asking, Keeping
<1>14. ASSUME NEW r \in Requests, CallModel(r) PROVE JudgedInv'
  <2>1. /\ Moved(r) /\ Asking(r) /\ req[r].at = "call"
        /\ req'[r].at \in {"screen", "store", "reply"}
        /\ Tell(r, "model", {{}} \cup Words(req[r].clean))
    BY <1>14, CallDoes
  <2>2. JudgedOf(route, req'[r], TRUE)
    BY <1>0, <2>1 DEF JudgedOf, Asking
  <2>3. {{}} \cup Words(req[r].clean) # {}
    OBVIOUS
  <2>4. AskedBy(r)' /\ \A q \in Requests : q # r => (AskedBy(q)' <=> AskedBy(q))
    BY <1>1, <2>1, <2>3
  <2> QED
    BY <1>3, <2>1, <2>2, <2>4
<1>15. ASSUME NEW r \in Requests, ScreenOutput(r) PROVE JudgedInv'
  <2>1. /\ Moved(r) /\ Asking(r) /\ Keeping(r) /\ req[r].at = "screen"
        /\ req'[r].at \in {AfterScreen(req[r]), "block", "error"}
        /\ \E texts : Tell(r, "output judge", texts)
    BY <1>15, ScreenDoes
  <2>2. req'[r].at \in {"reply", "store", "block", "error"}
    BY <2>1 DEF AfterScreen
  <2>3. JudgedOf(route, req'[r], AskedBy(r))
    BY <1>0, <2>1, <2>2 DEF JudgedOf, Asking, Keeping
  <2>4. PICK texts : Tell(r, "output judge", texts)
    BY <2>1
  <2> QED
    BY <1>8, <2>1, <2>3, <2>4
<1>16. ASSUME NEW r \in Requests, Fail(r) PROVE JudgedInv'
  BY <1>0, <1>4, <1>16, FailDoes DEF JudgedOf, Asking, Keeping
<1>17. CASE Expire
  BY <1>17 DEF Expire, JudgedInv, AskedBy
<1> QED
  BY <1>5, <1>6, <1>7, <1>9, <1>10, <1>11, <1>12, <1>13, <1>14, <1>15, <1>16, <1>17
  DEF ChatNext

\* That is the property.
LEMMA JudgedSent ==
    ASSUME WellFormed, ChatTypeOK, JudgedInv PROVE JudgedAsSent
<1> SUFFICES ASSUME NEW r \in Requests
             PROVE  LET x == req[r]
                        Outcome(broken) ==
                          Verdict(route.guardrails, Understood(x.sent), "input",
                                           0, broken)
                        all == {Outcome({})} \cup
                                 {Outcome({g}) : g \in Fallible(route.guardrails, "input")}
                        asked == \E t \in told : t.request = r /\ t.service \in {"model", "embedder"}
                    IN /\ asked => "pass" \in all
                       /\ (~asked /\ ~x.hit /\ x.at = "block") => "block" \in all
                       /\ (~asked /\ ~x.hit /\ x.at = "reply") => "soft_block" \in all
  BY Zenon DEF JudgedAsSent
<1>1. Understood(req[r].sent) = Kept(route, req[r].sent)
  BY TypesNow, KeptFacts
<1>2. JudgedOf(route, req[r], AskedBy(r))
  BY DEF JudgedInv
<1> QED
  BY <1>1, <1>2 DEF JudgedOf, AskedBy, Outcomes

-----------------------------------------------------------------------------
\* What was screened triggers no guardrail that would stop it.
Harmless(rt, words) ==
    \A g \in GuardrailsFor(rt.guardrails, "check", "output") :
        g.behavior \in {"block", "soft_block"} /\ Reads(g, "assistant", "output")
          => words \cap g.values = {}
Clean(rt, words) ==
    \A g \in GuardrailsFor(rt.guardrails, "redact", "output") :
        Reads(g, "assistant", "output") => words \cap g.values = {}
ScreenedOf(rt, x) ==
    x.at \in {"store", "reply"} /\ ~x.refused =>
        /\ x.excused \/ Harmless(rt, x.words)
        /\ (x.api = "chat" /\ x.way = "stream") \/ Clean(rt, x.words)
ScreenInv ==
    /\ \A r \in Requests : ScreenedOf(route, req[r])
    /\ \A e \in cache : e.refused \/ e.excused \/ Harmless(route, e.words)

\* Every step screens what it gives to the client or to the cache.
LEMMA StepScreened ==
    ASSUME WellFormed, ChatTypeOK, Stages, ScreenInv, ChatNext
    PROVE  ScreenInv'
<1>0. /\ \A r \in Requests : ScreenedOf(route, req[r])
      /\ \A e \in cache : e.refused \/ e.excused \/ Harmless(route, e.words)
  BY DEF ScreenInv
<1>1. ASSUME NEW r \in Requests, Moved(r), cache' = cache, ScreenedOf(route, req'[r])
      PROVE  ScreenInv'
  BY <1>0, <1>1 DEF ScreenInv, Moved
<1>2. ASSUME NEW r \in Requests, req'[r].at \notin {"store", "reply"} \/ req'[r].refused
      PROVE  ScreenedOf(route, req'[r])
  BY <1>2 DEF ScreenedOf
<1>3. ASSUME ~Screens PROVE \A x : ScreenedOf(route, x)
  BY <1>3 DEF Screens, Has, ScreenedOf, Harmless, Clean
<1>4. ASSUME NEW r \in Requests, NEW ask \in Asked, Arrive(r, ask) PROVE ScreenInv'
  BY <1>1, <1>2, <1>4, ArriveDoes
<1>5. ASSUME NEW r \in Requests, Preprocess(r) PROVE ScreenInv'
  BY <1>1, <1>2, <1>5, PreprocessDoes
<1>6. ASSUME NEW r \in Requests, RedactInput(r) PROVE ScreenInv'
  BY <1>1, <1>2, <1>6, RedactDoes
<1>7. ASSUME NEW r \in Requests, RouteTo(r) PROVE ScreenInv'
  BY <1>1, <1>2, <1>7, RouteDoes
<1>8. ASSUME NEW r \in Requests, CheckInput(r) PROVE ScreenInv'
  <2>1. /\ Moved(r) /\ cache' = cache
        /\ req'[r].at \in {"call", "key", "block", "error"} \/ req'[r].refused
    BY <1>8, CheckDoes
  <2> QED
    BY <1>1, <1>2, <2>1
<1>9. ASSUME NEW r \in Requests, MakeKey(r) PROVE ScreenInv'
  <2>0. req[r].api \in {"chat", "responses"}
    BY <1>9 DEF MakeKey, Stages, StageOf
  <2>1. Moved(r) /\ cache' = cache /\ req'[r].at \in {"call", "error", "lookup"}
    BY <1>9, <2>0, KeyDoes
  <2> QED
    BY <1>1, <1>2, <2>1
<1>10. ASSUME NEW r \in Requests, LookUp(r) PROVE ScreenInv'
  <2>1. /\ Moved(r) /\ Asking(r) /\ cache' = cache
        /\ req[r].api \in {"chat", "responses"} /\ req[r].way \in {"complete", "stream"}
    BY <1>10, LookUpDoes DEF Stages, StageOf
  <2>2. CASE req'[r].at \in {"call", "screen"}
    BY <1>1, <1>2, <2>1, <2>2
  <2>3. CASE req'[r].at \notin {"call", "screen"}
    <3>1. PICK e \in Matches(req[r]) :
            /\ req'[r].at = IF ScreensHit(req[r]) THEN "screen" ELSE "reply"
            /\ req'[r].words = e.words /\ req'[r].refused = e.refused
            /\ req'[r].excused = e.excused
      BY <1>10, <2>3, LookUpDoes
    <3>2. e \in cache
      BY DEF Matches
    <3>3. ~Screens \/ ~(req[r].api = "responses" \/ req[r].way = "complete")
      BY <2>3, <3>1 DEF ScreensHit
    <3>4. req'[r].api = req[r].api /\ req'[r].way = req[r].way
      BY <2>1 DEF Asking
    <3>5. CASE ~Screens
      BY <1>1, <1>3, <2>1, <3>5
    <3>6. CASE req[r].api = "chat" /\ req[r].way = "stream"
      <4>1. ScreenedOf(route, req'[r])
        BY <1>0, <3>1, <3>2, <3>4, <3>6 DEF ScreenedOf
      <4> QED
        BY <1>1, <2>1, <4>1
    <3> QED
      BY <2>1, <3>3, <3>5, <3>6
  <2> QED
    BY <2>2, <2>3
<1>11. ASSUME NEW r \in Requests, Store(r) PROVE ScreenInv'
  <2>1. /\ Moved(r) /\ Asking(r) /\ req[r].at = "store" /\ req'[r].at = "reply"
        /\ req'[r].words = req[r].words /\ req'[r].refused = req[r].refused
        /\ req'[r].excused = req[r].excused
        /\ cache' \subseteq cache \cup
             {[key |-> req[r].key, vector |-> req[r].vector, words |-> req[r].words,
               refused |-> req[r].refused, excused |-> req[r].excused, sent |-> req[r].sent]}
    BY <1>11, StoreDoes
  <2>2. ScreenedOf(route, req[r])
    BY <1>0
  <2>3. ScreenedOf(route, req'[r])
    BY <2>1, <2>2 DEF ScreenedOf, Asking
  <2>4. \A e \in cache' : e.refused \/ e.excused \/ Harmless(route, e.words)
    <3> SUFFICES ASSUME NEW e \in cache', e \notin cache
                 PROVE  e.refused \/ e.excused \/ Harmless(route, e.words)
      BY <1>0
    <3>1. e.words = req[r].words /\ e.refused = req[r].refused /\ e.excused = req[r].excused
      BY <2>1
    <3> QED
      BY <2>1, <2>2, <3>1 DEF ScreenedOf
  <2> QED
    BY <1>0, <2>1, <2>3, <2>4 DEF ScreenInv, Moved
<1>12. ASSUME NEW r \in Requests, CallModel(r) PROVE ScreenInv'
  <2>1. /\ Moved(r) /\ cache' = cache
        /\ req'[r].at = "screen" \/ ~Screens
    BY <1>12, CallDoes
  <2> QED
    BY <1>1, <1>2, <1>3, <2>1
<1>13. ASSUME NEW r \in Requests, ScreenOutput(r) PROVE ScreenInv'
  <2> DEFINE words == AfterRedaction(req[r])
  <2>1. /\ Moved(r) /\ Asking(r) /\ cache' = cache
        /\ \/ \E broken :
                /\ Verdict(route.guardrails, Said(words), "output", 0, broken) = "pass"
                /\ req'[r].words = words /\ req'[r].excused = (broken # {})
           \/ req'[r].refused
           \/ req'[r].at \in {"block", "error"}
    BY <1>13, ScreenDoes
  <2>2. /\ words \in SUBSET Vocabulary
        /\ (req[r].api = "chat" /\ req[r].way = "stream") \/ Clean(route, words)
    BY AfterRedactionType DEF Clean
  <2>3. CASE req'[r].refused \/ req'[r].at \in {"block", "error"}
    BY <1>1, <1>2, <2>1, <2>3
  <2> HIDE DEF words
  <2>4. CASE ~(req'[r].refused \/ req'[r].at \in {"block", "error"})
    <3>1. PICK broken :
            /\ Verdict(route.guardrails, Said(words), "output", 0, broken) = "pass"
            /\ req'[r].words = words /\ req'[r].excused = (broken # {})
      BY <2>1, <2>4
    <3>2. route.guardrails \in Seq(GuardrailConfig)
      BY TypesNow
    <3>3. broken = {} => Harmless(route, words)
      BY <2>2, <3>1, <3>2, SaidPasses DEF Harmless
    <3>4. ScreenedOf(route, req'[r])
      BY <2>1, <2>2, <3>1, <3>3 DEF ScreenedOf, Asking
    <3> QED
      BY <1>1, <2>1, <3>4
  <2> QED
    BY <2>3, <2>4
<1>14. ASSUME NEW r \in Requests, Fail(r) PROVE ScreenInv'
  BY <1>1, <1>2, <1>14, FailDoes
<1>15. CASE Expire
  BY <1>0, <1>15 DEF Expire, ScreenInv
<1> QED
  BY <1>4, <1>5, <1>6, <1>7, <1>8, <1>9, <1>10, <1>11, <1>12, <1>13, <1>14, <1>15
  DEF ChatNext

\* That is the property.
LEMMA Screened == ScreenInv => OutputScreened
<1> SUFFICES ASSUME ScreenInv, NEW r \in Requests, req[r].at = "reply", ~req[r].refused
             PROVE  /\ \/ req[r].excused
                       \/ \A g \in {g \in Blocking("output") :
                                       Reads(g, "assistant", "output")} :
                            req[r].words \cap g.values = {}
                    /\ \/ req[r].api = "chat" /\ req[r].way = "stream"
                       \/ \A g \in {g \in GuardrailsFor(route.guardrails, "redact", "output") :
                                       Reads(g, "assistant", "output")} :
                            req[r].words \cap g.values = {}
  BY Zenon DEF OutputScreened
<1>1. ScreenedOf(route, req[r])
  BY DEF ScreenInv
<1> QED
  BY <1>1 DEF ScreenedOf, Harmless, Clean, Blocking

-----------------------------------------------------------------------------
\* A reply of the cache was given to the same words.
Alike(rt, api, ms, ns) ==
    LET now == Turn(api, Asis(rt, api, ms))
        then == Turn(api, Asis(rt, api, ns))
    IN  \/ /\ now # <<>> /\ then # <<>>
           /\ IF rt.caching = "exact" THEN now = then ELSE now[1].words = then[1].words
        \/ /\ api = "chat" /\ <<>> \in {now, then}
           /\ \E p \in Prompts(rt) : p.role = "developer"

\* Two requests with the same key, or the same vector, are alike.
LEMMA KeysAlike ==
    ASSUME WellFormed, route \in Routes, NEW api,
           NEW ms \in Seq(Message), NEW ns \in Seq(Message),
           NEW key, NEW vector, Keyed(route, api, ms, key, vector),
           NEW other, NEW like, Keyed(route, api, ns, other, like),
           IF route.caching = "exact" THEN key = other ELSE vector = like
    PROVE  Alike(route, api, ms, ns)
<1> DEFINE Now(m) == Turn(api, Asis(route, api, m))
<1>1. ASSUME NEW m \in Seq(Message), NEW k, NEW v, Keyed(route, api, m, k, v)
      PROVE  \/ k.turn = Now(m)
             \/ /\ Now(m) = <<>> /\ api = "chat"
                /\ \E p \in Prompts(route) : p.role = "developer"
  <2>1. PICK p \in PromptsOf(route) : k.turn = Turn(api, Fronted(p, Asis(route, api, m)))
    BY <1>1 DEF Keyed
  <2>2. Asis(route, api, m) \in Seq(Message)
    BY KeptFacts DEF Asis
  <2>3. CASE p = None
    BY <2>1, <2>3 DEF Fronted
  <2>4. CASE p # None
    <3>1. p \in Prompts(route) /\ p \in Message /\ p.role \in {"system", "developer"}
      BY <2>4, PromptTypes DEF PromptsOf
    <3>2. k.turn = Turn(api, <<p>> \o Asis(route, api, m))
      BY <2>1, <2>4 DEF Fronted
    <3>3. \/ k.turn = Now(m)
          \/ Now(m) = <<>> /\ (p.role = "user" \/ (api = "chat" /\ p.role = "developer"))
      BY <2>2, <3>1, <3>2, TurnFacts
    <3> QED
      BY <3>1, <3>3
  <2> QED
    BY <2>3, <2>4
<1>2. \/ key.turn = Now(ms) /\ other.turn = Now(ns)
      \/ /\ Now(ms) = <<>> \/ Now(ns) = <<>>
         /\ api = "chat" /\ \E p \in Prompts(route) : p.role = "developer"
  BY <1>1
<1>3. /\ key.turn # <<>> /\ other.turn # <<>>
      /\ IF route.caching = "exact" THEN key.turn = other.turn
         ELSE key.turn[1].words = other.turn[1].words
  BY DEF Keyed
<1> QED
  BY <1>2, <1>3 DEF Alike

CacheInv ==
    /\ \A e \in cache : Keyed(route, e.key.api, e.sent, e.key, e.vector)
    /\ \A r \in Requests : req[r].hit =>
          /\ req[r].from \in Seq(Message)
          /\ Alike(route, req[r].api, req[r].sent, req[r].from)

\* Every step keeps the entries under keys of what their clients sent.
LEMMA StepCached ==
    ASSUME WellFormed, ChatTypeOK, Stages, CacheInv, ChatNext
    PROVE  CacheInv'
<1>0. /\ \A e \in cache : Keyed(route, e.key.api, e.sent, e.key, e.vector)
      /\ \A r \in Requests : req[r].hit =>
            /\ req[r].from \in Seq(Message)
            /\ Alike(route, req[r].api, req[r].sent, req[r].from)
  BY DEF CacheInv
<1>1. ASSUME NEW r \in Requests, Moved(r), cache' = cache,
             req'[r].hit => /\ req'[r].from \in Seq(Message)
                            /\ Alike(route, req'[r].api, req'[r].sent, req'[r].from)
      PROVE  CacheInv'
  BY <1>0, <1>1 DEF CacheInv, Moved
<1>2. ASSUME NEW r \in Requests, Moved(r), Asking(r), cache' = cache,
             req'[r].hit = req[r].hit, req'[r].from = req[r].from
      PROVE  CacheInv'
  BY <1>0, <1>1, <1>2 DEF Asking
<1>3. ASSUME NEW r \in Requests, NEW ask \in Asked, Arrive(r, ask) PROVE CacheInv'
  <2>1. Moved(r) /\ cache' = cache /\ req[r].at = "idle" /\ req'[r].hit = req[r].hit
    BY <1>3, ArriveDoes
  <2>2. ~req'[r].hit
    BY <2>1 DEF Stages, StageOf
  <2> QED
    BY <1>1, <2>1, <2>2
<1>4. ASSUME NEW r \in Requests, Preprocess(r) PROVE CacheInv'
  BY <1>2, <1>4, PreprocessDoes
<1>5. ASSUME NEW r \in Requests, RedactInput(r) PROVE CacheInv'
  BY <1>2, <1>5, RedactDoes
<1>6. ASSUME NEW r \in Requests, RouteTo(r) PROVE CacheInv'
  BY <1>2, <1>6, RouteDoes
<1>7. ASSUME NEW r \in Requests, CheckInput(r) PROVE CacheInv'
  BY <1>2, <1>7, CheckDoes DEF Keeping
<1>8. ASSUME NEW r \in Requests, MakeKey(r) PROVE CacheInv'
  <2>1. req[r].api \in {"chat", "responses"}
    BY <1>8 DEF MakeKey, Stages, StageOf
  <2> QED
    BY <1>2, <1>8, <2>1, KeyDoes
<1>9. ASSUME NEW r \in Requests, LookUp(r) PROVE CacheInv'
  <2>1. /\ Moved(r) /\ Asking(r) /\ cache' = cache /\ req[r].at = "lookup"
        /\ \/ req'[r].hit = req[r].hit /\ req'[r].from = req[r].from
           \/ \E e \in Matches(req[r]) :
                e.key.api = req[r].api /\ req'[r].from = e.sent /\ req'[r].hit
    BY <1>9, LookUpDoes
  <2>2. CASE req'[r].hit = req[r].hit /\ req'[r].from = req[r].from
    BY <1>2, <2>1, <2>2
  <2>3. ASSUME NEW e \in Matches(req[r]), e.key.api = req[r].api,
               req'[r].from = e.sent
        PROVE  CacheInv'
    <3>1. e \in cache /\ IF route.caching = "exact" THEN req[r].key = e.key
                         ELSE req[r].vector = e.vector
      BY DEF Matches
    <3>2. Keyed(route, req[r].api, e.sent, e.key, e.vector)
      BY <1>0, <2>3, <3>1
    <3>3. Keyed(route, req[r].api, req[r].sent, req[r].key, req[r].vector)
      BY <2>1 DEF Stages, KeyedBy
    <3>4. route \in Routes /\ req[r].sent \in Seq(Message) /\ e.sent \in Seq(Message)
      BY <3>1, TypesNow DEF ChatTypeOK
    <3>5. Alike(route, req[r].api, req[r].sent, e.sent)
      BY <3>1, <3>2, <3>3, <3>4, KeysAlike
    <3> QED
      BY <1>1, <2>1, <2>3, <3>4, <3>5 DEF Asking
  <2> QED
    BY <2>1, <2>2, <2>3
<1>10. ASSUME NEW r \in Requests, Store(r) PROVE CacheInv'
  <2>1. /\ Moved(r) /\ Asking(r) /\ Keeping(r) /\ req[r].at = "store"
        /\ cache' \subseteq cache \cup
             {[key |-> req[r].key, vector |-> req[r].vector, words |-> req[r].words,
               refused |-> req[r].refused, excused |-> req[r].excused, sent |-> req[r].sent]}
    BY <1>10, StoreDoes
  <2>2. Keyed(route, req[r].api, req[r].sent, req[r].key, req[r].vector)
    BY <2>1 DEF Stages, KeyedBy
  <2>3. \A e \in cache' : Keyed(route, e.key.api, e.sent, e.key, e.vector)
    <3> SUFFICES ASSUME NEW e \in cache', e \notin cache
                 PROVE  Keyed(route, e.key.api, e.sent, e.key, e.vector)
      BY <1>0
    <3>1. e.key = req[r].key /\ e.sent = req[r].sent /\ e.vector = req[r].vector
      BY <2>1
    <3>2. e.key.api = req[r].api
      BY <2>2, <3>1 DEF Keyed
    <3> QED
      BY <2>2, <3>1, <3>2
  <2>4. req'[r].hit => /\ req'[r].from \in Seq(Message)
                       /\ Alike(route, req'[r].api, req'[r].sent, req'[r].from)
    BY <1>0, <2>1 DEF Asking, Keeping
  <2> QED
    BY <1>0, <2>1, <2>3, <2>4 DEF CacheInv, Moved
<1>11. ASSUME NEW r \in Requests, CallModel(r) PROVE CacheInv'
  BY <1>2, <1>11, CallDoes DEF Keeping
<1>12. ASSUME NEW r \in Requests, ScreenOutput(r) PROVE CacheInv'
  BY <1>2, <1>12, ScreenDoes DEF Keeping
<1>13. ASSUME NEW r \in Requests, Fail(r) PROVE CacheInv'
  BY <1>2, <1>13, FailDoes DEF Keeping
<1>14. CASE Expire
  BY <1>0, <1>14 DEF Expire, CacheInv
<1> QED
  BY <1>3, <1>4, <1>5, <1>6, <1>7, <1>8, <1>9, <1>10, <1>11, <1>12, <1>13, <1>14
  DEF ChatNext

\* That is the property.
LEMMA CachedSame ==
    ASSUME WellFormed, ChatTypeOK, CacheInv
    PROVE  CachedAsAsked
<1> SUFFICES ASSUME NEW r \in Requests, req[r].hit
             PROVE  LET x == req[r]
                        As(messages) ==
                          Turn(x.api,
                            IF x.api = "chat" THEN Plugged(route.plugins, messages)
                            ELSE Understood(messages))
                        now == As(x.sent)
                        then == As(x.from)
                    IN \/ /\ now # <<>> /\ then # <<>>
                          /\ IF route.caching = "exact" THEN now = then
                             ELSE now[1].words = then[1].words
                       \/ /\ x.api = "chat" /\ <<>> \in {now, then}
                          /\ \E p \in Prompts(route) : p.role = "developer"
  BY Zenon DEF CachedAsAsked
<1>1. /\ route \in Routes /\ req[r].sent \in Seq(Message)
      /\ req[r].from \in Seq(Message)
  BY TypesNow DEF CacheInv
<1>2. \A ms \in Seq(Message) : Understood(ms) = Kept(route, ms)
  BY <1>1, KeptFacts
<1>3. \A ms : Plugged(route.plugins, ms) = Left(route, ms)
  BY DEF Left
<1>4. Alike(route, req[r].api, req[r].sent, req[r].from)
  BY DEF CacheInv
<1> QED
  BY <1>1, <1>2, <1>3, <1>4 DEF Alike, Asis

-----------------------------------------------------------------------------
\* The inductive invariant.
PipelineInv ==
    /\ ChatTypeOK
    /\ Stages
    /\ ToldInv
    /\ JudgedInv
    /\ ScreenInv
    /\ CacheInv

\* The inductive invariant holds at first.
LEMMA InitPipeline == WellFormed /\ ChatInit => PipelineInv
<1> SUFFICES ASSUME WellFormed, ChatInit PROVE PipelineInv
  OBVIOUS
<1>1. /\ told = {} /\ cache = {}
      /\ \A r \in Requests : req[r].at = "idle" /\ ~req[r].hit
  BY DEF ChatInit, Fresh
<1>2. ToldInv /\ ScreenInv /\ CacheInv
  BY <1>1 DEF ToldInv, ScreenInv, ScreenedOf, CacheInv
<1> QED
  BY <1>2, InitTyped, InitStages, InitJudged DEF PipelineInv

\* Every step keeps the inductive invariant.
LEMMA StepPipeline ==
    ASSUME WellFormed, PipelineInv, [ChatNext]_chatVars
    PROVE  PipelineInv'
<1>1. CASE ChatNext
  BY <1>1, StepTyped, StepStages, StepTold, StepJudged, StepScreened, StepCached
  DEF PipelineInv
<1>2. CASE UNCHANGED chatVars
  <2>1. UNCHANGED <<route, req, cache, told, failures>>
    BY <1>2 DEF chatVars
  <2>2. ChatTypeOK' /\ Stages'
    BY <2>1 DEF PipelineInv, ChatTypeOK, Stages
  <2>3. ToldInv' /\ ScreenInv' /\ CacheInv'
    BY <2>1 DEF PipelineInv, ToldInv, ScreenInv, CacheInv
  <2>4. JudgedInv'
    BY <2>1 DEF PipelineInv, JudgedInv, AskedBy
  <2> QED
    BY <2>2, <2>3, <2>4 DEF PipelineInv
<1> QED
  BY <1>1, <1>2

\* It holds in every run.
LEMMA PipelineInvariant == ChatSpec => []PipelineInv
<1>1. ChatInit => PipelineInv
  BY PipelineAssumption, InitPipeline
<1>2. PipelineInv /\ [ChatNext]_chatVars => PipelineInv'
  BY PipelineAssumption, StepPipeline
<1> QED
  BY <1>1, <1>2, PTL DEF ChatSpec

\* It implies the properties.
LEMMA PipelineKeeps ==
    ASSUME WellFormed, PipelineInv
    PROVE  /\ ChatTypeOK /\ MaskedFromModels /\ JudgedAsSent
           /\ OutputScreened /\ CachedAsAsked
  BY ToldMasked, JudgedSent, Screened, CachedSame DEF PipelineInv

\* Whatever clients send and models answer, the requests, the entries of the
\* cache and what was told have their types.
THEOREM PipelineTyped == ChatSpec => []ChatTypeOK
<1>1. PipelineInv => ChatTypeOK
  BY PipelineAssumption, PipelineKeeps
<1> QED
  BY <1>1, PipelineInvariant, PTL

\* No model, router or judge reads what a redact guardrail that reads it should
\* have masked: for any guardrails, in any order, and any messages.
THEOREM TextsMasked == ChatSpec => []MaskedFromModels
<1>1. PipelineInv => MaskedFromModels
  BY PipelineAssumption, PipelineKeeps
<1> QED
  BY <1>1, PipelineInvariant, PTL

\* The input checks let a request through, or stop it, as they would its
\* client's words alone, whatever prompt its route puts in front.
THEOREM JudgedAlone == ChatSpec => []JudgedAsSent
<1>1. PipelineInv => JudgedAsSent
  BY PipelineAssumption, PipelineKeeps
<1> QED
  BY <1>1, PipelineInvariant, PTL

\* What a client gets, from a model or from the cache, has passed the output
\* guardrails that read the assistant's messages.
THEOREM RepliesScreened == ChatSpec => []OutputScreened
<1>1. PipelineInv => OutputScreened
  BY PipelineAssumption, PipelineKeeps
<1> QED
  BY <1>1, PipelineInvariant, PTL

\* A reply of the cache was given to the same words, on the same API.
THEOREM RepliesCached == ChatSpec => []CachedAsAsked
<1>1. PipelineInv => CachedAsAsked
  BY PipelineAssumption, PipelineKeeps
<1> QED
  BY <1>1, PipelineInvariant, PTL
=============================================================================
