-------------------------- MODULE CredentialsProofs --------------------------
(* Safety of Credentials for any number of calls, groups, limits and grace   *)
(* periods.                                                                  *)
EXTENDS Credentials, FiniteSetTheorems, TLAPS

(* The inductive invariant.  A rotation or a limit that is written takes the *)
(* next number, so the numbers must not run out: every call still to write   *)
(* has been counted.  What a call knows (Own) and how it relates to the rows *)
(* now (Rel) carry what it read to the point where it writes.                *)
Writers == {"rotate"} \cup LimitOps
Writing == {q \in Calls : call[q].pc # "idle" /\ call[q].op \in Writers}

Counted == IsFiniteSet(Writing) /\ fresh + Cardinality(Writing) <= made

\* The key's values are ones it was given; what was promised of each of them.
KeyOK ==
    /\ key.value <= fresh
    /\ until[key.value] = Forever
    /\ key.previous # None => /\ key.previous <= fresh
                              /\ key.previous # key.value
                              /\ until[key.previous] = key.grace
    /\ \A v \in Values : v \in {key.value, key.previous} \/ until[v] <= clock

Own(c) ==
    /\ c.pc # "idle" => c.op \in Ops
    /\ c.pc # "idle" /\ c.op = "rotate" => c.arg \in GracePeriods \cup {None}
    /\ c.pc # "idle" /\ c.op \in {"addLimit", "setLimit", "applyLimit"} =>
            c.arg \in Maxima
    /\ c.pc # "idle" /\ c.op = "request" => c.arg \in 0..fresh
    /\ c.pc \notin {"idle", "read"} /\ c.op \in KeyOps \cup {"request"} =>
            c.row \in KeyRecord /\ c.row.value <= fresh
    /\ c.pc = "write" =>
            /\ c.now <= clock
            /\ c.op = "rotate" => GraceAllowed(c.arg, c.now)
            /\ c.op = "addGroup" => c.row.group = None
            /\ c.op = "addLimit" => c.limit = None
            /\ c.op = "setLimit" => c.limit # None
            /\ c.op # "request"
    /\ c.pc \in {"access", "admitted"} => c.op = "request" /\ ~c.late
    /\ c.pc = "admitted" => c.row.group \in Bound \/ c.raced

Rel(c) ==
    /\ c.pc # "idle" /\ c.op = "request" /\ c.late => ~Promised(c.arg, clock)
    /\ c.pc \notin {"idle", "read"} /\ c.op = "request" =>
            /\ c.late => ~Authenticates(c.arg, c.row, clock)
            /\ c.raced \/ c.row.group = key.group
    /\ c.pc \in {"decide", "write"} /\ c.op = "addGroup" /\ ~c.raced =>
            (c.row.group = None => key.group = None)
    /\ c.pc \in {"decide", "write"} /\ c.op \in LimitOps /\ ~c.raced =>
            c.limit = limit /\ key.exists

IInv ==
    /\ TypeOK
    /\ Counted
    /\ KeyOK
    /\ \A q \in Calls : Own(call[q]) /\ Rel(call[q])

-----------------------------------------------------------------------------

LEMMA Constants ==
    /\ MaxCalls \in Nat /\ MaxTime \in Nat /\ Expiry \in Nat
    /\ None \notin Nat /\ None \notin Groups /\ None \notin Maxima
    /\ None \notin Calls /\ None \notin LimitRecord
    /\ Forever \in Nat /\ GracePeriods \subseteq Nat
    /\ Values \subseteq Nat /\ 0 \in Values
  BY CredentialsAssumption DEF LimitRecord, Forever, Values

LEMMA IdleOK == Idle \in CallRecord /\ Own(Idle) /\ Rel(Idle)
  BY Constants DEF Idle, CallRecord, Own, Rel

LEMMA CountSame ==
    ASSUME Counted, Writing' \subseteq Writing, fresh' = fresh, fresh \in Nat,
           made \in Nat, made' \in Nat, made' >= made
    PROVE  Counted'
<1>1. IsFiniteSet(Writing') /\ Cardinality(Writing') <= Cardinality(Writing)
  BY FS_Subset DEF Counted
<1>2. Cardinality(Writing) \in Nat /\ Cardinality(Writing') \in Nat
  BY <1>1, FS_CardinalityType DEF Counted
<1> QED
  BY <1>1, <1>2 DEF Counted

LEMMA CountBegins ==
    ASSUME Counted, NEW q, Writing' \subseteq Writing \cup {q}, fresh' = fresh,
           fresh \in Nat, made \in Nat, made' = made + 1
    PROVE  Counted'
<1>1. IsFiniteSet(Writing \cup {q})
      /\ Cardinality(Writing \cup {q}) <= Cardinality(Writing) + 1
  <2>1. IsFiniteSet(Writing) /\ Cardinality(Writing) \in Nat
    BY FS_CardinalityType DEF Counted
  <2>2. /\ IsFiniteSet(Writing \cup {q})
        /\ Cardinality(Writing \cup {q}) =
              IF q \in Writing THEN Cardinality(Writing) ELSE Cardinality(Writing) + 1
    BY <2>1, FS_AddElement, Zenon
  <2> QED
    BY <2>1, <2>2
<1>2. IsFiniteSet(Writing') /\ Cardinality(Writing') <= Cardinality(Writing \cup {q})
  BY <1>1, FS_Subset
<1>3. /\ Cardinality(Writing) \in Nat /\ Cardinality(Writing') \in Nat
      /\ Cardinality(Writing \cup {q}) \in Nat
  BY <1>1, <1>2, FS_CardinalityType DEF Counted
<1> QED
  BY <1>1, <1>2, <1>3 DEF Counted

\* A call that is still to write leaves a number for what it writes.
LEMMA CountWrites ==
    ASSUME Counted, NEW q \in Writing, Writing' \subseteq Writing \ {q},
           fresh \in Nat, fresh' \in Nat, fresh' <= fresh + 1, made \in Nat, made' = made
    PROVE  Counted' /\ fresh + 1 <= made
<1>1. IsFiniteSet(Writing \ {q})
      /\ Cardinality(Writing \ {q}) = Cardinality(Writing) - 1
  BY FS_RemoveElement DEF Counted
<1>2. IsFiniteSet(Writing') /\ Cardinality(Writing') <= Cardinality(Writing \ {q})
  BY <1>1, FS_Subset
<1>3. /\ Cardinality(Writing) \in Nat /\ Cardinality(Writing') \in Nat
      /\ Cardinality(Writing \ {q}) \in Nat
  BY <1>1, <1>2, FS_CardinalityType DEF Counted
<1> QED
  BY <1>1, <1>2, <1>3 DEF Counted

\* A call that moves while no row does.
LEMMA MoveOK ==
    ASSUME IInv, NEW q \in Calls, NEW c \in CallRecord, Own(c), Rel(c),
           call' = [call EXCEPT ![q] = c],
           UNCHANGED <<clock, key, limit, groups, fresh, until>>,
           made' \in 0..MaxCalls, made' >= made, Counted'
    PROVE  IInv'
<1>1. call' \in [Calls -> CallRecord]
  BY DEF IInv, TypeOK
<1>2. TypeOK' /\ KeyOK'
  BY <1>1, Constants DEF IInv, TypeOK, KeyOK
<1>3. ASSUME NEW p \in Calls PROVE (Own(call[p]) /\ Rel(call[p]))'
  <2>1. call'[p] = call[p] \/ call'[p] = c
    BY DEF IInv, TypeOK
  <2>2. Own(call'[p]) /\ Rel(call'[p])
    BY <2>1 DEF IInv
  <2> QED
    BY <2>2 DEF Own, Rel, Promised
<1> QED
  BY <1>2, <1>3 DEF IInv

LEMMA InitIInv == Init => IInv
<1> SUFFICES ASSUME Init PROVE IInv
  OBVIOUS
<1>1. TypeOK
  BY Constants, IdleOK DEF Init, TypeOK, KeyRecord
<1>2. Counted
  <2>1. Writing = {}
    BY DEF Init, Writing, Idle
  <2>2. IsFiniteSet(Writing) /\ Cardinality(Writing) = 0
    BY <2>1, FS_EmptySet
  <2> QED
    BY <2>2 DEF Init, Counted
<1>3. KeyOK
  BY Constants DEF Init, KeyOK
<1> QED
  BY <1>1, <1>2, <1>3, IdleOK DEF Init, IInv

LEMMA BeginKeeps ==
    ASSUME IInv, NEW q \in Calls, BeginSome(q)
    PROVE  IInv'
<1>1. ASSUME NEW op \in Ops, NEW arg \in Groups \cup Maxima \cup Nat \cup {None},
             op = "rotate" => arg \in GracePeriods \cup {None},
             op \in {"addLimit", "setLimit", "applyLimit"} => arg \in Maxima,
             op = "request" => arg \in 0..fresh,
             Begin(q, op, arg)
      PROVE  IInv'
  <2> DEFINE c == [Idle EXCEPT !.op = op, !.pc = "read", !.arg = arg,
                               !.late = op = "request" /\ ~Promised(arg, clock)]
  <2>1. c \in CallRecord
    BY IdleOK DEF CallRecord
  <2>2. c.pc = "read" /\ c.op = op /\ c.arg = arg
        /\ c.late = (op = "request" /\ ~Promised(arg, clock))
    BY IdleOK DEF CallRecord
  <2>3. Own(c) /\ Rel(c)
    BY <1>1, <2>2 DEF Own, Rel
  <2>4. call' = [call EXCEPT ![q] = c]
        /\ UNCHANGED <<clock, key, limit, groups, fresh, until>>
        /\ made' = made + 1 /\ made' \in 0..MaxCalls /\ made' >= made
    BY <1>1, Constants DEF Begin, CountCall, IInv, TypeOK
  <2> HIDE DEF c
  <2>5. Writing' \subseteq Writing \cup {q}
    BY <2>4 DEF Writing, IInv, TypeOK
  <2>6. Counted'
    BY <2>4, <2>5, CountBegins DEF IInv, TypeOK
  <2> QED
    BY <2>1, <2>3, <2>4, <2>6, MoveOK
<1>2. GracePeriods \subseteq Nat /\ 0..fresh \subseteq Nat
  BY Constants
<1>3. ASSUME NEW period \in GracePeriods \cup {None}, Begin(q, "rotate", period)
      PROVE  IInv'
  BY <1>1, <1>2, <1>3 DEF Ops, KeyOps
<1>4. ASSUME NEW op \in {"endGrace", "deleteLimit"}, Begin(q, op, None) PROVE IInv'
  BY <1>1, <1>4 DEF Ops, KeyOps, LimitOps
<1>5. ASSUME NEW g \in Groups, Begin(q, "addGroup", g) PROVE IInv'
  BY <1>1, <1>5 DEF Ops, KeyOps
<1>6. ASSUME NEW op \in {"addLimit", "setLimit", "applyLimit"}, NEW m \in Maxima,
             Begin(q, op, m)
      PROVE  IInv'
  BY <1>1, <1>6 DEF Ops, LimitOps
<1>7. ASSUME NEW v \in 0..fresh, Begin(q, "request", v) PROVE IInv'
  BY <1>1, <1>2, <1>7 DEF Ops
<1> QED
  BY <1>3, <1>4, <1>5, <1>6, <1>7 DEF BeginSome

\* A call that ends while no row moves.
LEMMA FinishKeeps ==
    ASSUME IInv, NEW q \in Calls, Finish(q),
           UNCHANGED <<clock, key, limit, groups, made, fresh, until>>
    PROVE  IInv'
<1>1. Writing' \subseteq Writing
  BY DEF Finish, Writing, IInv, TypeOK, Idle
<1>2. Counted'
  BY <1>1, CountSame DEF IInv, TypeOK
<1>3. made' \in 0..MaxCalls /\ made' >= made
  BY Constants DEF IInv, TypeOK
<1>4. call' = [call EXCEPT ![q] = Idle]
  BY DEF Finish
<1> QED
  BY <1>2, <1>3, <1>4, IdleOK, MoveOK

\* A value that is not promised is never accepted, and one that is, always.
LEMMA PromisedAuthenticates ==
    ASSUME IInv, NEW v \in Values
    PROVE  Promised(v, clock) <=> Authenticates(v, key, clock)
<1>1. /\ key \in KeyRecord /\ clock \in 0..MaxTime /\ until \in [Values -> Nat]
      /\ key.previous = None <=> key.grace = None
      /\ fresh \in 0..made /\ made \in 0..MaxCalls
  BY DEF IInv, TypeOK
<1>2. key.previous # None => until[key.previous] = key.grace
  BY DEF IInv, KeyOK
<1>3. until[key.value] = Forever /\ clock < Forever
  BY <1>1, Constants DEF IInv, KeyOK, Forever
<1>4. v \in {key.value, key.previous} \/ ~(clock < until[v])
  BY <1>1, Constants DEF IInv, KeyOK
<1>5. CASE v = key.value
  BY <1>3, <1>5 DEF Promised, Authenticates
<1>6. CASE v # key.value /\ v = key.previous
  <2>1. v # None /\ until[v] = key.grace /\ key.grace # None
    BY <1>1, <1>2, <1>6, Constants
  <2> QED
    BY <1>6, <2>1 DEF Promised, Authenticates, PreviousAuthenticates
<1> QED
  BY <1>4, <1>5, <1>6 DEF Promised, Authenticates

LEMMA ReadKeeps ==
    ASSUME IInv, NEW q \in Calls, Read(q)
    PROVE  IInv'
<1> DEFINE c == call[q]
           row == IF c.op \in KeyOps \cup {"request"} THEN key ELSE None
           lim == IF c.op \in LimitOps THEN limit ELSE None
           n == [c EXCEPT !.pc = "decide", !.row = row, !.limit = lim]
<1>0. c \in CallRecord /\ Own(c) /\ Rel(c) /\ c.pc = "read"
  BY DEF IInv, TypeOK, Read
<1>1. CASE Finish(q)
  BY <1>1, FinishKeeps DEF Read
<1>2. CASE Found(c) /\ call' = [call EXCEPT ![q] = n]
  <2>1. n \in CallRecord
    BY ZenonT(60), <1>0 DEF CallRecord, IInv, TypeOK
  <2>2. n.pc = "decide" /\ n.op = c.op /\ n.arg = c.arg /\ n.row = row
        /\ n.limit = lim /\ n.late = c.late
    BY <1>0 DEF CallRecord
  <2>3. Own(n)
    BY <1>0, <2>2 DEF Own, IInv, TypeOK, KeyOK
  <2>4. c.op = "request" /\ c.late => ~Authenticates(c.arg, key, clock)
    <3>1. c.op = "request" => c.arg \in Values
      BY <1>0, Constants DEF Own, IInv, TypeOK, Values
    <3> QED
      BY <1>0, <3>1, PromisedAuthenticates DEF Rel
  <2>5. c.op \in LimitOps => key.exists
    BY <1>2 DEF Found
  <2>6. Rel(n)
    BY <1>0, <2>2, <2>4, <2>5 DEF Rel, KeyOps, LimitOps
  <2>7. Writing' \subseteq Writing
    BY <1>0, <1>2, <2>2 DEF Writing, IInv, TypeOK
  <2>8. Counted'
    BY <2>7, CountSame DEF IInv, TypeOK, Read
  <2>9. UNCHANGED <<clock, key, limit, groups, made, fresh, until>>
    BY DEF Read
  <2>10. made' \in 0..MaxCalls /\ made' >= made
    BY <2>9, Constants DEF IInv, TypeOK
  <2> HIDE DEF n
  <2> QED
    BY <1>2, <2>1, <2>3, <2>6, <2>8, <2>9, <2>10, MoveOK
<1> QED
  BY <1>1, <1>2 DEF Read

LEMMA DecideKeeps ==
    ASSUME IInv, NEW q \in Calls, Decide(q)
    PROVE  IInv'
<1> DEFINE c == call[q]
           now == IF c.op \in {"rotate", "endGrace"} THEN clock ELSE 0
           to == IF c.op = "request" THEN "access" ELSE "write"
           n == [c EXCEPT !.now = now, !.pc = to]
<1>0. c \in CallRecord /\ Own(c) /\ Rel(c) /\ c.pc = "decide" /\ c.op \in Ops
  BY DEF IInv, TypeOK, Decide, Own
<1>1. UNCHANGED <<clock, key, limit, groups, made, fresh, until>>
  BY DEF Decide
<1>2. CASE Finish(q)
  BY <1>1, <1>2, FinishKeeps
<1>3. CASE Allowed(c, clock) /\ call' = [call EXCEPT ![q] = n]
  <2>1. clock \in Nat /\ made' \in 0..MaxCalls /\ made' >= made
    BY <1>1, Constants DEF IInv, TypeOK
  <2>2. n \in CallRecord
    BY <1>0, <2>1 DEF CallRecord
  <2>3. /\ n.pc = to /\ n.op = c.op /\ n.arg = c.arg /\ n.row = c.row
        /\ n.limit = c.limit /\ n.late = c.late /\ n.raced = c.raced /\ n.now = now
    BY <1>0 DEF CallRecord
  <2>4. c.op = "rotate" => GraceAllowed(c.arg, clock)
    BY <1>3 DEF Allowed, MayRotate
  <2>5. c.op = "addGroup" => c.row.group = None
    BY <1>3 DEF Allowed, MayAssign
  <2>6. c.op = "request" => ~c.late
    BY <1>0, <1>3 DEF Allowed, Rel
  <2>7. /\ c.op = "addLimit" => c.limit = None
        /\ c.op = "setLimit" => c.limit # None
    BY <1>3 DEF Allowed, MayTouchLimit
  <2>8. now <= clock
    BY <2>1
  <2>9. Own(n)
    BY <1>0, <2>3, <2>4, <2>5, <2>6, <2>7, <2>8 DEF Own
  <2>10. Rel(n)
    BY <1>0, <2>3 DEF Rel, LimitOps
  <2>11. Writing' \subseteq Writing
    BY <1>0, <1>3, <2>3 DEF Writing, IInv, TypeOK
  <2>12. Counted'
    BY <1>1, <2>11, CountSame DEF IInv, TypeOK
  <2> HIDE DEF n
  <2> QED
    BY <1>1, <1>3, <2>1, <2>2, <2>9, <2>10, <2>12, MoveOK
<1> QED
  BY <1>2, <1>3 DEF Decide

LEMMA CheckAccessKeeps ==
    ASSUME IInv, NEW q \in Calls, CheckAccess(q)
    PROVE  IInv'
<1> DEFINE c == call[q]
           n == [c EXCEPT !.pc = "admitted"]
<1>0. c \in CallRecord /\ Own(c) /\ Rel(c) /\ c.pc = "access"
  BY DEF IInv, TypeOK, CheckAccess
<1>1. UNCHANGED <<clock, key, limit, groups, made, fresh, until>>
  BY DEF CheckAccess
<1>2. CASE Finish(q)
  BY <1>1, <1>2, FinishKeeps
<1>3. CASE key.group \in Bound /\ call' = [call EXCEPT ![q] = n]
  <2>1. made' \in 0..MaxCalls /\ made' >= made
    BY <1>1, Constants DEF IInv, TypeOK
  <2>2. n \in CallRecord
    BY <1>0 DEF CallRecord
  <2>3. /\ n.pc = "admitted" /\ n.op = c.op /\ n.arg = c.arg /\ n.row = c.row
        /\ n.limit = c.limit /\ n.late = c.late /\ n.raced = c.raced
    BY <1>0 DEF CallRecord
  <2>4. Own(n)
    BY <1>0, <1>3, <2>3 DEF Own, Rel
  <2>5. Rel(n)
    BY <1>0, <2>3 DEF Rel
  <2>6. Writing' \subseteq Writing
    BY <1>0, <1>3, <2>3 DEF Writing, IInv, TypeOK
  <2>7. Counted'
    BY <1>1, <2>6, CountSame DEF IInv, TypeOK
  <2> HIDE DEF n
  <2> QED
    BY <1>1, <1>3, <2>1, <2>2, <2>4, <2>5, <2>7, MoveOK
<1> QED
  BY <1>2, <1>3 DEF CheckAccess

-----------------------------------------------------------------------------
(* Steps that change a row: what they leave of the other calls.              *)

\* Call p is as it was, or a step that changed what it read told it so.
Told(p) == call'[p] = call[p] \/ call'[p] = [call[p] EXCEPT !.raced = TRUE]

\* What a call knows of itself survives the time, new numbers and being told.
LEMMA OwnStays ==
    ASSUME IInv, NEW p \in Calls, Told(p), clock' \in Nat, clock' >= clock,
           fresh' \in Nat, fresh' >= fresh
    PROVE  /\ call'[p] \in CallRecord
           /\ Own(call[p])'
<1> DEFINE c == call[p]
           n == call'[p]
<1>1. c \in CallRecord /\ Own(c) /\ clock \in Nat /\ fresh \in Nat
  BY Constants DEF IInv, TypeOK
<1>2. n \in CallRecord
  BY <1>1 DEF Told, CallRecord
<1>3. /\ n.pc = c.pc /\ n.op = c.op /\ n.arg = c.arg /\ n.row = c.row
      /\ n.limit = c.limit /\ n.late = c.late /\ n.now = c.now
      /\ n.raced = c.raced \/ n.raced
  BY <1>1 DEF Told, CallRecord
<1>4. c.now \in Nat /\ (c.row \in KeyRecord => c.row.value \in Nat)
  BY <1>1, Constants DEF CallRecord, KeyRecord
<1> HIDE DEF n
<1> QED
  BY <1>1, <1>2, <1>3, <1>4 DEF Own, n

\* How it relates to the rows survives if no value is promised anew and a
\* change of what it read has been told.
LEMMA RelStays ==
    ASSUME IInv, NEW p \in Calls, Told(p), clock' \in Nat, clock' >= clock,
           \A v \in 0..fresh : Promised(v, clock)' => Promised(v, clock),
           call[p].pc \notin {"idle", "read"} /\ call[p].op = "request" =>
               key'.group = key.group \/ call'[p].raced,
           call[p].pc \notin {"idle", "read"} /\ call[p].op = "addGroup" =>
               key'.group \in {key.group, None} \/ call'[p].raced,
           call[p].pc \notin {"idle", "read"} /\ call[p].op \in LimitOps =>
               (limit' = limit /\ key'.exists = key.exists) \/ call'[p].raced
    PROVE  Rel(call[p])'
<1> DEFINE c == call[p]
           n == call'[p]
<1>1. c \in CallRecord /\ Own(c) /\ Rel(c) /\ clock \in Nat /\ fresh \in Nat
  BY Constants DEF IInv, TypeOK
<1>3. /\ n.pc = c.pc /\ n.op = c.op /\ n.arg = c.arg /\ n.row = c.row
      /\ n.limit = c.limit /\ n.late = c.late /\ n.now = c.now
      /\ n.raced = c.raced \/ n.raced
  BY <1>1 DEF Told, CallRecord
<1>4. c.pc # "idle" /\ c.op = "request" /\ c.late =>
          ~(key'.exists /\ clock' < until'[n.arg] /\ ~Expired(clock'))
  <2> SUFFICES ASSUME c.pc # "idle", c.op = "request", c.late
               PROVE  ~(key'.exists /\ clock' < until'[c.arg] /\ ~Expired(clock'))
    BY <1>3
  <2>1. c.arg \in 0..fresh /\ ~Promised(c.arg, clock)
    BY <1>1 DEF Own, Rel
  <2>2. ASSUME NEW v \in 0..fresh, ~Promised(v, clock)
        PROVE  ~(key'.exists /\ clock' < until'[v] /\ ~Expired(clock'))
    BY <2>2 DEF Promised
  <2> QED
    BY <2>1, <2>2
<1>5. c.pc \notin {"idle", "read"} /\ c.op = "request" /\ c.late =>
          ~Authenticates(c.arg, c.row, clock')
  <2> SUFFICES ASSUME c.pc \notin {"idle", "read"}, c.op = "request", c.late
               PROVE  ~Authenticates(c.arg, c.row, clock')
    OBVIOUS
  <2>1. c.row \in KeyRecord /\ ~Authenticates(c.arg, c.row, clock)
    BY <1>1 DEF Own, Rel, KeyOps
  <2>2. c.row.grace \in Nat \cup {None}
    BY <2>1 DEF KeyRecord
  <2> QED
    BY <1>1, <2>1, <2>2, Constants DEF Authenticates, PreviousAuthenticates, Expired
<1>6. c.pc \notin {"idle", "read"} /\ c.op = "request" =>
          n.raced \/ c.row.group = key'.group
  BY <1>1, <1>3 DEF Rel
<1>7. c.pc \in {"decide", "write"} /\ c.op = "addGroup" /\ ~n.raced =>
          (c.row.group = None => key'.group = None)
  BY <1>1, <1>3 DEF Rel
<1>8. c.pc \in {"decide", "write"} /\ c.op \in LimitOps /\ ~n.raced =>
          c.limit = limit' /\ key'.exists
  BY <1>1, <1>3 DEF Rel
<1> HIDE DEF n, c
<1> QED
  BY <1>3, <1>4, <1>5, <1>6, <1>7, <1>8 DEF Rel, Promised, n

\* A step of any kind: the rows, the count, and every call as it should be.
LEMMA ChangeKeeps ==
    ASSUME IInv,
           key' \in KeyRecord, key'.previous = None <=> key'.grace = None,
           key'.grace # None => key'.grace <= Expiry,
           limit' \in LimitRecord \cup {None}, groups' \subseteq Groups,
           made' \in 0..MaxCalls, fresh' \in 0..made', fresh' >= fresh,
           until' \in [Values -> Nat], clock' \in 0..MaxTime, clock' >= clock,
           call' = [p \in Calls |-> call'[p]],
           \A p \in Calls : (Told(p) /\ Rel(call[p])') \/ call'[p] = Idle,
           Counted', KeyOK'
    PROVE  IInv'
<1>1. fresh' \in Nat /\ clock' \in Nat
  BY Constants
<1>2. ASSUME NEW p \in Calls
      PROVE  call'[p] \in CallRecord /\ Own(call[p])' /\ Rel(call[p])'
  <2>1. CASE Told(p) /\ Rel(call[p])'
    BY <1>1, <2>1, OwnStays
  <2>2. CASE call'[p] = Idle
    <3>1. call'[p].pc = "idle" /\ call'[p] \in CallRecord
      BY <2>2, IdleOK DEF Idle
    <3> QED
      BY <3>1 DEF Own, Rel
  <2> QED
    BY <2>1, <2>2
<1>3. call' \in [Calls -> CallRecord]
  BY <1>2
<1> QED
  BY <1>2, <1>3 DEF IInv, TypeOK

\* The clock alone.
LEMMA TickKeeps == ASSUME IInv, Tick PROVE IInv'
<1>0. clock \in Nat /\ clock' = clock + 1 /\ clock' \in 0..MaxTime /\ clock' \in Nat
      /\ until \in [Values -> Nat] /\ fresh \in Nat /\ made \in Nat /\ fresh <= made
      /\ made <= MaxCalls
  BY Constants DEF Tick, IInv, TypeOK
<1>1. UNCHANGED <<key, limit, groups, call, made, fresh, until>>
  BY DEF Tick
<1>2. Counted'
  <2>1. Writing' \subseteq Writing /\ fresh' = fresh /\ made' \in Nat /\ made' >= made
    BY <1>0, <1>1 DEF Writing
  <2> QED
    BY <1>0, <2>1, CountSame DEF IInv
<1>3. KeyOK'
  BY <1>0, <1>1 DEF IInv, KeyOK
<1>4. ASSUME NEW v \in 0..fresh, Promised(v, clock)' PROVE Promised(v, clock)
  <2>1. v \in Values /\ until[v] \in Nat
    BY <1>0, Constants DEF Values
  <2> QED
    BY <1>0, <1>1, <1>4, <2>1, Constants DEF Promised, Expired
<1>5. ASSUME NEW p \in Calls PROVE Told(p) /\ Rel(call[p])'
  BY <1>0, <1>1, <1>4, RelStays DEF Told
<1>6. call' = [p \in Calls |-> call'[p]]
  BY <1>1 DEF IInv, TypeOK
<1> QED
  BY <1>0, <1>1, <1>2, <1>3, <1>5, <1>6, ChangeKeeps DEF IInv, TypeOK

\* The types of the variables, as the steps below use them.
LEMMA Types ==
    ASSUME IInv
    PROVE  /\ clock \in 0..MaxTime /\ clock \in Nat
           /\ key \in KeyRecord /\ limit \in LimitRecord \cup {None}
           /\ key.previous = None <=> key.grace = None
           /\ key.grace # None => key.grace <= Expiry
           /\ groups \subseteq Groups /\ call \in [Calls -> CallRecord]
           /\ made \in 0..MaxCalls /\ made \in Nat
           /\ fresh \in 0..made /\ fresh \in Nat /\ fresh \in Values
           /\ until \in [Values -> Nat]
           /\ key.value \in Values /\ key.value \in Nat
           /\ key.previous \in Values \cup {None} /\ key.grace \in Nat \cup {None}
           /\ key.previous # None => key.previous \in Nat
           /\ Counted /\ KeyOK
  BY Constants DEF IInv, TypeOK, KeyRecord, Values

\* The call that writes is over, and has left its place in the count.
LEMMA WriteCounted ==
    ASSUME IInv, NEW q \in Calls, call[q].pc = "write", call[q].op \in Writers,
           call'[q] = Idle, \A p \in Calls : p # q => Told(p),
           made' = made, fresh' \in {fresh, fresh + 1}
    PROVE  Counted' /\ fresh + 1 <= made /\ fresh' \in 0..made /\ fresh' >= fresh
<1>1. q \in Writing
  BY DEF Writing
<1>2. \A p \in Calls : p # q => call'[p].pc = call[p].pc /\ call'[p].op = call[p].op
  BY Types DEF Told, CallRecord
<1>3. Writing' \subseteq Writing \ {q}
  BY <1>2 DEF Writing, Idle
<1> QED
  BY <1>1, <1>3, Types, CountWrites

\* No call becomes one that writes.
LEMMA ToldCounted ==
    ASSUME IInv, \A p \in Calls : Told(p) \/ call'[p] = Idle,
           fresh' = fresh, made' \in Nat, made' >= made
    PROVE  Counted'
<1>1. ASSUME NEW p \in Calls
      PROVE  call'[p].pc = "idle" \/ (call'[p].pc = call[p].pc /\ call'[p].op = call[p].op)
  <2>1. CASE call'[p] = Idle
    BY <2>1 DEF Idle
  <2>2. CASE Told(p)
    <3>1. call[p] \in CallRecord
      BY Types
    <3> QED
      BY <2>2, <3>1 DEF Told, CallRecord
  <2> QED
    BY <2>1, <2>2
<1>2. Writing' \subseteq Writing
  BY <1>1 DEF Writing
<1> QED
  BY <1>2, Types, CountSame

\* A write that finds the rows changed: a number is gone, no row moves.
LEMMA FreshKeeps ==
    ASSUME IInv, NEW q \in Calls, call[q].pc = "write", call[q].op \in Writers,
           call' = [call EXCEPT ![q] = Idle],
           UNCHANGED <<clock, key, limit, groups, made, until>>,
           fresh' \in {fresh, fresh + 1}
    PROVE  IInv'
<1>1. ASSUME NEW p \in Calls, p # q PROVE call'[p] = call[p]
  BY <1>1, Types
<1>2. call'[q] = Idle /\ call' = [p \in Calls |-> call'[p]]
  BY Types
<1>3. Counted' /\ fresh' \in 0..made' /\ fresh' >= fresh
  BY <1>1, <1>2, WriteCounted DEF Told
<1>4. KeyOK'
  <2>1. fresh' \in Nat /\ fresh \in Nat /\ fresh <= fresh'
    BY <1>3, Types
  <2>2. key.value <= fresh' /\ (key.previous # None => key.previous <= fresh')
    BY <2>1, Types DEF KeyOK
  <2> QED
    BY <2>2, Types DEF KeyOK
<1>5. ASSUME NEW p \in Calls PROVE (Told(p) /\ Rel(call[p])') \/ call'[p] = Idle
  <2>1. CASE p # q
    <3>1. call'[p] = call[p]
      BY <1>1, <2>1
    <3> QED
      BY <3>1 DEF Told, Rel, Promised, IInv
  <2> QED
    BY <1>2, <2>1
<1>6. /\ key' \in KeyRecord /\ (key'.previous = None <=> key'.grace = None)
      /\ key'.grace # None => key'.grace <= Expiry
      /\ limit' \in LimitRecord \cup {None} /\ groups' \subseteq Groups
      /\ made' \in 0..MaxCalls /\ until' \in [Values -> Nat]
      /\ clock' \in 0..MaxTime /\ clock' >= clock
  BY Types
<1> QED
  BY <1>2, <1>3, <1>4, <1>5, <1>6, ChangeKeeps

LEMMA RotateKeeps ==
    ASSUME IInv, NEW q \in Calls, Rotate(q)
    PROVE  IInv'
<1> DEFINE c == call[q]
           grace == GraceEnd(c.arg, c.now)
           old == c.row.value
<1>0. /\ c.pc = "write" /\ c.op = "rotate" /\ c \in CallRecord /\ Own(c)
      /\ fresh' = fresh + 1 /\ call' = [call EXCEPT ![q] = Idle]
      /\ UNCHANGED <<clock, limit, groups, made>>
  BY Types DEF Rotate, Finish, IInv
<1>1. /\ c.arg \in GracePeriods \cup {None} /\ c.now \in Nat /\ c.now <= clock
      /\ c.row \in KeyRecord /\ old <= fresh /\ GraceAllowed(c.arg, c.now)
  BY <1>0 DEF Own, CallRecord, KeyOps
<1>2. ASSUME NEW p \in Calls, p # q PROVE call'[p] = call[p]
  BY <1>0, <1>2, Types
<1>3. call'[q] = Idle /\ call' = [p \in Calls |-> call'[p]]
  BY <1>0, Types
<1>4. /\ Counted' /\ fresh + 1 <= made
      /\ fresh' \in 0..made' /\ fresh' >= fresh /\ fresh + 1 \in Values
  <2>1. \A p \in Calls : p # q => Told(p)
    BY <1>2 DEF Told
  <2>2. Counted' /\ fresh + 1 <= made /\ fresh' \in 0..made /\ fresh' >= fresh
    BY <1>0, <1>3, <2>1, WriteCounted DEF Writers
  <2> QED
    BY <1>0, <2>2, Types, Constants DEF Values
<1>5. CASE StillRotatable(c)
  <2>1. /\ key' = [key EXCEPT !.value = fresh + 1, !.grace = grace,
                     !.previous = IF grace = None THEN None ELSE old]
        /\ until' = [until EXCEPT ![fresh + 1] = Forever,
                     ![old] = IF grace = None THEN 0 ELSE grace]
    BY <1>5 DEF Rotate
  <2>2. /\ key.exists /\ key.value = old
        /\ key.grace = None \/ key.grace <= c.now
    BY <1>5 DEF StillRotatable
  <2>3. /\ grace \in Nat \cup {None}
        /\ grace # None => grace <= Expiry
        /\ c.arg = None => grace = None
    <3>1. CASE c.arg = None
      BY <3>1 DEF GraceEnd
    <3>2. CASE c.arg # None
      <4>1. c.arg \in Nat /\ grace = c.now + c.arg /\ c.now + c.arg <= Expiry
        BY <1>1, <3>2, Constants DEF GraceEnd, GraceAllowed
      <4> QED
        BY <1>1, <3>2, <4>1
    <3> QED
      BY <3>1, <3>2
  <2>4. /\ key'.value = fresh + 1 /\ key'.grace = grace /\ key'.exists = key.exists
        /\ key'.previous = IF grace = None THEN None ELSE old
        /\ key'.group = key.group /\ key' \in KeyRecord
    BY <1>4, <2>1, <2>2, <2>3, Types DEF KeyRecord
  <2>5. old \in Values /\ old \in Nat /\ fresh + 1 # old
    BY <1>1, <2>2, Types
  <2>6. /\ until'[fresh + 1] = Forever
        /\ until'[old] = IF grace = None THEN 0 ELSE grace
        /\ \A v \in Values : v \notin {old, fresh + 1} => until'[v] = until[v]
        /\ until' \in [Values -> Nat]
    BY <1>4, <2>1, <2>3, <2>5, Types, Constants
  <2>7. ASSUME NEW v \in Values, v \notin {old, fresh + 1} PROVE until'[v] <= clock
    <3>1. v = key.previous => until[v] = key.grace /\ key.grace # None
      BY <2>7, Types, Constants DEF KeyOK
    <3>2. v # key.previous => until[v] <= clock
      BY <2>2, <2>7, Types DEF KeyOK
    <3> QED
      BY <1>1, <2>2, <2>6, <2>7, <3>1, <3>2, Types
  <2>8. KeyOK'
    <3>1. until'[key'.value] = Forever /\ key'.value <= fresh'
      BY <1>0, <2>4, <2>6, Types
    <3>2. key'.previous # None => /\ key'.previous <= fresh' /\ key'.previous # key'.value
                                  /\ until'[key'.previous] = key'.grace
      BY <1>0, <1>1, <2>4, <2>5, <2>6, Types
    <3>3. \A v \in Values : v \in {key'.value, key'.previous} \/ until'[v] <= clock'
      <4>1. grace = None => until'[old] <= clock
        BY <2>6, Types
      <4> QED
        BY <1>0, <2>4, <2>7, <4>1
    <3> QED
      BY <3>1, <3>2, <3>3 DEF KeyOK
  <2>9. ASSUME NEW v \in 0..fresh, Promised(v, clock)' PROVE Promised(v, clock)
    <3>1. v \in Values /\ v # fresh + 1 /\ clock' = clock
      BY <1>0, Types, Constants DEF Values
    <3>2. clock < until'[v] /\ key.exists /\ ~Expired(clock)
      BY <2>4, <2>9, <3>1 DEF Promised
    <3>3. v = old
      BY <2>7, <3>1, <3>2, <2>6, Types
    <3>4. until[v] = Forever /\ clock < Forever
      BY <2>2, <3>3, Types, Constants DEF KeyOK, Forever
    <3> QED
      BY <3>2, <3>4 DEF Promised
  <2>10. ASSUME NEW p \in Calls PROVE (Told(p) /\ Rel(call[p])') \/ call'[p] = Idle
    <3>1. CASE p = q
      BY <1>3, <3>1
    <3>2. CASE p # q
      <4>1. Told(p)
        BY <1>2, <3>2 DEF Told
      <4> QED
        BY <1>0, <2>4, <2>9, <4>1, RelStays, Types
    <3> QED
      BY <3>1, <3>2
  <2>11. /\ key'.previous = None <=> key'.grace = None
         /\ key'.grace # None => key'.grace <= Expiry
    BY <2>3, <2>4, <2>5, Constants
  <2>12. /\ limit' \in LimitRecord \cup {None} /\ groups' \subseteq Groups
         /\ made' \in 0..MaxCalls /\ clock' \in 0..MaxTime /\ clock' >= clock
    BY <1>0, Types
  <2> QED
    BY <1>3, <1>4, <2>4, <2>6, <2>8, <2>10, <2>11, <2>12, ChangeKeeps
<1>6. CASE ~StillRotatable(c)
  BY <1>0, <1>6, FreshKeeps DEF Rotate, Writers
<1> QED
  BY <1>5, <1>6

LEMMA EndGraceKeeps ==
    ASSUME IInv, NEW q \in Calls, EndGrace(q)
    PROVE  IInv'
<1> DEFINE ends == key.exists /\ key.grace # None /\ key.grace > call[q].now
<1>0. /\ call[q].pc = "write" /\ call' = [call EXCEPT ![q] = Idle]
      /\ UNCHANGED <<clock, limit, groups, made, fresh>>
  BY DEF EndGrace, Finish
<1>1. CASE ~ends
  BY <1>0, <1>1, FinishKeeps DEF EndGrace, Finish
<1>2. CASE ends
  <2>1. /\ key' = [key EXCEPT !.previous = None, !.grace = None]
        /\ until' = [until EXCEPT ![key.previous] = 0]
        /\ key.previous # None /\ key.previous \in Values
    BY <1>2, Types DEF EndGrace
  <2>2. /\ key'.value = key.value /\ key'.previous = None /\ key'.grace = None
        /\ key'.exists = key.exists /\ key'.group = key.group /\ key' \in KeyRecord
    BY <2>1, Types DEF KeyRecord
  <2>3. /\ until' \in [Values -> Nat] /\ until'[key.previous] = 0
        /\ \A v \in Values : v # key.previous => until'[v] = until[v]
    BY <2>1, Types
  <2>4. KeyOK'
    BY <1>0, <2>1, <2>2, <2>3, Types DEF KeyOK
  <2>5. ASSUME NEW v \in 0..fresh, Promised(v, clock)' PROVE Promised(v, clock)
    <3>1. v \in Values
      BY Types, Constants DEF Values
    <3> QED
      BY <1>0, <2>2, <2>3, <2>5, <3>1, Types DEF Promised
  <2>6. ASSUME NEW p \in Calls PROVE (Told(p) /\ Rel(call[p])') \/ call'[p] = Idle
    <3>1. CASE p # q
      <4>1. Told(p)
        BY <1>0, <3>1, Types DEF Told
      <4> QED
        BY <1>0, <2>2, <2>5, <4>1, RelStays, Types
    <3> QED
      BY <1>0, <3>1, Types
  <2>7. Counted'
    BY <1>0, <2>6, ToldCounted, Types
  <2>8. call' = [p \in Calls |-> call'[p]]
    BY <1>0, Types
  <2>9. /\ limit' \in LimitRecord \cup {None} /\ groups' \subseteq Groups
        /\ made' \in 0..MaxCalls /\ fresh' \in 0..made' /\ fresh' >= fresh
        /\ clock' \in 0..MaxTime /\ clock' >= clock
    BY <1>0, Types
  <2> QED
    BY <2>2, <2>3, <2>4, <2>6, <2>7, <2>8, <2>9, ChangeKeeps
<1> QED
  BY <1>1, <1>2

\* Call p was told of every change of what it read.
Informed(p) ==
    /\ Told(p)
    /\ call[p].pc \notin {"idle", "read"} =>
        /\ call[p].op = "request" => key'.group = key.group \/ call'[p].raced
        /\ call[p].op = "addGroup" =>
                key'.group \in {key.group, None} \/ call'[p].raced
        /\ call[p].op \in LimitOps =>
                (limit' = limit /\ key'.exists = key.exists) \/ call'[p].raced

\* A step that moves neither the key's values nor the promises made of them.
LEMMA GroupKeeps ==
    ASSUME IInv, UNCHANGED <<clock, fresh, until>>,
           key' \in KeyRecord, key'.value = key.value, key'.previous = key.previous,
           key'.grace = key.grace, key'.exists => key.exists,
           limit' \in LimitRecord \cup {None}, groups' \subseteq Groups,
           made' \in 0..MaxCalls, made' >= made,
           call' = [p \in Calls |-> call'[p]],
           \A p \in Calls : call'[p] = Idle \/ Informed(p)
    PROVE  IInv'
<1>1. KeyOK'
  BY Types DEF KeyOK
<1>2. \A v \in 0..fresh : Promised(v, clock)' => Promised(v, clock)
  BY DEF Promised
<1>3. ASSUME NEW p \in Calls PROVE (Told(p) /\ Rel(call[p])') \/ call'[p] = Idle
  BY <1>2, RelStays, Types DEF Informed
<1>4. Counted'
  BY <1>3, ToldCounted, Types, Constants
<1>5. /\ key'.previous = None <=> key'.grace = None
      /\ key'.grace # None => key'.grace <= Expiry
      /\ fresh' \in 0..made' /\ fresh' >= fresh
      /\ until' \in [Values -> Nat] /\ clock' \in 0..MaxTime /\ clock' >= clock
  BY Types
<1> QED
  BY <1>1, <1>3, <1>4, <1>5, ChangeKeeps

LEMMA OvertakesTells ==
    ASSUME call \in [Calls -> CallRecord], NEW by, NEW ops,
           call' = Overtakes(call, by, ops), NEW p \in Calls
    PROVE  /\ Told(p)
           /\ call[p].pc # "read" /\ call[p].op \in ops /\ p # by => call'[p].raced
<1>1. call[p] \in CallRecord
  OBVIOUS
<1> QED
  BY <1>1 DEF Overtakes, Told, CallRecord

LEMMA RemoveGroupKeeps ==
    ASSUME IInv, RemoveGroup
    PROVE  IInv'
<1>1. /\ key' = [key EXCEPT !.group = None] /\ call' = Overtakes(call, None, {"request"})
      /\ UNCHANGED <<clock, limit, groups, fresh, until>> /\ made' = made + 1
      /\ made' \in 0..MaxCalls
  BY Types, Constants DEF RemoveGroup, CountCall
<1>2. /\ key' \in KeyRecord /\ key'.value = key.value /\ key'.previous = key.previous
      /\ key'.grace = key.grace /\ key'.exists = key.exists /\ key'.group = None
  BY <1>1, Types DEF KeyRecord
<1>3. \A p \in Calls : /\ Told(p)
                       /\ call[p].pc # "read" /\ call[p].op = "request" => call'[p].raced
  BY <1>1, Types, Constants, OvertakesTells
<1>4. call' = [p \in Calls |-> call'[p]]
  BY <1>1 DEF Overtakes
<1> QED
  BY <1>1, <1>2, <1>3, <1>4, Types, GroupKeeps DEF Informed

LEMMA DeleteGroupKeeps ==
    ASSUME IInv, NEW g \in Groups, DeleteGroup(g)
    PROVE  IInv'
<1>1. /\ groups' \subseteq Groups /\ made' = made + 1 /\ made' \in 0..MaxCalls
      /\ key' = IF key.group = g THEN [key EXCEPT !.group = None] ELSE key
      /\ call' = IF key.group = g THEN Overtakes(call, None, {"request"}) ELSE call
      /\ UNCHANGED <<clock, limit, fresh, until>>
  BY Types, Constants DEF DeleteGroup, CountCall
<1>2. /\ key' \in KeyRecord /\ key'.value = key.value /\ key'.previous = key.previous
      /\ key'.grace = key.grace /\ key'.exists = key.exists
      /\ key'.group = IF key.group = g THEN None ELSE key.group
  BY <1>1, Types DEF KeyRecord
<1>3. ASSUME NEW p \in Calls
      PROVE  /\ Told(p)
             /\ key.group = g /\ call[p].pc # "read" /\ call[p].op = "request" =>
                    call'[p].raced
  <2>1. CASE key.group = g
    BY <1>1, <2>1, Types, Constants, OvertakesTells
  <2>2. CASE key.group # g
    BY <1>1, <2>2 DEF Told
  <2> QED
    BY <2>1, <2>2
<1>4. call' = [p \in Calls |-> call'[p]]
  BY <1>1, Types DEF Overtakes
<1> QED
  BY <1>1, <1>2, <1>3, <1>4, Types, GroupKeeps DEF Informed

LEMMA DeleteKeyKeeps ==
    ASSUME IInv, DeleteKey
    PROVE  IInv'
<1>1. /\ key' = [key EXCEPT !.exists = FALSE] /\ limit' = None
      /\ call' = Overtakes(call, None, LimitOps) /\ made' = made + 1
      /\ made' \in 0..MaxCalls /\ UNCHANGED <<clock, groups, fresh, until>>
  BY Types, Constants DEF DeleteKey, CountCall
<1>2. /\ key' \in KeyRecord /\ key'.value = key.value /\ key'.previous = key.previous
      /\ key'.grace = key.grace /\ key'.exists = FALSE /\ key'.group = key.group
  BY <1>1, Types DEF KeyRecord
<1>3. \A p \in Calls : /\ Told(p)
                       /\ call[p].pc # "read" /\ call[p].op \in LimitOps => call'[p].raced
  BY <1>1, Types, Constants, OvertakesTells
<1>4. call' = [p \in Calls |-> call'[p]]
  BY <1>1 DEF Overtakes
<1>5. \A p \in Calls : call'[p] = Idle \/ Informed(p)
  BY <1>2, <1>3 DEF Informed, LimitOps
<1>6. key'.exists => key.exists
  BY <1>2
<1>7. limit' \in LimitRecord \cup {None} /\ groups' \subseteq Groups /\ made' >= made
  BY <1>1, Types
<1> QED
  BY <1>1, <1>2, <1>4, <1>5, <1>6, <1>7, GroupKeeps

LEMMA AssignGroupKeeps ==
    ASSUME IInv, NEW q \in Calls, AssignGroup(q)
    PROVE  IInv'
<1> DEFINE g == call[q].arg
           done == key.exists /\ g \in groups
           ops == {"addGroup", "request"}
<1>1. UNCHANGED <<clock, limit, groups, made, fresh, until>>
  BY DEF AssignGroup
<1>2. CASE ~done
  BY <1>1, <1>2, FinishKeeps DEF AssignGroup, Finish
<1>3. CASE done
  <2>1. /\ key' = [key EXCEPT !.group = g]
        /\ call' = [Overtakes(call, q, ops) EXCEPT ![q] = Idle]
    BY <1>3 DEF AssignGroup
  <2>2. /\ key' \in KeyRecord /\ key'.value = key.value /\ key'.previous = key.previous
        /\ key'.grace = key.grace /\ key'.exists = key.exists
    BY <1>3, <2>1, Types DEF KeyRecord
  <2>3. call' = [p \in Calls |-> call'[p]] /\ call'[q] = Idle
    BY <2>1 DEF Overtakes
  <2>4. ASSUME NEW p \in Calls, p # q
        PROVE  /\ Told(p)
               /\ call[p].pc # "read" /\ call[p].op \in ops => call'[p].raced
    <3>1. call[p] \in CallRecord
      BY Types
    <3>2. call'[p] = IF call[p].op \in ops /\ call[p].pc # "read"
                     THEN [call[p] EXCEPT !.raced = TRUE] ELSE call[p]
      BY <2>1, <2>4 DEF Overtakes
    <3> QED
      BY <3>1, <3>2 DEF Told, CallRecord
  <2>5. \A p \in Calls : call'[p] = Idle \/ Informed(p)
    BY <1>1, <2>2, <2>3, <2>4 DEF Informed, LimitOps
  <2>6. limit' \in LimitRecord \cup {None} /\ groups' \subseteq Groups
        /\ made' \in 0..MaxCalls /\ made' >= made
    BY <1>1, Types
  <2> QED
    BY <1>1, <2>2, <2>3, <2>5, <2>6, GroupKeeps
<1> QED
  BY <1>2, <1>3

LEMMA WriteLimitKeeps ==
    ASSUME IInv, NEW q \in Calls, WriteLimit(q)
    PROVE  IInv'
<1> DEFINE c == call[q]
<1>1. /\ c.pc = "write" /\ c.op \in LimitOps /\ c \in CallRecord /\ Own(c)
      /\ limit' = LimitAfter(c, fresh + 1) /\ fresh' \in {fresh, fresh + 1}
      /\ UNCHANGED <<clock, key, groups, made, until>>
  BY Types DEF WriteLimit, IInv
<1>2. CASE limit' = limit
  <2>1. call' = [call EXCEPT ![q] = Idle] /\ fresh' = fresh
    BY <1>2 DEF WriteLimit
  <2> QED
    BY <1>1, <1>2, <2>1, FinishKeeps DEF Finish
<1>3. CASE limit' # limit
  <2>1. call' = [Overtakes(call, q, LimitOps) EXCEPT ![q] = Idle]
    BY <1>3 DEF WriteLimit
  <2>2. call' = [p \in Calls |-> call'[p]] /\ call'[q] = Idle
    BY <2>1 DEF Overtakes
  <2>3. ASSUME NEW p \in Calls, p # q
        PROVE  /\ Told(p)
               /\ call[p].pc # "read" /\ call[p].op \in LimitOps => call'[p].raced
    <3>1. call[p] \in CallRecord
      BY Types
    <3>2. call'[p] = IF call[p].op \in LimitOps /\ call[p].pc # "read"
                     THEN [call[p] EXCEPT !.raced = TRUE] ELSE call[p]
      BY <2>1, <2>3 DEF Overtakes
    <3> QED
      BY <3>1, <3>2 DEF Told, CallRecord
  <2>4. Counted' /\ fresh' \in 0..made' /\ fresh' >= fresh
    BY <1>1, <2>2, <2>3, WriteCounted DEF Writers
  <2>5. KeyOK'
    <3>1. fresh' \in Nat /\ fresh \in Nat /\ fresh <= fresh'
      BY <2>4, Types
    <3>2. key.value <= fresh' /\ (key.previous # None => key.previous <= fresh')
      BY <3>1, Types DEF KeyOK
    <3> QED
      BY <1>1, <3>2, Types DEF KeyOK
  <2>6. limit' \in LimitRecord \cup {None}
    <3>1. fresh + 1 \in Nat
      BY Types
    <3>2. c.op # "deleteLimit" => c.arg \in Maxima
      BY <1>1 DEF Own, LimitOps
    <3>3. Inserts(c) => c.op # "deleteLimit"
      BY DEF Inserts
    <3> QED
      BY <1>1, <3>1, <3>2, <3>3, Types DEF LimitAfter, LimitRecord
  <2>7. \A v \in 0..fresh : Promised(v, clock)' => Promised(v, clock)
    BY <1>1 DEF Promised
  <2>8. ASSUME NEW p \in Calls PROVE (Told(p) /\ Rel(call[p])') \/ call'[p] = Idle
    <3>1. CASE p # q
      <4>1. key' = key /\ clock' = clock /\ clock \in Nat
        BY <1>1, Types
      <4> QED
        BY <2>3, <2>7, <3>1, <4>1, RelStays
    <3> QED
      BY <2>2, <3>1
  <2>9. /\ key' \in KeyRecord /\ (key'.previous = None <=> key'.grace = None)
        /\ key'.grace # None => key'.grace <= Expiry
        /\ groups' \subseteq Groups /\ made' \in 0..MaxCalls
        /\ until' \in [Values -> Nat] /\ clock' \in 0..MaxTime /\ clock' >= clock
    BY <1>1, Types
  <2> QED
    BY <2>2, <2>4, <2>5, <2>6, <2>8, <2>9, ChangeKeeps
<1> QED
  BY <1>2, <1>3

LEMMA StutterKeeps == IInv /\ UNCHANGED vars => IInv'
  BY DEF vars, IInv, TypeOK, Counted, Writing, KeyOK, Own, Rel, Promised

LEMMA NextIInv == IInv /\ [Next]_vars => IInv'
<1> SUFFICES ASSUME IInv, [Next]_vars PROVE IInv'
  OBVIOUS
<1>1. ASSUME NEW q \in Calls, BeginSome(q) PROVE IInv'
  BY <1>1, BeginKeeps
<1>2. ASSUME NEW q \in Calls, Step(q) PROVE IInv'
  <2>1. CASE Serve(q)
    BY <2>1, FinishKeeps DEF Serve
  <2> QED
    BY <1>2, <2>1, ReadKeeps, DecideKeeps, RotateKeeps, EndGraceKeeps, AssignGroupKeeps,
       WriteLimitKeeps, CheckAccessKeeps DEF Step
<1>3. ASSUME NEW g \in Groups, DeleteGroup(g) PROVE IInv'
  BY <1>3, DeleteGroupKeeps
<1>4. ASSUME RemoveGroup \/ DeleteKey \/ Tick PROVE IInv'
  BY <1>4, RemoveGroupKeeps, DeleteKeyKeeps, TickKeeps
<1>5. CASE UNCHANGED vars
  BY <1>5, StutterKeeps
<1> QED
  BY <1>1, <1>2, <1>3, <1>4, <1>5 DEF Next

LEMMA Invariance == Spec => []IInv
<1> QED
  BY InitIInv, NextIInv, PTL DEF Spec

-----------------------------------------------------------------------------

(* The rows and the calls have their types, a previous value goes with a     *)
(* grace end, and no grace period outlasts the expiry (KeyDAO.rotate,        *)
(* end_grace_period, get_grace_end).                                         *)
THEOREM TypeCorrect == Spec => []TypeOK
<1>1. IInv => TypeOK
  BY DEF IInv
<1> QED
  BY <1>1, Invariance, PTL

(* Every value promised to work does: the one the last successful rotation   *)
(* shows and, until its grace ends, the one it replaced, whatever rotations  *)
(* and ends of grace race (rotate_key, previous_value_authenticates).        *)
THEOREM PromisesKept == Spec => []PromiseKept
<1>1. IInv => PromiseKept
  BY PromisedAuthenticates DEF PromiseKept
<1> QED
  BY <1>1, Invariance, PTL

(* No request is admitted with a value that was not promised when it began,  *)
(* nor, unless the key changed group meanwhile, under a group the route is   *)
(* not bound to (validate_token, check_key_uuid_for_route).                  *)
THEOREM AdmissionsRight == Spec => []AdmittedRightly
<1>1. IInv => AdmittedRightly
  BY DEF IInv, AdmittedRightly, Own
<1> QED
  BY <1>1, Invariance, PTL

\* Only its own write ends a limit call that is about to write.
LEMMA OnlyItsWrite ==
    ASSUME IInv, NEW q \in Calls, [Next]_vars, call[q].pc = "write",
           call[q].op \in LimitOps, call'[q] = Idle
    PROVE  WriteLimit(q)
<1>0. call \in [Calls -> CallRecord] /\ call[q] # Idle
  BY Types DEF Idle
<1>1. ASSUME NEW p \in Calls, p # q, BeginSome(p) \/ Step(p) PROVE FALSE
  <2>1. call'[q] = call[q] \/ call'[q].pc = call[q].pc
    <3>1. CASE BeginSome(p)
      BY <1>0, <1>1, <3>1 DEF BeginSome, Begin
    <3>2. CASE AssignGroup(p) \/ WriteLimit(p)
      <4>1. call[q] \in CallRecord
        BY <1>0
      <4>2. [call[q] EXCEPT !.raced = TRUE].pc = call[q].pc
        BY <4>1 DEF CallRecord
      <4>3. ASSUME NEW ops PROVE Overtakes(call, p, ops)[q].pc = call[q].pc
        BY <1>0, <4>2 DEF Overtakes
      <4>4. \/ call' = [call EXCEPT ![p] = Idle]
            \/ \E ops : call' = [Overtakes(call, p, ops) EXCEPT ![p] = Idle]
        BY <3>2 DEF AssignGroup, WriteLimit
      <4>5. ASSUME NEW ops, call' = [Overtakes(call, p, ops) EXCEPT ![p] = Idle]
            PROVE  call'[q].pc = call[q].pc
        <5>1. call'[q] = Overtakes(call, p, ops)[q]
          BY <1>1, <4>5 DEF Overtakes
        <5> QED
          BY <4>3, <5>1
      <4> QED
        BY <1>0, <1>1, <4>4, <4>5
    <3>3. CASE Read(p) \/ Decide(p) \/ Rotate(p) \/ EndGrace(p) \/ CheckAccess(p) \/ Serve(p)
      BY <1>0, <1>1, <3>3 DEF Read, Decide, Rotate, EndGrace, CheckAccess, Serve, Finish
    <3> QED
      BY <1>1, <3>1, <3>2, <3>3 DEF Step
  <2> QED
    BY <1>0, <2>1 DEF Idle
<1>2. CASE BeginSome(q) \/ Step(q)
  <2>1. ~BeginSome(q)
    BY <1>0 DEF BeginSome, Begin
  <2>2. ~(Read(q) \/ Decide(q) \/ Rotate(q) \/ EndGrace(q) \/ AssignGroup(q)
          \/ CheckAccess(q) \/ Serve(q))
    BY DEF Read, Decide, Rotate, EndGrace, AssignGroup, CheckAccess, Serve, LimitOps
  <2> QED
    BY <1>2, <2>1, <2>2 DEF Step
<1>3. ASSUME RemoveGroup \/ DeleteKey \/ Tick \/ UNCHANGED vars
             \/ \E g \in Groups : DeleteGroup(g)
      PROVE  FALSE
  <2>1. call' = call \/ \E ops : call' = Overtakes(call, None, ops)
    BY <1>3 DEF RemoveGroup, DeleteKey, Tick, DeleteGroup, vars
  <2>2. call'[q] = call[q] \/ call'[q].pc = call[q].pc
    <3>1. ASSUME NEW ops, call' = Overtakes(call, None, ops)
          PROVE  call'[q].pc = call[q].pc
      <4>1. Told(q)
        BY <1>0, <3>1, OvertakesTells
      <4>2. call[q] \in CallRecord
        BY <1>0
      <4> QED
        BY <4>1, <4>2 DEF Told, CallRecord
    <3> QED
      BY <2>1, <3>1
  <2> QED
    BY <1>0, <2>2 DEF Idle
<1> QED
  BY <1>1, <1>2, <1>3 DEF Next

LEMMA WriteDone ==
    ASSUME IInv, NEW q \in Calls, WriteLimit(q), ~call[q].raced,
           call[q].op \in {"addLimit", "setLimit", "applyLimit"}
    PROVE  limit' # None /\ limit'.max = call[q].arg
<1> DEFINE c == call[q]
<1>1. c.pc = "write" /\ c.op \in LimitOps /\ limit' = LimitAfter(c, fresh + 1)
  BY DEF WriteLimit
<1>2. c.limit = limit /\ key.exists
  BY <1>1 DEF IInv, Rel
<1>3. /\ c.op = "addLimit" => limit = None
      /\ c.op = "setLimit" => limit # None
  BY <1>1, <1>2 DEF IInv, Own
<1>4. fresh + 1 \in Nat /\ c.arg \in Maxima
  BY <1>1, Types DEF IInv, Own
<1>5. CASE Inserts(c)
  <2>1. limit = None
    BY <1>2, <1>3, <1>5 DEF Inserts
  <2>2. limit' = [id |-> fresh + 1, max |-> c.arg]
    BY <1>1, <1>2, <1>5, <2>1 DEF LimitAfter
  <2> QED
    BY <1>4, <2>2, Constants DEF LimitRecord
<1>6. CASE ~Inserts(c)
  <2>1. limit # None /\ limit \in LimitRecord
    BY <1>2, <1>3, <1>6, Types DEF Inserts
  <2>2. limit' = [limit EXCEPT !.max = c.arg]
    BY <1>1, <1>2, <1>6, <2>1 DEF LimitAfter
  <2> QED
    BY <1>4, <2>1, <2>2, Constants DEF LimitRecord
<1> QED
  BY <1>5, <1>6

(* What a call reports, it did, unless another write came in between: the    *)
(* group was given to a key that had none, the limit set is the one stored   *)
(* (add_group_to_key, update_limit_value, apply_limits_to_keys).             *)
THEOREM ReportsAreTrue == Spec => ToldIsDone
<1>1. ASSUME IInv, [Next]_vars, NEW q \in Calls, call[q].pc = "write", call'[q] = Idle,
             ~call[q].raced
      PROVE  /\ call[q].op = "addGroup" => key.group = None
             /\ call[q].op \in {"addLimit", "setLimit", "applyLimit"}
                  => limit' # None /\ limit'.max = call[q].arg
  <2>1. call[q].op = "addGroup" => key.group = None
    BY <1>1 DEF IInv, Own, Rel
  <2>2. call[q].op \in {"addLimit", "setLimit", "applyLimit"}
          => limit' # None /\ limit'.max = call[q].arg
    BY <1>1, OnlyItsWrite, WriteDone DEF LimitOps
  <2> QED
    BY <2>1, <2>2
<1>2. IInv /\ [Next]_vars =>
        \A q \in Calls :
            /\ call[q].pc = "write" /\ call'[q] = Idle
            /\ ~call[q].raced
            => /\ call[q].op = "addGroup" => key.group = None
               /\ call[q].op \in {"addLimit", "setLimit", "applyLimit"}
                    => limit' # None /\ limit'.max = call[q].arg
  BY <1>1
<1> QED
  BY <1>2, Invariance, PTL DEF Spec, ToldIsDone

=============================================================================
