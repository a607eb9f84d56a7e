------------------------- MODULE ProjectConfigProofs -------------------------
(* Safety of ProjectConfig for any slots, contents, replicas and calls, and  *)
(* any number of calls and crashes.                                          *)
EXTENDS ProjectConfig, TLAPS

-----------------------------------------------------------------------------
(* The inductive invariant.                                                  *)

\* Where the handler of each operation can be.
Reaches == [update |-> {"limits", "read", "write"},
            import |-> {"read", "limits", "write"},
            approve |-> {"read", "limits", "write"},
            cancel |-> {"read", "write"},
            serve |-> {"read", "limits", "serve", "outProject", "outConfigs",
                       "drop", "build", "cleanup"},
            unserve |-> {"read", "unserve", "outProject", "drop"},
            delete |-> {"project", "findServed", "unserve", "softConfigs",
                        "softProject", "dropLimits", "drop"},
            addLimits |-> {"served", "insert"},
            addGroups |-> {"validate", "associate"},
            removeGroups |-> {"validate", "associate"}]

\* A running call has the arguments its next step uses.
Shape(c) ==
    /\ c.pc \in Reaches[c.op]
    /\ c.op \in Edits \cup {"serve", "unserve"} => c.slot \in Slots
    /\ c.op \in {"update", "import"} => c.file \in Files
    /\ c.op \in {"approve", "serve"} /\ c.pc \in {"limits", "write", "serve"}
          => c.file \in Files
    /\ c.pc = "unserve" => c.slot \in Slots
    /\ c.pc = "build" => c.file \in Files
    /\ c.op \in {"addGroups", "removeGroups"} => c.name \in Names

Running(c) == c.pc # "idle"

\* The types, the shape of the calls, and that a call runs in a process that
\* takes requests.
Typed ==
    /\ TypeOK
    /\ \A q \in Calls : Running(call[q]) =>
          /\ call[q] \in CallRecord
          /\ Shape(call[q])
          /\ replica[call[q].at].state = "up"
    /\ \A r \in Replicas : replica[r].state = "up" => replica[r].boot = None

\* An edit that goes on after it read the status of its row.
Decided(c) ==
    \/ c.op \in {"update", "cancel"} /\ c.pc = "write"
    \/ c.op \in {"import", "approve"} /\ c.pc \in {"limits", "write"}

\* A row that was served behind the back of an edit is known to the edit.
EditsKnow ==
    \A q \in Calls : LET c == call[q] IN
        Decided(c) /\ cfg[c.slot].status = Served => "serve" \in c.raced

\* The project goes after its configs.
GoneAfterConfigs ==
    /\ project.gone => project.configsGone
    /\ \A q \in Calls : call[q].pc = "softProject" => project.configsGone

StatusInv == ReferenceAgrees /\ EditsKnow /\ GoneAfterConfigs

\* What a slot that is approved or served holds is what was approved.
ApprovedHeld ==
    \A s \in Slots : cfg[s].status # Draft /\ s \notin lapses.approval
                    => approved[s] = cfg[s].file

\* An approval, and a serve, is of the content it read or knows it is not.
ReadHolds(c) ==
    "withdraw" \notin c.raced =>
        /\ c.op = "approve" /\ Decided(c) => c.file = cfg[c.slot].file
        /\ c.op = "serve" /\ c.pc \in {"limits", "serve"}
              => cfg[c.slot].status # Draft

ReadsKnow == \A q \in Calls : ReadHolds(call[q])

ApprovalInv == ApprovedHeld /\ ReadsKnow

\* Limits that were set behind the back of a call are known to it.
LimitsHold(c) ==
    limits /\ "limits" \notin c.raced =>
        /\ \/ c.op = "update" /\ c.pc \in {"read", "write"}
           \/ c.op = "import" /\ c.pc = "write"
           => c.file \notin Budgeted
        /\ ~lapses.budget /\ c.op = "serve" /\ c.pc = "limits"
           => c.file \in Budgeted \/ cfg[c.slot].file \notin Budgeted
        /\ ~lapses.budget /\ c.op = "serve" /\ c.pc = "serve"
           => cfg[c.slot].file \notin Budgeted

LimitsKnown == \A q \in Calls : LimitsHold(call[q])

\* Limits are set beside a served content the call looked at, or it knows.
ServedHolds(c) ==
    c.pc = "insert" /\ "serve" \notin c.raced /\ project.ref \notin lapses.status
        => ServedFile \notin Budgeted

ServedKnown == \A q \in Calls : ServedHolds(call[q])

BudgetInv == BudgetExclusive /\ LimitsKnown /\ ServedKnown

\* A serving call that changed what is served and has not yet changed the routes.
Acts(c) ==
    \/ c.op = "serve" /\ c.pc \in {"outProject", "outConfigs", "drop", "build", "cleanup"}
    \/ c.op = "unserve" /\ c.pc \in {"outProject", "drop"}
    \/ c.op = "delete" /\ \/ c.pc \in {"softProject", "dropLimits", "drop"}
                          \/ c.pc = "softConfigs" /\ c.slot # None

RoutesFor(f) == IF f = None THEN NoRoutes
                ELSE [n \in Names |-> IF n \in RoutesOf[f] THEN f ELSE None]
Shows(r, f) == replica[r].routes = RoutesFor(f) /\ replica[r].entry = f

\* What a serving call relies on, at a replica whose routes nothing explains.
Relies(c) ==
    LET r == c.at
        settled == project.ref \notin lapses.status
    IN
    /\ c.op = "serve" /\ Acts(c) =>
          /\ ~project.configsGone
          /\ c.pc = "outConfigs" => c.ref = project.ref
          /\ c.pc \in {"drop", "build"} /\ settled => c.file = ServedFile
          /\ c.pc = "build" => Shows(r, None)
          /\ c.pc = "cleanup" /\ settled => Shows(r, ServedFile)
    /\ c.op = "unserve" =>
          /\ c.pc = "unserve" => project.ref = c.slot
          /\ Acts(c) => project.ref = None
    /\ c.op = "delete" =>
          /\ c.pc \in {"project", "findServed"} => c.slot = None
          /\ c.pc = "findServed" => project.ref = c.ref
          /\ c.pc = "unserve" => /\ project.ref = c.ref /\ project.ref = c.slot
                                 /\ ~project.configsGone
          /\ c.pc = "softConfigs" /\ c.slot = None => project.ref = c.ref
          /\ Acts(c) => ServedFile = None /\ (c.ref # None \/ Shows(r, None))

\* One call at a time changes the routes of a replica, the others find them as
\* they should be.
Tracks(r) ==
    /\ \A p, q \in Calls : /\ call[p].at = r /\ call[q].at = r
                           /\ Acts(call[p]) /\ Acts(call[q])
                           => p = q
    /\ \A q \in Calls : call[q].at = r => Relies(call[q])
    /\ project.ref \notin lapses.status =>
          /\ replica[r].state = "up" /\ (\A q \in Calls : call[q].at = r => ~Acts(call[q]))
                => Shows(r, ServedFile)
          /\ replica[r].state = "booting" => replica[r].boot = ServedFile

RoutesInv == \A r \in Replicas : r \notin lapses.routes => Tracks(r)

IInv == Typed /\ StatusInv /\ ApprovalInv /\ BudgetInv /\ RoutesInv

-----------------------------------------------------------------------------
(* What a step of a call may do to the calls and to the processes.           *)

\* A call as another step may leave it: it learns of more events.
Kin(a, b) ==
    \/ a = Idle /\ b = Idle
    \/ /\ a \in CallRecord /\ b \in CallRecord
       /\ b.op = a.op /\ b.pc = a.pc /\ b.at = a.at /\ b.slot = a.slot
       /\ b.file = a.file /\ b.name = a.name /\ b.ref = a.ref
       /\ a.raced \subseteq b.raced

\* Call q ends or goes on, the others go on where they are.
Moves(q) ==
    /\ call' \in [Calls -> CallRecord \cup {Idle}]
    /\ \A p \in Calls \ {q} : Kin(call[p], call'[p])
    /\ \/ call'[q] = Idle
       \/ /\ call'[q] \in CallRecord
          /\ Shape(call'[q])
          /\ call'[q].op = call[q].op
          /\ call'[q].at = call[q].at

\* The processes stay up or down; a loop that is given to q is q's own.
Holds(q) ==
    /\ replica' \in [Replicas -> ReplicaRecord]
    /\ \A r \in Replicas :
          /\ replica'[r].state = replica[r].state
          /\ replica'[r].boot = replica[r].boot
          /\ \/ replica'[r].loop = None
             \/ replica'[r].loop = replica[r].loop /\ (replica[r].loop = q => call'[q] # Idle)
             \/ /\ replica'[r].loop = q
                /\ call'[q] # Idle
                /\ r = call[q].at
                /\ call[q].op \in OnLoop

DataTypes ==
    /\ cfg \in [Slots -> [status : Status, file : Files]]
    /\ project \in [ref : Slots \cup {None}, gone : BOOLEAN, configsGone : BOOLEAN]
    /\ limits \in BOOLEAN
    /\ groups \in SUBSET Names
    /\ approved \in [Slots -> Files \cup {None}]
    /\ lapses \in LapsesRecord

LEMMA IdleFacts ==
    /\ Idle.op = None /\ Idle.pc = "idle" /\ Idle.at = None /\ Idle.raced = {}
    /\ Idle.op \notin Ops /\ Idle.pc \notin Points /\ Idle.at \notin Replicas
    /\ Idle \notin CallRecord /\ ~Running(Idle)
  BY ProjectConfigAssumption, NoneIsNoOperation
     DEF Idle, Points, CallRecord, Running

\* A call is idle or a record of the type of a running one.
LEMMA RunningCall ==
    ASSUME Typed, NEW q \in Calls
    PROVE  /\ call[q] = Idle \/ call[q] \in CallRecord
           /\ Running(call[q]) <=> call[q] \in CallRecord
           /\ call[q].pc \in Points => call[q] \in CallRecord
           /\ call[q].op \in Ops => call[q] \in CallRecord
           /\ call[q].at \in Replicas => call[q] \in CallRecord
           /\ call[q] \in CallRecord => Shape(call[q]) /\ replica[call[q].at].state = "up"
  BY IdleFacts DEF Typed, TypeOK, Points, CallRecord, Running

\* Which operations are at a point, and what they have there.
LEMMA At ==
    ASSUME NEW c \in CallRecord, Shape(c)
    PROVE  /\ c.pc = "read" => c.op \in Edits \cup {"serve", "unserve"} /\ c.slot \in Slots
           /\ c.pc = "limits" => /\ c.op \in {"update", "import", "approve", "serve"}
                                 /\ c.slot \in Slots /\ c.file \in Files
           /\ c.pc = "write" => /\ c.op \in Edits /\ c.slot \in Slots
                                /\ c.op # "cancel" => c.file \in Files
           /\ c.pc = "serve" => c.op = "serve" /\ c.slot \in Slots /\ c.file \in Files
           /\ c.pc = "outProject" => c.op \in {"serve", "unserve"}
           /\ c.pc \in {"outConfigs", "build", "cleanup"} => c.op = "serve"
           /\ c.pc = "drop" => c.op \in Servings
           /\ c.pc = "unserve" => c.op \in {"unserve", "delete"} /\ c.slot \in Slots
           /\ c.pc \in {"project", "findServed", "softConfigs", "softProject", "dropLimits"}
                 => c.op = "delete"
           /\ c.pc \in {"served", "insert"} => c.op = "addLimits"
           /\ c.pc \in {"validate", "associate"}
                 => c.op \in {"addGroups", "removeGroups"} /\ c.name \in Names
  BY DEF CallRecord, Shape, Reaches, Ops, Edits, Servings, Others

\* A call that goes on keeps its shape.
LEMMA ShapeOK ==
    ASSUME NEW c, Shape(c), NEW n, n.op = c.op, n.slot = c.slot, n.name = c.name,
           n.pc \in Reaches[c.op],
           c.op \in {"update", "import"} => n.file \in Files,
           c.op \in {"approve", "serve"} /\ n.pc \in {"limits", "write", "serve"}
               => n.file \in Files,
           n.pc = "unserve" => c.slot \in Slots,
           n.pc = "build" => n.file \in Files
    PROVE  Shape(n)
  BY DEF Shape

LEMMA KinFacts ==
    ASSUME NEW a, NEW b, Kin(a, b)
    PROVE  /\ a.op = b.op /\ a.pc = b.pc /\ a.at = b.at /\ a.slot = b.slot
           /\ a.file = b.file /\ a.name = b.name /\ a.ref = b.ref
           /\ a.raced \subseteq b.raced
           /\ Shape(a) => Shape(b)
           /\ Running(a) <=> Running(b)
  BY DEF Kin, Shape, Running

LEMMA KinSelf == ASSUME NEW a \in CallRecord \cup {Idle} PROVE Kin(a, a)
  BY DEF Kin

\* A step of a call keeps the types if it keeps those of the data.
LEMMA MoveTyped ==
    ASSUME Typed, NEW q \in Calls, call[q] \in CallRecord, Moves(q), Holds(q),
           DataTypes', UNCHANGED <<started, crashes>>
    PROVE  Typed'
<1>1. ASSUME NEW r \in Replicas, replica'[r].loop # None
      PROVE  LET p == replica'[r].loop IN call'[p].at = r /\ call'[p].op \in OnLoop
  <2> DEFINE p == replica'[r].loop
  <2>1. p \in Calls
    BY <1>1 DEF Holds, ReplicaRecord
  <2>2. CASE p = q
    <3>1. call'[q] # Idle /\ call[q].at = r /\ call[q].op \in OnLoop
      BY <1>1, <2>2 DEF Holds, Typed, TypeOK
    <3> QED
      BY <2>2, <3>1 DEF Moves
  <2>3. CASE p # q
    <3>1. p = replica[r].loop
      BY <1>1, <2>3 DEF Holds
    <3>2. call[p].at = r /\ call[p].op \in OnLoop
      BY <1>1, <3>1 DEF Typed, TypeOK
    <3>3. Kin(call[p], call'[p])
      BY <2>1, <2>3 DEF Moves
    <3> QED
      BY <3>2, <3>3, KinFacts
  <2> QED
    BY <2>2, <2>3
<1>2. TypeOK'
  BY <1>1 DEF TypeOK, Typed, Moves, Holds, DataTypes
<1>3. ASSUME NEW p \in Calls, Running(call'[p])
      PROVE  call'[p] \in CallRecord /\ Shape(call'[p])
             /\ replica'[call'[p].at].state = "up"
  <2>1. call'[p] \in CallRecord
    BY <1>3, IdleFacts DEF Moves
  <2>2. Shape(call'[p]) /\ call'[p].at = call[p].at /\ call[p] \in CallRecord
    <3>1. CASE p = q
      BY <3>1, <2>1, IdleFacts DEF Moves
    <3>2. CASE p # q
      <4>1. Kin(call[p], call'[p])
        BY <3>2 DEF Moves
      <4>2. call[p] \in CallRecord
        BY <2>1, <4>1, IdleFacts DEF Kin
      <4> QED
        BY <4>1, <4>2, KinFacts, RunningCall
    <3> QED
      BY <3>1, <3>2
  <2>3. call[p].at \in Replicas /\ replica[call[p].at].state = "up"
    BY <2>2, RunningCall DEF CallRecord
  <2> QED
    BY <2>1, <2>2, <2>3 DEF Holds
<1>4. \A r \in Replicas : replica'[r].state = "up" => replica'[r].boot = None
  BY DEF Holds, Typed
<1> QED
  BY <1>2, <1>3, <1>4 DEF Typed

\* The process is as it was, except for its loop.
SameBut(a, b) == /\ b.state = a.state /\ b.boot = a.boot
                 /\ b.routes = a.routes /\ b.entry = a.entry

\* Call q ends, as Finish says and the writing steps do.
LEMMA EndHolds ==
    ASSUME Typed, NEW q \in Calls, call[q] \in CallRecord, replica' = Freed(q)
    PROVE  /\ replica' \in [Replicas -> ReplicaRecord]
           /\ \A r \in Replicas :
                 /\ SameBut(replica[r], replica'[r])
                 /\ \/ replica'[r].loop = None
                    \/ replica'[r].loop = replica[r].loop /\ replica[r].loop # q
<1>1. call[q].at \in Replicas
  BY DEF CallRecord
<1>2. ASSUME NEW r \in Replicas
      PROVE  /\ replica'[r] \in ReplicaRecord
             /\ SameBut(replica[r], replica'[r])
             /\ \/ replica'[r].loop = None
                \/ replica'[r].loop = replica[r].loop /\ replica[r].loop # q
  <2>1. CASE r = call[q].at
    <3>1. replica[r] \in ReplicaRecord
      BY DEF Typed, TypeOK
    <3>2. replica'[r] = [replica[r] EXCEPT !.loop =
                            IF replica[r].loop = q THEN None ELSE replica[r].loop]
      BY <1>1, <2>1 DEF Freed, Typed, TypeOK
    <3> QED
      BY <3>1, <3>2 DEF ReplicaRecord, SameBut
  <2>2. CASE r # call[q].at
    <3>1. replica'[r] = replica[r]
      BY <1>1, <2>2 DEF Freed, Typed, TypeOK
    <3>2. replica[r] \in ReplicaRecord
      BY DEF Typed, TypeOK
    <3>3. replica[r].loop = q => q = None
      BY <2>2 DEF Typed, TypeOK
    <3> QED
      BY <3>1, <3>2, <3>3 DEF ReplicaRecord, SameBut
  <2> QED
    BY <2>1, <2>2
<1>3. replica' = [r \in Replicas |-> replica'[r]]
  BY DEF Freed, Typed, TypeOK
<1> QED
  BY <1>2, <1>3

LEMMA FinishMoves ==
    ASSUME Typed, NEW q \in Calls, call[q] \in CallRecord, Finish(q)
    PROVE  /\ Moves(q) /\ Holds(q)
           /\ call'[q] = Idle /\ \A p \in Calls \ {q} : call'[p] = call[p]
<1>1. /\ call'[q] = Idle /\ \A p \in Calls \ {q} : call'[p] = call[p]
      /\ call' \in [Calls -> CallRecord \cup {Idle}]
  BY DEF Finish, Typed, TypeOK
<1>2. Moves(q)
  BY <1>1, KinSelf DEF Moves, Typed, TypeOK
<1>3. Holds(q)
  BY EndHolds, <1>1 DEF Finish, Holds, SameBut
<1> QED
  BY <1>1, <1>2, <1>3

LEMMA GoMoves ==
    ASSUME Typed, NEW q \in Calls, call[q] \in CallRecord,
           NEW c \in CallRecord, Shape(c), c.op = call[q].op, c.at = call[q].at,
           call' = [call EXCEPT ![q] = c], UNCHANGED replica
    PROVE  /\ Moves(q) /\ Holds(q)
           /\ call'[q] = c /\ \A p \in Calls \ {q} : call'[p] = call[p]
<1>1. /\ call'[q] = c /\ \A p \in Calls \ {q} : call'[p] = call[p]
      /\ call' \in [Calls -> CallRecord \cup {Idle}]
  BY DEF Typed, TypeOK
<1>2. Moves(q)
  BY <1>1, KinSelf DEF Moves, Typed, TypeOK
<1>3. Holds(q)
  BY <1>1, IdleFacts DEF Holds, Typed, TypeOK, ReplicaRecord
<1> QED
  BY <1>1, <1>2, <1>3

\* A step of a handler on the loop, which keeps the loop or lets others run.
LEMMA LoopMoves ==
    ASSUME Typed, NEW q \in Calls, call[q] \in CallRecord, call[q].op \in OnLoop,
           NEW rep \in ReplicaRecord, NEW l \in {q, None},
           rep.state = replica[call[q].at].state, rep.boot = replica[call[q].at].boot,
           replica' = [replica EXCEPT ![call[q].at] = [rep EXCEPT !.loop = l]],
           NEW c \in CallRecord \cup {Idle}, call' = [call EXCEPT ![q] = c],
           c = Idle => l = None,
           c # Idle => Shape(c) /\ c.op = call[q].op /\ c.at = call[q].at
    PROVE  /\ Moves(q) /\ Holds(q)
           /\ call'[q] = c /\ \A p \in Calls \ {q} : call'[p] = call[p]
<1> DEFINE a == call[q].at
           n == [rep EXCEPT !.loop = l]
<1>1. /\ call'[q] = c /\ \A p \in Calls \ {q} : call'[p] = call[p]
      /\ call' \in [Calls -> CallRecord \cup {Idle}]
  BY DEF Typed, TypeOK
<1>2. Moves(q)
  BY <1>1, KinSelf DEF Moves, Typed, TypeOK
<1>3. a \in Replicas
  BY DEF CallRecord
<1>4. n \in ReplicaRecord /\ n.state = rep.state /\ n.boot = rep.boot /\ n.loop = l
  BY DEF ReplicaRecord
<1>5. replica' = [replica EXCEPT ![a] = n]
  OBVIOUS
<1> HIDE DEF n
<1>6. /\ replica' \in [Replicas -> ReplicaRecord]
      /\ replica'[a] = n
      /\ \A r \in Replicas \ {a} : replica'[r] = replica[r]
  BY <1>3, <1>4, <1>5 DEF Typed, TypeOK
<1>7. \A r \in Replicas \ {a} : replica[r].loop # q
  BY ProjectConfigAssumption DEF Typed, TypeOK
<1> QED
  BY <1>1, <1>2, <1>3, <1>4, <1>6, <1>7 DEF Holds

Events == {"serve", "limits", "withdraw"}

\* An overlap is recorded in the calls it concerns and in no other way.
LEMMA OverlapKin ==
    ASSUME NEW f \in [Calls -> CallRecord \cup {Idle}], NEW q \in Calls,
           NEW S, NEW event \in Events
    PROVE  LET g == Overlap(f, q, S, event) IN
           /\ g \in [Calls -> CallRecord \cup {Idle}]
           /\ g[q] = f[q]
           /\ \A p \in Calls : Kin(f[p], g[p])
           /\ \A p \in Calls \ {q} :
                 \/ f[p].op \in Edits \cup {"serve"} /\ f[p].slot \in S
                 \/ f[p].op = "addLimits"
                 => event \in g[p].raced
<1> DEFINE g == Overlap(f, q, S, event)
<1>1. ASSUME NEW p \in Calls
      PROVE  /\ g[p] \in CallRecord \cup {Idle}
             /\ Kin(f[p], g[p])
             /\ p # q /\ (\/ f[p].op \in Edits \cup {"serve"} /\ f[p].slot \in S
                          \/ f[p].op = "addLimits")
                => event \in g[p].raced
  <2>1. CASE p # q /\ (\/ f[p].op \in Edits \cup {"serve"} /\ f[p].slot \in S
                       \/ f[p].op = "addLimits")
    <3>1. g[p] = [f[p] EXCEPT !.raced = f[p].raced \cup {event}]
      BY <2>1 DEF Overlap
    <3>2. f[p] \in CallRecord
      BY <2>1, IdleFacts DEF Ops, Edits, Servings, Others
    <3>3. g[p] \in CallRecord /\ g[p].raced = f[p].raced \cup {event}
      BY <3>1, <3>2 DEF CallRecord, Events
    <3>4. Kin(f[p], g[p])
      BY <3>1, <3>2, <3>3 DEF CallRecord, Kin
    <3> QED
      BY <3>3, <3>4
  <2>2. CASE ~(p # q /\ (\/ f[p].op \in Edits \cup {"serve"} /\ f[p].slot \in S
                         \/ f[p].op = "addLimits"))
    <3>1. g[p] = f[p]
      BY <2>2 DEF Overlap
    <3> QED
      BY <2>2, <3>1, KinSelf
  <2> QED
    BY <2>1, <2>2
<1>2. g = [p \in Calls |-> g[p]] /\ g[q] = f[q]
  BY DEF Overlap
<1> QED
  BY <1>1, <1>2

\* What the calls that overlap a write of q learn.
Learn(q, S, event) ==
    \A p \in Calls \ {q} :
        \/ call[p].op \in Edits \cup {"serve"} /\ call[p].slot \in S
        \/ call[p].op = "addLimits"
        => event \in call'[p].raced

\* Every step of a call moves that call alone, and holds its own loop at most.
LEMMA StepMoves ==
    ASSUME Typed, NEW q \in Calls, Step(q)
    PROVE  call[q] \in CallRecord /\ Moves(q) /\ Holds(q)
<1> DEFINE c == call[q]
<1>0. c \in CallRecord
  BY RunningCall DEF Step, ReadConfig, CheckBudget, WriteConfig, Serve, ServeDeleted,
     Unserve, OutProject, OutConfigs, Drop, Build, Cleanup, DeleteProject, FindServed,
     SoftDelete, DropLimits, CheckServed, InsertLimits, ValidateRoute, Associate, Fail,
     Points
<1>1. Shape(c) /\ c.at \in Replicas /\ c.raced \in SUBSET Events
  BY <1>0, RunningCall DEF CallRecord, Events
<1>2. CASE Finish(q)
  BY <1>0, <1>2, FinishMoves
<1>3. CASE UNCHANGED replica /\ \E pc \in Points : /\ call' = [call EXCEPT ![q].pc = pc]
                                                   /\ Shape([c EXCEPT !.pc = pc])
  <2>1. PICK pc \in Points : /\ call' = [call EXCEPT ![q].pc = pc]
                             /\ Shape([c EXCEPT !.pc = pc])
    BY <1>3
  <2> DEFINE n == [c EXCEPT !.pc = pc]
  <2>2. n \in CallRecord /\ n.op = c.op /\ n.at = c.at
    BY <1>0 DEF CallRecord
  <2>3. call' = [call EXCEPT ![q] = n]
    BY <2>1
  <2> HIDE DEF n
  <2> QED
    BY <1>0, <1>3, <2>1, <2>2, <2>3, GoMoves DEF n
<1>4. CASE ReadConfig(q)
  <2>1. c.op \in Edits \cup {"serve", "unserve"} /\ c.slot \in Slots
    BY <1>0, <1>1, <1>4, At DEF ReadConfig
  <2>2. CASE Finish(q)
    BY <1>2, <2>2
  <2>3. CASE ~Finish(q)
    <3> DEFINE file == IF c.op \in {"update", "import"} THEN c.file ELSE cfg[c.slot].file
               pc == AfterRead[c.op]
               n == [c EXCEPT !.pc = pc, !.file = file]
    <3>1. call' = [call EXCEPT ![q] = n] /\ UNCHANGED replica
      BY <1>4, <2>3 DEF ReadConfig, Typed, TypeOK
    <3>2. file \in Files
      BY <1>0, <1>1, <2>1 DEF Shape, Typed, TypeOK
    <3>3. pc \in Points /\ pc \in Reaches[c.op] /\ pc # "build"
      BY <2>1 DEF AfterRead, Reaches, Edits, Points
    <3> HIDE DEF pc, file
    <3>4. n \in CallRecord /\ n.op = c.op /\ n.at = c.at /\ n.slot = c.slot
          /\ n.pc = pc /\ n.file = file /\ n.name = c.name
      BY <1>0, <3>2, <3>3 DEF CallRecord
    <3> HIDE DEF n
    <3>5. Shape(n)
      BY <1>1, <2>1, <3>2, <3>3, <3>4 DEF Shape, Edits
    <3> QED
      BY <1>0, <3>1, <3>4, <3>5, GoMoves
  <2> QED
    BY <2>2, <2>3
<1>5. CASE CheckBudget(q)
  <2>1. c.op \in {"update", "import", "approve", "serve"} /\ c.slot \in Slots /\ c.file \in Files
    BY <1>0, <1>1, <1>5, At DEF CheckBudget
  <2>2. CASE GoTo(q, AfterLimits[c.op])
    <3>1. AfterLimits[c.op] \in Points /\ AfterLimits[c.op] \in Reaches[c.op]
          /\ AfterLimits[c.op] \notin {"build", "unserve"}
      BY <2>1 DEF AfterLimits, Reaches, Points
    <3>2. Shape([c EXCEPT !.pc = AfterLimits[c.op]])
      BY <1>0, <1>1, <2>1, <3>1 DEF Shape, CallRecord
    <3> QED
      BY <1>3, <2>2, <3>1, <3>2 DEF GoTo
  <2> QED
    BY <1>2, <1>5, <2>2 DEF CheckBudget
<1>6. CASE WriteConfig(q)
  <2> DEFINE o == IF c.op = "approve" THEN call ELSE Overlap(call, q, {c.slot}, "withdraw")
  <2>1. /\ o \in [Calls -> CallRecord \cup {Idle}]
        /\ \A p \in Calls \ {q} : Kin(call[p], o[p])
    BY OverlapKin, KinSelf DEF Typed, TypeOK, Events
  <2> HIDE DEF o
  <2>2. call' = [o EXCEPT ![q] = Idle] /\ replica' = Freed(q)
    BY <1>6 DEF WriteConfig, o
  <2>3. Moves(q)
    BY <2>1, <2>2 DEF Moves
  <2>4. Holds(q)
    BY <1>0, <2>2, EndHolds DEF Holds, SameBut
  <2> QED
    BY <1>0, <2>3, <2>4
<1>7. CASE Serve(q)
  <2> DEFINE o1 == Overlap(call, q, {c.slot}, "serve")
             o == Overlap(o1, q, ServedSlots \ {c.slot}, "withdraw")
  <2>1. /\ o1 \in [Calls -> CallRecord \cup {Idle}] /\ o1[q] = c
        /\ \A p \in Calls : Kin(call[p], o1[p])
    BY OverlapKin DEF Typed, TypeOK, Events
  <2> HIDE DEF o1
  <2>2. /\ o \in [Calls -> CallRecord \cup {Idle}] /\ o[q] = c
        /\ \A p \in Calls : Kin(o1[p], o[p])
    BY <2>1, OverlapKin DEF Events
  <2> HIDE DEF o
  <2>3. \A p \in Calls : Kin(call[p], o[p])
    BY <2>1, <2>2 DEF Kin
  <2>4. call' = [o EXCEPT ![q].pc = "outProject"] /\ UNCHANGED replica
    BY <1>7 DEF Serve, o, o1
  <2>5. c.op = "serve" /\ c.slot \in Slots
    BY <1>0, <1>1, <1>7, At DEF Serve
  <2>6. /\ call'[q] = [c EXCEPT !.pc = "outProject"]
        /\ \A p \in Calls \ {q} : call'[p] = o[p]
        /\ call' = [p \in Calls |-> call'[p]]
    BY <2>2, <2>4
  <2>7. /\ call'[q] \in CallRecord /\ call'[q].op = c.op /\ call'[q].at = c.at
        /\ Shape(call'[q])
    BY <1>0, <1>1, <2>5, <2>6 DEF CallRecord, Points, Shape, Reaches
  <2>8. Moves(q)
    BY <2>2, <2>3, <2>6, <2>7 DEF Moves
  <2>9. Holds(q)
    BY <2>4, <2>7, IdleFacts DEF Holds, Typed, TypeOK, ReplicaRecord
  <2> QED
    BY <1>0, <2>8, <2>9
<1>8. CASE ServeDeleted(q)
  BY <1>2, <1>8 DEF ServeDeleted
<1>9. CASE Unserve(q)
  <2>1. CASE Finish(q)
    BY <1>2, <2>1
  <2>2. CASE ~Finish(q)
    <3> DEFINE o == Overlap(call, q, {c.slot}, "withdraw")
               pc == IF c.op = "delete" THEN "softConfigs" ELSE "outProject"
    <3>1. /\ o \in [Calls -> CallRecord \cup {Idle}] /\ o[q] = c
          /\ \A p \in Calls : Kin(call[p], o[p])
      BY OverlapKin DEF Typed, TypeOK, Events
    <3>2. call' = [o EXCEPT ![q].pc = pc] /\ UNCHANGED replica
      BY <1>9, <2>2 DEF Unserve
    <3>3. c.op \in {"unserve", "delete"} /\ c.slot \in Slots
      BY <1>0, <1>1, <1>9, At DEF Unserve
    <3>4. pc \in Points /\ pc \in Reaches[c.op] /\ pc \notin {"build", "unserve"}
      BY <3>3 DEF Points, Reaches
    <3> HIDE DEF o, pc
    <3>5. /\ call'[q] = [c EXCEPT !.pc = pc]
          /\ \A p \in Calls \ {q} : call'[p] = o[p]
          /\ call' = [p \in Calls |-> call'[p]]
      BY <3>1, <3>2
    <3>6. /\ call'[q] \in CallRecord /\ call'[q].op = c.op /\ call'[q].at = c.at
          /\ Shape(call'[q])
      BY <1>0, <1>1, <3>3, <3>4, <3>5 DEF CallRecord, Shape
    <3>7. Moves(q)
      BY <3>1, <3>5, <3>6 DEF Moves
    <3>8. Holds(q)
      BY <3>2, <3>6, IdleFacts DEF Holds, Typed, TypeOK, ReplicaRecord
    <3> QED
      BY <1>0, <3>7, <3>8
  <2> QED
    BY <2>1, <2>2
<1>10. CASE OutProject(q)
  <2>1. CASE Finish(q)
    BY <1>2, <2>1
  <2>2. CASE ~Finish(q)
    <3> DEFINE pc == IF c.op = "serve" THEN "outConfigs" ELSE "drop"
               n == [c EXCEPT !.ref = project.ref, !.pc = pc]
    <3>1. call' = [call EXCEPT ![q] = n] /\ UNCHANGED replica
      BY <1>10, <2>2 DEF OutProject, Typed, TypeOK
    <3>2. c.op \in {"serve", "unserve"} /\ project.ref \in Slots \cup {None}
      BY <1>0, <1>1, <1>10, At DEF OutProject, Typed, TypeOK
    <3>3. pc \in Points /\ pc \in Reaches[c.op] /\ pc \notin {"build", "unserve"}
      BY <3>2 DEF Points, Reaches
    <3> HIDE DEF pc
    <3>5. n \in CallRecord /\ n.op = c.op /\ n.at = c.at /\ n.slot = c.slot
          /\ n.pc = pc /\ n.name = c.name
      BY <1>0, <3>2, <3>3 DEF CallRecord
    <3>6. c.op \notin {"update", "import"} /\ pc \notin {"limits", "write", "serve"}
      BY <3>2 DEF pc
    <3>4. Shape(n)
      BY <1>1, <3>3, <3>5, <3>6, ShapeOK
    <3> HIDE DEF n
    <3> QED
      BY <1>0, <3>1, <3>4, <3>5, GoMoves
  <2> QED
    BY <2>1, <2>2
<1>11. CASE OutConfigs(q)
  <2> DEFINE file == IF c.ref = None \/ project.configsGone THEN None ELSE cfg[c.ref].file
             n == [c EXCEPT !.pc = "drop", !.file = file]
  <2>1. call' = [call EXCEPT ![q] = n] /\ UNCHANGED replica
    BY <1>11 DEF OutConfigs, Typed, TypeOK
  <2>2. c.op = "serve" /\ c.slot \in Slots
    BY <1>0, <1>1, <1>11, At DEF OutConfigs, Shape
  <2>3. file \in Files \cup {None}
    BY <1>0 DEF Typed, TypeOK, CallRecord
  <2> HIDE DEF file
  <2>5. n \in CallRecord /\ n.op = c.op /\ n.at = c.at /\ n.slot = c.slot
        /\ n.pc = "drop" /\ n.name = c.name
    BY <1>0, <2>3 DEF CallRecord, Points
  <2>6. "drop" \in Reaches[c.op]
    BY <2>2 DEF Reaches
  <2>4. Shape(n)
    BY <1>1, <2>2, <2>5, <2>6, ShapeOK
  <2> HIDE DEF n
  <2> QED
    BY <1>0, <2>1, <2>4, <2>5, GoMoves
<1>12. CASE Drop(q)
  <2> DEFINE r == c.at
  <2>1. c.op \in Servings /\ c.op \in OnLoop /\ r \in Replicas /\ replica[r] \in ReplicaRecord
    BY <1>0, <1>1, <1>12, At DEF Drop, OnLoop, Typed, TypeOK
  <2>2. Deregistered(replica[r]) \in ReplicaRecord
        /\ Deregistered(replica[r]).state = replica[r].state
        /\ Deregistered(replica[r]).boot = replica[r].boot
    BY <2>1 DEF Deregistered, NoRoutes, ReplicaRecord
  <2>3. CASE c.op = "serve"
    <3> DEFINE rep == Deregistered(replica[r])
               pc == IF c.file # None THEN "build" ELSE "cleanup"
               l == IF c.file # None /\ c.file \in Slow THEN None ELSE q
               n == [c EXCEPT !.pc = pc]
    <3>1. call' = [call EXCEPT ![q] = n]
      BY <1>12, <2>3 DEF Drop
    <3>2. replica' = [replica EXCEPT ![r] = [rep EXCEPT !.loop = l]]
      BY <1>12, <2>3 DEF Drop
    <3>6. l \in {q, None}
      OBVIOUS
    <3>3. pc \in Points /\ pc \in Reaches[c.op] /\ (pc = "build" => c.file \in Files)
          /\ pc # "unserve"
      BY <1>0, <2>3 DEF Points, Reaches, CallRecord
    <3> HIDE DEF pc
    <3>5. n \in CallRecord /\ n.op = c.op /\ n.at = c.at /\ n.slot = c.slot
          /\ n.pc = pc /\ n.file = c.file /\ n.name = c.name
      BY <1>0, <3>3 DEF CallRecord
    <3> HIDE DEF n, rep, l
    <3>7. c.op \notin {"update", "import"} /\ pc \notin {"limits", "write", "serve"}
      BY <2>3 DEF pc
    <3>4. n \in CallRecord /\ n.op = c.op /\ n.at = c.at /\ Shape(n)
      BY <1>1, <3>3, <3>5, <3>7, ShapeOK
    <3>8. n # Idle
      BY <3>4, IdleFacts
    <3> QED
      BY <1>0, <2>1, <2>2, <3>1, <3>2, <3>4, <3>6, <3>8, LoopMoves DEF rep
  <2>4. CASE c.op # "serve"
    <3> DEFINE rep == Deregistered(replica[r])
    <3>1. /\ call' = [call EXCEPT ![q] = Idle]
          /\ replica' = [replica EXCEPT ![r] = [rep EXCEPT !.loop = None]]
      BY <1>12, <2>4 DEF Drop
    <3> HIDE DEF rep
    <3> QED
      BY <1>0, <2>1, <2>2, <3>1, LoopMoves DEF rep
  <2> QED
    BY <2>3, <2>4
<1>13. CASE Build(q)
  <2> DEFINE r == c.at
             rep == Registered(replica[r], c.file)
             n == [c EXCEPT !.pc = "cleanup"]
  <2>1. c.op = "serve" /\ c.op \in OnLoop /\ r \in Replicas
        /\ replica[r] \in ReplicaRecord /\ c.file \in Files
    BY <1>0, <1>1, <1>13, At DEF Build, OnLoop, Servings, Typed, TypeOK, Shape
  <2>2. rep \in ReplicaRecord /\ rep.state = replica[r].state /\ rep.boot = replica[r].boot
    BY <2>1 DEF Registered, ReplicaRecord
  <2>3. /\ call' = [call EXCEPT ![q] = n]
        /\ replica' = [replica EXCEPT ![r] = [rep EXCEPT !.loop = q]]
    BY <1>13 DEF Build
  <2> HIDE DEF rep
  <2>4. n \in CallRecord /\ n.op = c.op /\ n.at = c.at /\ n.slot = c.slot
        /\ n.pc = "cleanup" /\ n.file = c.file /\ n.name = c.name
    BY <1>0 DEF CallRecord, Points
  <2>5. "cleanup" \in Reaches[c.op]
    BY <2>1 DEF Reaches
  <2>6. Shape(n) /\ n # Idle
    BY <1>1, <2>1, <2>4, <2>5, ShapeOK, IdleFacts
  <2> HIDE DEF n
  <2> QED
    BY <1>0, <2>1, <2>2, <2>3, <2>4, <2>6, LoopMoves
<1>14. CASE Cleanup(q)
  BY <1>2, <1>14 DEF Cleanup
<1>15. CASE DeleteProject(q)
  <2>1. CASE Finish(q)
    BY <1>2, <2>1
  <2>2. CASE ~Finish(q)
    <3> DEFINE n == [c EXCEPT !.pc = "findServed", !.ref = project.ref]
    <3>1. call' = [call EXCEPT ![q] = n] /\ UNCHANGED replica
      BY <1>15, <2>2 DEF DeleteProject, Typed, TypeOK
    <3>2. c.op = "delete" /\ project.ref \in Slots \cup {None}
      BY <1>0, <1>1, <1>15, At DEF DeleteProject, Typed, TypeOK
    <3>3. n \in CallRecord /\ n.op = c.op /\ n.at = c.at /\ n.slot = c.slot
          /\ n.pc = "findServed" /\ n.name = c.name
      BY <1>0, <3>2 DEF CallRecord, Points
    <3> HIDE DEF n
    <3>4. "findServed" \in Reaches[c.op]
      BY <3>2 DEF Reaches
    <3>5. Shape(n)
      BY <1>1, <3>2, <3>3, <3>4, ShapeOK
    <3> QED
      BY <1>0, <3>1, <3>3, <3>5, GoMoves
  <2> QED
    BY <2>1, <2>2
<1>16. CASE FindServed(q)
  <2>1. c.op = "delete"
    BY <1>0, <1>1, <1>16, At DEF FindServed
  <2>2. ASSUME NEW s \in ServedSlots,
               call' = [call EXCEPT ![q].pc = "unserve", ![q].slot = s]
        PROVE  Moves(q) /\ Holds(q)
    <3> DEFINE n == [c EXCEPT !.pc = "unserve", !.slot = s]
    <3>1. call' = [call EXCEPT ![q] = n] /\ UNCHANGED replica /\ s \in Slots
      BY <1>16, <2>2 DEF FindServed, Typed, TypeOK, ServedSlots
    <3>2. n \in CallRecord /\ n.op = c.op /\ n.at = c.at /\ n.slot = s
          /\ n.pc = "unserve"
      BY <1>0, <3>1 DEF CallRecord, Points
    <3> HIDE DEF n
    <3>3. Shape(n)
      BY <2>1, <3>1, <3>2 DEF Shape, Reaches, Edits
    <3> QED
      BY <1>0, <3>1, <3>2, <3>3, GoMoves
  <2>3. CASE call' = [call EXCEPT ![q].pc = "softConfigs"]
    <3>1. Shape([c EXCEPT !.pc = "softConfigs"]) /\ "softConfigs" \in Points
      BY <1>0, <1>1, <2>1 DEF Shape, Reaches, Points, CallRecord
    <3> QED
      BY <1>3, <1>16, <2>3, <3>1 DEF FindServed
  <2> QED
    BY <1>0, <1>16, <2>2, <2>3 DEF FindServed
<1>17. CASE SoftDelete(q)
  <2>1. c.op = "delete"
    BY <1>0, <1>1, <1>17, At DEF SoftDelete
  <2>2. ASSUME NEW pc \in {"softProject", "dropLimits"}
        PROVE  Shape([c EXCEPT !.pc = pc]) /\ pc \in Points
    BY <1>0, <1>1, <2>1 DEF Shape, Reaches, Points, CallRecord
  <2> QED
    BY <1>3, <1>17, <2>2 DEF SoftDelete
<1>18. CASE DropLimits(q)
  <2>1. c.op = "delete" /\ c.op \in OnLoop
    BY <1>0, <1>1, <1>18, At DEF DropLimits, OnLoop, Servings
  <2>2. CASE Finish(q)
    BY <1>2, <2>2
  <2>3. CASE ~Finish(q)
    <3> DEFINE n == [c EXCEPT !.pc = "drop"]
    <3>1. call' = [call EXCEPT ![q] = n]
          /\ replica' = IF limits THEN Freed(q) ELSE replica
      BY <1>18, <2>3 DEF DropLimits
    <3>2. n \in CallRecord /\ n.op = c.op /\ n.at = c.at /\ Shape(n)
      BY <1>0, <1>1, <2>1 DEF Shape, Reaches, Points, CallRecord
    <3> HIDE DEF n
    <3>3. CASE ~limits
      BY <1>0, <3>1, <3>2, <3>3, GoMoves
    <3>4. CASE limits
      <4>1. /\ call'[q] = n /\ \A p \in Calls \ {q} : call'[p] = call[p]
            /\ call' \in [Calls -> CallRecord \cup {Idle}]
        BY <3>1, <3>2 DEF Typed, TypeOK
      <4>2. Moves(q)
        BY <3>2, <4>1, KinSelf DEF Moves, Typed, TypeOK
      <4>3. Holds(q)
        BY <1>0, <3>1, <3>4, EndHolds DEF Holds, SameBut
      <4> QED
        BY <1>0, <4>2, <4>3
    <3> QED
      BY <3>3, <3>4
  <2> QED
    BY <2>2, <2>3
<1>19. CASE CheckServed(q)
  <2>1. c.op = "addLimits"
    BY <1>0, <1>1, <1>19, At DEF CheckServed
  <2>2. Shape([c EXCEPT !.pc = "insert"]) /\ "insert" \in Points
    BY <1>0, <1>1, <2>1 DEF Shape, Reaches, Points, CallRecord
  <2> QED
    BY <1>2, <1>3, <1>19, <2>2 DEF CheckServed, GoTo
<1>20. CASE InsertLimits(q)
  <2> DEFINE o == Overlap(call, q, Slots, "limits")
  <2>1. /\ o \in [Calls -> CallRecord \cup {Idle}]
        /\ \A p \in Calls \ {q} : Kin(call[p], o[p])
    BY OverlapKin DEF Typed, TypeOK, Events
  <2>2. call' = [o EXCEPT ![q] = Idle] /\ replica' = Freed(q)
    BY <1>20 DEF InsertLimits
  <2> HIDE DEF o
  <2>3. Moves(q)
    BY <2>1, <2>2 DEF Moves
  <2>4. Holds(q)
    BY <1>0, <2>2, EndHolds DEF Holds, SameBut
  <2> QED
    BY <1>0, <2>3, <2>4
<1>21. CASE ValidateRoute(q)
  <2>1. c.op \in {"addGroups", "removeGroups"}
    BY <1>0, <1>1, <1>21, At DEF ValidateRoute
  <2>2. Shape([c EXCEPT !.pc = "associate"]) /\ "associate" \in Points
    BY <1>0, <1>1, <2>1 DEF Shape, Reaches, Points, CallRecord
  <2> QED
    BY <1>2, <1>3, <1>21, <2>2 DEF ValidateRoute, GoTo
<1>22. CASE Associate(q)
  BY <1>2, <1>22 DEF Associate
<1>23. CASE Fail(q)
  BY <1>2, <1>23 DEF Fail
<1> QED
  BY <1>4, <1>5, <1>6, <1>7, <1>8, <1>9, <1>10, <1>11, <1>12, <1>13, <1>14, <1>15,
     <1>16, <1>17, <1>18, <1>19, <1>20, <1>21, <1>22, <1>23 DEF Step

-----------------------------------------------------------------------------
(* The types are kept.                                                       *)

LEMMA InitTyped == Init => Typed
<1> SUFFICES ASSUME Init PROVE Typed
  OBVIOUS
<1>1. PICK status \in [Slots -> {Draft, Ready}] :
         cfg = [s \in Slots |-> [status |-> status[s], file |-> Contents[s]]]
  BY DEF Init
<1>2. cfg \in [Slots -> [status : Status, file : Files]]
  BY <1>1, ProjectConfigAssumption DEF Status
<1>3. approved \in [Slots -> Files \cup {None}]
  BY <1>2 DEF Init
<1>4. NewProcess("up") \in ReplicaRecord /\ NewProcess("up").loop = None
      /\ NewProcess("up").boot = None
  BY DEF NewProcess, NoRoutes, ReplicaRecord
<1>5. started \in 0..MaxCalls /\ crashes \in 0..MaxCrashes
  BY ProjectConfigAssumption DEF Init
<1>6. lapses \in LapsesRecord
  BY DEF Init, LapsesRecord
<1> QED
  BY <1>2, <1>3, <1>4, <1>5, <1>6, IdleFacts DEF Init, Typed, TypeOK

LEMMA WithdrawnType ==
    ASSUME Typed, NEW rows
    PROVE  Withdrawn(rows) \in [Slots -> Files \cup {None}]
  BY DEF Withdrawn, Typed, TypeOK

\* Every step of a call keeps the types of the data.
LEMMA StepData ==
    ASSUME Typed, NEW q \in Calls, Step(q)
    PROVE  DataTypes' /\ UNCHANGED <<started, crashes>>
<1> DEFINE c == call[q]
<1>0. c \in CallRecord /\ Shape(c)
  BY StepMoves, RunningCall
<1>1. DataTypes
  BY DEF DataTypes, Typed, TypeOK
<1>2. PassedBy(q) \subseteq Replicas /\ c.at \in Replicas
  BY <1>0 DEF PassedBy, CallRecord
<1>3. CASE WriteConfig(q)
  <2> DEFINE rows == IF project.configsGone THEN cfg
                     ELSE [cfg EXCEPT ![c.slot] = EditedRow(c)]
  <2>1. c.op \in Edits /\ c.slot \in Slots /\ (c.op # "cancel" => c.file \in Files)
    BY <1>0, <1>3, At DEF WriteConfig
  <2>2. EditedRow(c) \in [status : Status, file : Files]
    BY <1>1, <2>1 DEF EditedRow, NewStatus, Status, Edits, DataTypes
  <2>3. rows \in [Slots -> [status : Status, file : Files]] /\ cfg' = rows
    BY <1>1, <1>3, <2>1, <2>2 DEF WriteConfig, DataTypes
  <2>4. approved' \in [Slots -> Files \cup {None}]
    <3>1. CASE c.op = "approve" /\ ~project.configsGone
      BY <1>1, <1>3, <2>1, <3>1 DEF WriteConfig, DataTypes
    <3>2. CASE ~(c.op = "approve" /\ ~project.configsGone)
      BY <1>3, <3>2, WithdrawnType DEF WriteConfig
    <3> QED
      BY <3>1, <3>2
  <2>5. lapses' \in LapsesRecord
    <3>1. CASE project.configsGone
      BY <1>1, <1>3, <3>1 DEF WriteConfig, DataTypes
    <3>2. CASE ~project.configsGone
      <4> DEFINE a == IF c.op # "approve" THEN lapses.approval
                      ELSE IF "withdraw" \in c.raced THEN lapses.approval \cup {c.slot}
                      ELSE lapses.approval \ {c.slot}
                 b == lapses.budget \/ (c.op \in {"update", "import"}
                         /\ "limits" \in c.raced /\ c.file \in Budgeted)
                 t == lapses.status \cup {x \in {c.slot} : cfg[x].status = Served
                                                           /\ "serve" \in c.raced}
      <4>1. lapses' = [lapses EXCEPT !.status = t, !.approval = a, !.budget = b]
        BY <1>3, <3>2 DEF WriteConfig
      <4>2. a \in SUBSET Slots /\ b \in BOOLEAN /\ t \in SUBSET Slots
        BY <1>1, <2>1 DEF DataTypes, LapsesRecord
      <4> HIDE DEF a, b, t
      <4> QED
        BY <1>1, <4>1, <4>2 DEF DataTypes, LapsesRecord
    <3> QED
      BY <3>1, <3>2
  <2> QED
    BY <1>1, <1>3, <2>3, <2>4, <2>5 DEF WriteConfig, DataTypes
<1>4. CASE Serve(q)
  <2>1. c.slot \in Slots
    BY <1>0, <1>4, At DEF Serve
  <2>2. cfg' \in [Slots -> [status : Status, file : Files]]
    BY <1>1, <1>4 DEF Serve, ServedRows, DataTypes, Status
  <2>3. project' \in [ref : Slots \cup {None}, gone : BOOLEAN, configsGone : BOOLEAN]
    BY <1>1, <1>4, <2>1 DEF Serve, DataTypes
  <2>4. lapses' \in LapsesRecord
    <3> DEFINE a == IF "withdraw" \in c.raced THEN lapses.approval \cup {c.slot}
                    ELSE lapses.approval
               b == lapses.budget \/ ("limits" \in c.raced /\ cfg[c.slot].file \in Budgeted)
               t == lapses.status \ {c.slot}
               u == (lapses.routes \ {c.at}) \cup PassedBy(q)
    <3>1. lapses' = [lapses EXCEPT !.status = t, !.approval = a, !.routes = u, !.budget = b]
      BY <1>4 DEF Serve
    <3>2. a \in SUBSET Slots /\ b \in BOOLEAN /\ t \in SUBSET Slots /\ u \in SUBSET Replicas
      BY <1>1, <1>2, <2>1 DEF DataTypes, LapsesRecord
    <3> HIDE DEF a, b, t, u
    <3> QED
      BY <1>1, <3>1, <3>2 DEF DataTypes, LapsesRecord
  <2>5. approved' \in [Slots -> Files \cup {None}]
    BY <1>4, WithdrawnType DEF Serve
  <2> QED
    BY <1>1, <1>4, <2>2, <2>3, <2>4, <2>5 DEF Serve, DataTypes
<1>5. CASE Unserve(q)
  <2>1. c.slot \in Slots
    BY <1>0, <1>5, At DEF Unserve
  <2>2. cfg' \in [Slots -> [status : Status, file : Files]]
    BY <1>1, <1>5 DEF Unserve, DataTypes, Status
  <2>3. project' \in [ref : Slots \cup {None}, gone : BOOLEAN, configsGone : BOOLEAN]
    BY <1>1, <1>5 DEF Unserve, DataTypes
  <2>4. lapses' \in LapsesRecord
    BY <1>1, <1>2, <1>5 DEF Unserve, DataTypes, LapsesRecord
  <2>5. approved' \in [Slots -> Files \cup {None}]
    BY <1>5, WithdrawnType DEF Unserve
  <2> QED
    BY <1>1, <1>5, <2>2, <2>3, <2>4, <2>5 DEF Unserve, DataTypes
<1>6. CASE SoftDelete(q)
  <2>1. project' \in [ref : Slots \cup {None}, gone : BOOLEAN, configsGone : BOOLEAN]
    BY <1>1, <1>6 DEF SoftDelete, DataTypes
  <2>2. lapses' \in LapsesRecord
    BY <1>1, <1>2, <1>6 DEF SoftDelete, DataTypes, LapsesRecord
  <2> QED
    BY <1>1, <1>6, <2>1, <2>2 DEF SoftDelete, DataTypes
<1>7. CASE InsertLimits(q)
  <2>1. lapses' \in LapsesRecord
    BY <1>1, <1>7 DEF InsertLimits, DataTypes, LapsesRecord
  <2> QED
    BY <1>1, <1>7, <2>1 DEF InsertLimits, DataTypes
<1>8. CASE OutProject(q) \/ Fail(q)
  <2>1. lapses' \in LapsesRecord
    BY <1>1, <1>2, <1>8 DEF OutProject, Fail, DataTypes, LapsesRecord
  <2> QED
    BY <1>1, <1>8, <2>1 DEF OutProject, Fail, DataTypes
<1>9. CASE Associate(q)
  <2>1. c.name \in Names
    BY <1>0, <1>9, At DEF Associate
  <2> QED
    BY <1>1, <1>9, <2>1 DEF Associate, DataTypes
<1>10. CASE Cleanup(q)
  BY <1>1, <1>10 DEF Cleanup, DataTypes
<1>11. CASE DropLimits(q)
  BY <1>1, <1>11 DEF DropLimits, DataTypes
<1>12. CASE \/ ReadConfig(q) \/ CheckBudget(q) \/ ServeDeleted(q) \/ OutConfigs(q)
            \/ Drop(q) \/ Build(q) \/ DeleteProject(q) \/ FindServed(q)
            \/ CheckServed(q) \/ ValidateRoute(q)
  BY <1>1, <1>12 DEF ReadConfig, CheckBudget, ServeDeleted, OutConfigs, Drop, Build,
     DeleteProject, FindServed, CheckServed, ValidateRoute, DataTypes
<1>13. UNCHANGED <<started, crashes>>
  BY DEF Step, ReadConfig, CheckBudget, WriteConfig, Serve, ServeDeleted,
     Unserve, OutProject, OutConfigs, Drop, Build, Cleanup, DeleteProject, FindServed,
     SoftDelete, DropLimits, CheckServed, InsertLimits, ValidateRoute, Associate, Fail
<1> QED
  BY <1>3, <1>4, <1>5, <1>6, <1>7, <1>8, <1>9, <1>10, <1>11, <1>12, <1>13 DEF Step

LEMMA StepTyped ==
    ASSUME Typed, NEW q \in Calls, Step(q)
    PROVE  Typed'
  BY StepMoves, StepData, MoveTyped

\* A call that begins, as every kind of request begins one.
Begins(q, r) ==
    \E op \in Ops, s \in Slots \cup {None}, f \in Files \cup {None},
       n \in Names \cup {None} :
        /\ Begin(q, op, s, f, n, r)
        /\ op \in Edits \cup {"serve", "unserve"} => s \in Slots
        /\ op \notin Edits \cup {"serve", "unserve"} => s = None
        /\ op \in {"update", "import"} => f \in Files
        /\ op \in {"addGroups", "removeGroups"} => n \in Names

LEMMA BeginIs ==
    ASSUME NEW q \in Calls, NEW r \in Replicas, BeginSome(q, r)
    PROVE  Begins(q, r)
<1>1. ASSUME NEW s \in Slots, NEW f \in Files, NEW op \in {"update", "import"},
             Begin(q, op, s, f, None, r)
      PROVE  Begins(q, r)
  <2>1. op \in Ops /\ op \in Edits
    BY DEF Ops, Edits
  <2> QED
    BY <1>1, <2>1 DEF Begins
<1>2. ASSUME NEW s \in Slots, NEW op \in {"approve", "cancel", "serve", "unserve"},
             Begin(q, op, s, None, None, r)
      PROVE  Begins(q, r)
  <2>1. op \in Ops /\ op \in Edits \cup {"serve", "unserve"} /\ op \notin {"update", "import"}
        /\ op \notin {"addGroups", "removeGroups"}
    BY DEF Ops, Edits, Servings
  <2> QED
    BY <1>2, <2>1 DEF Begins
<1>3. ASSUME NEW op \in {"delete", "addLimits"}, Begin(q, op, None, None, None, r)
      PROVE  Begins(q, r)
  <2>1. op \in Ops /\ op \notin Edits \cup {"serve", "unserve"} /\ op \notin {"update", "import"}
        /\ op \notin {"addGroups", "removeGroups"}
    BY DEF Ops, Edits, Servings, Others
  <2> QED
    BY <1>3, <2>1 DEF Begins
<1>4. ASSUME NEW n \in Names, NEW op \in {"addGroups", "removeGroups"},
             Begin(q, op, None, None, n, r)
      PROVE  Begins(q, r)
  <2>1. op \in Ops /\ op \notin Edits \cup {"serve", "unserve"} /\ op \notin {"update", "import"}
    BY DEF Ops, Edits, Servings, Others
  <2> QED
    BY <1>4, <2>1 DEF Begins
<1> QED
  BY <1>1, <1>2, <1>3, <1>4 DEF BeginSome

\* The call that begins is at its first step, and nothing else moves.
LEMMA BeginMoves ==
    ASSUME Typed, NEW q \in Calls, NEW r \in Replicas, BeginSome(q, r)
    PROVE  /\ call[q] = Idle
           /\ call' \in [Calls -> CallRecord \cup {Idle}]
           /\ \A p \in Calls \ {q} : call'[p] = call[p]
           /\ call'[q] \in CallRecord /\ Shape(call'[q])
           /\ call'[q].at = r /\ replica[r].state = "up"
           /\ call'[q].pc = First[call'[q].op]
           /\ call'[q].op = "delete" => call'[q].slot = None
           /\ \A a \in Replicas :
                 /\ replica'[a] \in ReplicaRecord
                 /\ SameBut(replica[a], replica'[a])
                 /\ \/ replica'[a].loop = replica[a].loop
                    \/ replica'[a].loop = q /\ a = r /\ call'[q].op \in OnLoop
           /\ replica' \in [Replicas -> ReplicaRecord]
           /\ UNCHANGED <<cfg, project, limits, groups, crashes, approved, lapses>>
           /\ started < MaxCalls /\ started' = started + 1
<1>1. PICK op \in Ops, s \in Slots \cup {None}, f \in Files \cup {None},
           n \in Names \cup {None} :
        /\ Begin(q, op, s, f, n, r)
        /\ op \in Edits \cup {"serve", "unserve"} => s \in Slots
        /\ op \notin Edits \cup {"serve", "unserve"} => s = None
        /\ op \in {"update", "import"} => f \in Files
        /\ op \in {"addGroups", "removeGroups"} => n \in Names
  BY BeginIs DEF Begins
<1> DEFINE c == [op |-> op, pc |-> First[op], at |-> r, slot |-> s, file |-> f,
                 name |-> n, ref |-> None, raced |-> {}]
<1>2. call' = [call EXCEPT ![q] = c]
  BY <1>1 DEF Begin
<1>3. First[op] \in Points /\ First[op] \in Reaches[op]
      /\ (op \in {"approve", "serve"} => First[op] = "read")
      /\ First[op] \notin {"unserve", "build"}
  BY DEF First, Points, Reaches, Ops, Edits, Servings, Others
<1>4. c \in CallRecord
  BY <1>3 DEF CallRecord
<1>5. Shape(c)
  BY <1>1, <1>3 DEF Shape
<1>6. op = "delete" => s = None
  BY <1>1 DEF Edits
<1>7. /\ c.op = op /\ c.pc = First[op] /\ c.at = r /\ c.slot = s
  OBVIOUS
<1> HIDE DEF c
<1>8. /\ call' \in [Calls -> CallRecord \cup {Idle}]
      /\ \A p \in Calls \ {q} : call'[p] = call[p]
      /\ call'[q] = c
  BY <1>2, <1>4 DEF Typed, TypeOK
<1> DEFINE l == IF op \in OnLoop THEN q ELSE replica[r].loop
<1>9. replica' = [replica EXCEPT ![r].loop = l] /\ replica[r] \in ReplicaRecord
  BY <1>1 DEF Begin, Typed, TypeOK
<1>10. /\ l \in Calls \cup {None}
       /\ \/ l = replica[r].loop
          \/ l = q /\ op \in OnLoop
  BY <1>9 DEF ReplicaRecord
<1> HIDE DEF l
<1>11. ASSUME NEW a \in Replicas
       PROVE  /\ replica'[a] \in ReplicaRecord
              /\ SameBut(replica[a], replica'[a])
              /\ \/ replica'[a].loop = replica[a].loop
                 \/ replica'[a].loop = q /\ a = r /\ op \in OnLoop
  <2>1. replica[a] \in ReplicaRecord
    BY DEF Typed, TypeOK
  <2>2. CASE a = r
    <3>1. replica'[a] = [replica[a] EXCEPT !.loop = l]
      BY <1>9, <2>2 DEF Typed, TypeOK
    <3> QED
      BY <1>10, <2>1, <2>2, <3>1 DEF ReplicaRecord, SameBut
  <2>3. CASE a # r
    BY <1>9, <2>1, <2>3 DEF Typed, TypeOK, SameBut
  <2> QED
    BY <2>2, <2>3
<1>12. replica' \in [Replicas -> ReplicaRecord]
  BY <1>9, <1>10, <1>11 DEF Typed, TypeOK
<1> QED
  BY <1>1, <1>4, <1>5, <1>6, <1>7, <1>8, <1>11, <1>12 DEF Begin

LEMMA BeginTyped ==
    ASSUME Typed, NEW q \in Calls, NEW r \in Replicas, BeginSome(q, r)
    PROVE  Typed'
<1>1. started' \in 0..MaxCalls /\ crashes' \in 0..MaxCrashes
  BY BeginMoves, ProjectConfigAssumption DEF Typed, TypeOK
<1>2. ASSUME NEW a \in Replicas, replica'[a].loop # None
      PROVE  LET p == replica'[a].loop IN call'[p].at = a /\ call'[p].op \in OnLoop
  <2> DEFINE p == replica'[a].loop
  <2>1. CASE p = q /\ a = r /\ call'[q].op \in OnLoop
    BY <2>1, BeginMoves
  <2>2. CASE p = replica[a].loop
    <3>1. call[p].at = a /\ call[p].op \in OnLoop /\ p \in Calls
      BY <1>2, <2>2 DEF Typed, TypeOK, ReplicaRecord
    <3>2. p # q
      BY <3>1, BeginMoves, IdleFacts
    <3> QED
      BY <3>1, <3>2, BeginMoves
  <2> QED
    BY <2>1, <2>2, BeginMoves
<1>3. TypeOK'
  BY <1>1, <1>2, BeginMoves DEF Typed, TypeOK
<1>4. ASSUME NEW p \in Calls, Running(call'[p])
      PROVE  call'[p] \in CallRecord /\ Shape(call'[p])
             /\ replica'[call'[p].at].state = "up"
  <2>1. CASE p = q
    BY <2>1, BeginMoves DEF SameBut
  <2>2. CASE p # q
    <3>1. call'[p] = call[p]
      BY <2>2, BeginMoves
    <3>2. call[p] \in CallRecord /\ Shape(call[p]) /\ replica[call[p].at].state = "up"
      BY <1>4, <3>1, RunningCall
    <3>3. replica'[call[p].at].state = "up"
      BY <3>2, BeginMoves DEF SameBut, CallRecord
    <3> QED
      BY <3>1, <3>2, <3>3
  <2> QED
    BY <2>1, <2>2
<1>5. \A a \in Replicas : replica'[a].state = "up" => replica'[a].boot = None
  BY BeginMoves DEF SameBut, Typed
<1> QED
  BY <1>3, <1>4, <1>5 DEF Typed

\* A process that stops takes its calls with it.
LEMMA CrashTyped ==
    ASSUME Typed, NEW r \in Replicas, Crash(r)
    PROVE  /\ Typed'
           /\ \A q \in Calls : \/ call'[q] = Idle
                               \/ call'[q] = call[q] /\ call[q].at # r
           /\ replica'[r].state = "down"
           /\ \A a \in Replicas \ {r} : replica'[a] = replica[a]
           /\ UNCHANGED <<cfg, project, limits, approved>>
           /\ lapses' = [lapses EXCEPT !.routes = @ \ {r}]
<1>1. NewProcess("down") \in ReplicaRecord /\ NewProcess("down").loop = None
      /\ NewProcess("down").state = "down"
  BY DEF NewProcess, NoRoutes, ReplicaRecord
<1>2. /\ replica' \in [Replicas -> ReplicaRecord]
      /\ replica'[r] = NewProcess("down")
      /\ \A a \in Replicas \ {r} : replica'[a] = replica[a]
  BY <1>1 DEF Crash, Typed, TypeOK
<1>3. /\ call' \in [Calls -> CallRecord \cup {Idle}]
      /\ \A q \in Calls : \/ call'[q] = Idle
                          \/ call'[q] = call[q] /\ call[q].at # r
  BY IdleFacts DEF Crash, Typed, TypeOK
<1>4. lapses' \in LapsesRecord
  BY DEF Crash, Typed, TypeOK, LapsesRecord
<1>5. crashes' \in 0..MaxCrashes
  BY ProjectConfigAssumption DEF Crash, Typed, TypeOK
<1>6. ASSUME NEW a \in Replicas, replica'[a].loop # None
      PROVE  LET p == replica'[a].loop IN call'[p].at = a /\ call'[p].op \in OnLoop
  <2>1. a # r /\ replica'[a] = replica[a]
    BY <1>1, <1>2, <1>6
  <2>2. replica[a].loop \in Calls /\ call[replica[a].loop].at = a
        /\ call[replica[a].loop].op \in OnLoop
    BY <1>6, <2>1 DEF Typed, TypeOK, ReplicaRecord
  <2>3. call'[replica[a].loop] = call[replica[a].loop]
    BY <2>1, <2>2, ProjectConfigAssumption DEF Crash
  <2> QED
    BY <2>1, <2>2, <2>3
<1>7. TypeOK'
  BY <1>2, <1>3, <1>4, <1>5, <1>6 DEF Crash, Typed, TypeOK
<1>8. ASSUME NEW p \in Calls, Running(call'[p])
      PROVE  call'[p] \in CallRecord /\ Shape(call'[p])
             /\ replica'[call'[p].at].state = "up"
  <2>1. call'[p] = call[p] /\ call[p].at # r
    BY <1>3, <1>8, IdleFacts
  <2>2. call[p] \in CallRecord /\ Shape(call[p]) /\ replica[call[p].at].state = "up"
    BY <1>8, <2>1, RunningCall
  <2> QED
    BY <1>2, <2>1, <2>2 DEF CallRecord
<1>9. \A a \in Replicas : replica'[a].state = "up" => replica'[a].boot = None
  BY <1>1, <1>2 DEF Typed
<1> QED
  BY <1>1, <1>2, <1>3, <1>7, <1>8, <1>9 DEF Typed, Crash

LEMMA ServedFileType ==
    ASSUME Typed
    PROVE  /\ ServedFile \in Files \cup {None}
           /\ ServedFile # None => project.ref \in Slots
  BY DEF Typed, TypeOK, ServedFile

\* A process that starts has no calls, and others are as they were.
LEMMA StartTyped ==
    ASSUME Typed, NEW r \in Replicas, Boot(r) \/ Open(r)
    PROVE  /\ Typed'
           /\ \A q \in Calls : call[q].at # r
           /\ \A a \in Replicas \ {r} : replica'[a] = replica[a]
           /\ Boot(r) => replica'[r].state = "booting" /\ replica'[r].boot = ServedFile
           /\ Open(r) => /\ replica[r].state = "booting" /\ replica'[r].state = "up"
                         /\ replica'[r].routes = RoutesFor(replica[r].boot)
                         /\ replica'[r].entry = replica[r].boot
           /\ UNCHANGED <<cfg, project, limits, call, approved, lapses>>
<1>1. \A q \in Calls : call[q].at # r
  BY RunningCall DEF Boot, Open
<1>2. CASE Boot(r)
  <2> DEFINE n == [NewProcess("booting") EXCEPT !.boot = ServedFile]
  <2>1. n \in ReplicaRecord /\ n.loop = None /\ n.state = "booting" /\ n.boot = ServedFile
    BY ServedFileType DEF NewProcess, NoRoutes, ReplicaRecord
  <2>2. replica' = [replica EXCEPT ![r] = n]
    BY <1>2 DEF Boot
  <2> HIDE DEF n
  <2>3. /\ replica' \in [Replicas -> ReplicaRecord]
        /\ replica'[r] = n /\ \A a \in Replicas \ {r} : replica'[a] = replica[a]
    BY <2>1, <2>2 DEF Typed, TypeOK
  <2>4. TypeOK'
    BY ZenonT(60), <1>2, <2>1, <2>3 DEF Boot, Typed, TypeOK
  <2>5. ASSUME NEW p \in Calls, Running(call'[p])
        PROVE  call'[p] \in CallRecord /\ Shape(call'[p])
               /\ replica'[call'[p].at].state = "up"
    BY <1>1, <1>2, <2>3, <2>5, RunningCall DEF Boot, CallRecord
  <2>6. \A a \in Replicas : replica'[a].state = "up" => replica'[a].boot = None
    BY <2>1, <2>3 DEF Typed
  <2> QED
    BY <1>1, <1>2, <2>1, <2>3, <2>4, <2>5, <2>6 DEF Typed, Boot, Open
<1>3. CASE Open(r)
  <2> DEFINE f == replica[r].boot
             n == IF f = None THEN NewProcess("up") ELSE Registered(NewProcess("up"), f)
  <2>1. f \in Files \cup {None}
    BY DEF Typed, TypeOK, ReplicaRecord
  <2>2. n \in ReplicaRecord /\ n.loop = None /\ n.state = "up" /\ n.boot = None
        /\ n.routes = RoutesFor(f) /\ n.entry = f
    <3>1. CASE f = None
      BY <3>1 DEF NewProcess, NoRoutes, ReplicaRecord, RoutesFor
    <3>2. CASE f # None
      BY <2>1, <3>2 DEF NewProcess, NoRoutes, ReplicaRecord, RoutesFor, Registered
    <3> QED
      BY <3>1, <3>2
  <2>3. replica' = [replica EXCEPT ![r] = n]
    BY <1>3 DEF Open
  <2> HIDE DEF n
  <2>4. /\ replica' \in [Replicas -> ReplicaRecord]
        /\ replica'[r] = n /\ \A a \in Replicas \ {r} : replica'[a] = replica[a]
    BY <2>2, <2>3 DEF Typed, TypeOK
  <2>5. TypeOK'
    BY <1>3, <2>2, <2>4 DEF Open, Typed, TypeOK
  <2>6. ASSUME NEW p \in Calls, Running(call'[p])
        PROVE  call'[p] \in CallRecord /\ Shape(call'[p])
               /\ replica'[call'[p].at].state = "up"
    BY <1>1, <1>3, <2>4, <2>6, RunningCall DEF Open, CallRecord
  <2>7. \A a \in Replicas : replica'[a].state = "up" => replica'[a].boot = None
    BY <2>2, <2>4 DEF Typed
  <2>8. replica'[r].routes = RoutesFor(f) /\ replica'[r].entry = f
    BY <2>2, <2>4
  <2> QED
    BY <1>1, <1>3, <2>2, <2>4, <2>5, <2>6, <2>7, <2>8 DEF Typed, Boot, Open
<1> QED
  BY <1>2, <1>3

LEMMA NextTyped == Typed /\ [Next]_vars => Typed'
<1> SUFFICES ASSUME Typed, [Next]_vars PROVE Typed'
  OBVIOUS
<1>1. ASSUME NEW q \in Calls, NEW r \in Replicas, BeginSome(q, r) PROVE Typed'
  BY <1>1, BeginTyped
<1>2. ASSUME NEW q \in Calls, Step(q) PROVE Typed'
  BY <1>2, StepTyped
<1>3. CASE DeleteLimits
  BY <1>3 DEF DeleteLimits, Typed, TypeOK
<1>4. ASSUME NEW r \in Replicas, Crash(r) \/ Boot(r) \/ Open(r) PROVE Typed'
  BY <1>4, CrashTyped, StartTyped
<1>5. CASE UNCHANGED vars
  BY <1>5 DEF vars, Typed, TypeOK
<1> QED
  BY <1>1, <1>2, <1>3, <1>4, <1>5 DEF Next

\* The types are kept, and a process is held by none but a running call of its
\* own: a handler that ends on any path gives the event loop back.
THEOREM TypeCorrect == Spec => []TypeOK
<1>1. Typed /\ [Next]_vars => Typed'
  BY NextTyped
<1>2. Typed => TypeOK
  BY DEF Typed
<1> QED
  BY <1>1, <1>2, InitTyped, PTL DEF Spec

-----------------------------------------------------------------------------
(* Where the steps of a call lead.                                           *)

LEMMA ReadGoes ==
    ASSUME Typed, NEW q \in Calls, ReadConfig(q)
    PROVE  LET c == call[q]
               d == call'[q]
           IN
           /\ c.op \in Edits \cup {"serve", "unserve"} /\ c.slot \in Slots
           /\ \/ d = Idle
              \/ /\ ~project.configsGone
                 /\ cfg[c.slot].status \in Admits[c.op]
                 /\ d.op = c.op /\ d.pc = AfterRead[c.op] /\ d.slot = c.slot
                 /\ d.at = c.at /\ d.raced = c.raced
                 /\ d.file = IF c.op \in {"update", "import"}
                             THEN c.file ELSE cfg[c.slot].file
<1> DEFINE c == call[q]
<1>1. c \in CallRecord /\ Shape(c)
  BY StepMoves, RunningCall DEF Step
<1>2. c.op \in Edits \cup {"serve", "unserve"} /\ c.slot \in Slots
  BY <1>1, At DEF ReadConfig
<1>3. CASE call' = [call EXCEPT ![q] = Idle]
  BY <1>2, <1>3 DEF Typed, TypeOK
<1>4. CASE ~(call' = [call EXCEPT ![q] = Idle])
  <2> DEFINE file == IF c.op \in {"update", "import"} THEN c.file ELSE cfg[c.slot].file
             pc == AfterRead[c.op]
  <2>1. /\ ~project.configsGone
        /\ cfg[c.slot].status \in Admits[c.op]
        /\ call' = [call EXCEPT ![q] = [c EXCEPT !.pc = pc, !.file = file]]
    BY <1>4 DEF ReadConfig, Finish, Typed, TypeOK
  <2> HIDE DEF pc, file
  <2>2. call'[q] = [c EXCEPT !.pc = pc, !.file = file]
    BY <2>1 DEF Typed, TypeOK
  <2>3. /\ call'[q].op = c.op /\ call'[q].pc = pc /\ call'[q].slot = c.slot
        /\ call'[q].at = c.at /\ call'[q].raced = c.raced /\ call'[q].file = file
    BY <1>1, <2>2 DEF CallRecord
  <2> QED
    BY <1>2, <2>1, <2>3 DEF pc, file
<1> QED
  BY <1>3, <1>4

LEMMA BudgetGoes ==
    ASSUME Typed, NEW q \in Calls, CheckBudget(q)
    PROVE  LET c == call[q]
               d == call'[q]
           IN
           /\ c.op \in {"update", "import", "approve", "serve"} /\ c.slot \in Slots
           /\ \/ d = Idle
              \/ /\ ~(c.file \in Budgeted /\ limits)
                 /\ d.op = c.op /\ d.pc = AfterLimits[c.op] /\ d.slot = c.slot
                 /\ d.at = c.at /\ d.raced = c.raced /\ d.file = c.file
<1> DEFINE c == call[q]
           pc == AfterLimits[c.op]
<1>1. c \in CallRecord /\ Shape(c)
  BY StepMoves, RunningCall DEF Step
<1>2. c.op \in {"update", "import", "approve", "serve"} /\ c.slot \in Slots
  BY <1>1, At DEF CheckBudget
<1>3. CASE call' = [call EXCEPT ![q] = Idle]
  BY <1>2, <1>3 DEF Typed, TypeOK
<1>4. CASE ~(call' = [call EXCEPT ![q] = Idle])
  <2>1. ~(c.file \in Budgeted /\ limits) /\ call' = [call EXCEPT ![q] = [c EXCEPT !.pc = pc]]
    BY <1>4 DEF CheckBudget, Finish, GoTo
  <2> HIDE DEF pc
  <2>2. call'[q] = [c EXCEPT !.pc = pc]
    BY <2>1 DEF Typed, TypeOK
  <2>3. /\ call'[q].op = c.op /\ call'[q].pc = pc /\ call'[q].slot = c.slot
        /\ call'[q].at = c.at /\ call'[q].raced = c.raced /\ call'[q].file = c.file
    BY <1>1, <2>2 DEF CallRecord
  <2> QED
    BY <1>2, <2>1, <2>3 DEF pc
<1> QED
  BY <1>3, <1>4

\* The points after those of a check.
Past == {"outProject", "outConfigs", "drop", "build", "cleanup", "findServed",
         "unserve", "softConfigs", "softProject", "dropLimits", "insert", "associate"}

\* Any other step ends the call or leaves its checks behind.
LEMMA OthersGo ==
    ASSUME Typed, NEW q \in Calls, Step(q), ~ReadConfig(q), ~CheckBudget(q)
    PROVE  LET c == call[q]
               d == call'[q]
           IN \/ d = Idle
              \/ /\ d.pc \in Past
                 /\ d.op = c.op /\ d.at = c.at /\ d.raced = c.raced
                 /\ FindServed(q) \/ d.slot = c.slot
                 /\ d.pc = "insert" <=> CheckServed(q)
                 /\ d.pc = "softProject" => SoftDelete(q) /\ c.pc = "softConfigs"
<1> DEFINE c == call[q]
           Goes(d) == /\ d.pc \in Past
                      /\ d.op = c.op /\ d.at = c.at /\ d.raced = c.raced
                      /\ FindServed(q) \/ d.slot = c.slot
                      /\ d.pc = "insert" <=> CheckServed(q)
                      /\ d.pc = "softProject" => SoftDelete(q) /\ c.pc = "softConfigs"
<1>1. c \in CallRecord /\ Shape(c) /\ call \in [Calls -> CallRecord \cup {Idle}]
  BY StepMoves, RunningCall DEF Typed, TypeOK
<1> SUFFICES call'[q] = Idle \/ Goes(call'[q])
  OBVIOUS
<1>2. CASE Finish(q)
  BY <1>1, <1>2 DEF Finish
<1>3. CASE ~Finish(q) /\ (CheckServed(q) \/ ValidateRoute(q))
  <2>1. CASE CheckServed(q)
    <3>1. call'[q] = [c EXCEPT !.pc = "insert"]
      BY <1>1, <1>3, <2>1 DEF CheckServed, GoTo
    <3>2. call'[q].pc = "insert" /\ call'[q].op = c.op /\ call'[q].at = c.at
          /\ call'[q].raced = c.raced /\ call'[q].slot = c.slot
      BY <1>1, <3>1 DEF CallRecord
    <3> QED
      BY <2>1, <3>2 DEF Past
  <2>2. CASE ValidateRoute(q)
    <3>1. call'[q] = [c EXCEPT !.pc = "associate"] /\ ~CheckServed(q)
      BY <1>1, <1>3, <2>2 DEF ValidateRoute, GoTo, CheckServed
    <3>2. call'[q].pc = "associate" /\ call'[q].op = c.op /\ call'[q].at = c.at
          /\ call'[q].raced = c.raced /\ call'[q].slot = c.slot
      BY <1>1, <3>1 DEF CallRecord
    <3> QED
      BY <3>1, <3>2 DEF Past
  <2> QED
    BY <1>3, <2>1, <2>2
<1>4. CASE WriteConfig(q) \/ InsertLimits(q)
  <2>1. /\ Overlap(call, q, {c.slot}, "withdraw") \in [Calls -> CallRecord \cup {Idle}]
        /\ Overlap(call, q, Slots, "limits") \in [Calls -> CallRecord \cup {Idle}]
    BY <1>1, OverlapKin DEF Events
  <2> QED
    BY <1>1, <1>4, <2>1 DEF WriteConfig, InsertLimits
<1>5. CASE Serve(q)
  <2> DEFINE o1 == Overlap(call, q, {c.slot}, "serve")
             o == Overlap(o1, q, ServedSlots \ {c.slot}, "withdraw")
  <2>1. o1 \in [Calls -> CallRecord \cup {Idle}] /\ o1[q] = c
    BY <1>1, OverlapKin DEF Events
  <2> HIDE DEF o1
  <2>2. o \in [Calls -> CallRecord \cup {Idle}] /\ o[q] = c
    BY <2>1, OverlapKin DEF Events
  <2> HIDE DEF o
  <2>3. call' = [o EXCEPT ![q].pc = "outProject"] /\ ~CheckServed(q)
    BY <1>5 DEF Serve, o, o1, CheckServed
  <2>4. call'[q] = [c EXCEPT !.pc = "outProject"]
    BY <2>2, <2>3
  <2>5. call'[q].pc = "outProject" /\ call'[q].op = c.op /\ call'[q].at = c.at
        /\ call'[q].raced = c.raced /\ call'[q].slot = c.slot
    BY <1>1, <2>4 DEF CallRecord
  <2> QED
    BY <2>3, <2>5 DEF Past
<1>6. CASE Unserve(q) /\ ~Finish(q)
  <2> DEFINE o == Overlap(call, q, {c.slot}, "withdraw")
             pc == IF c.op = "delete" THEN "softConfigs" ELSE "outProject"
  <2>1. o \in [Calls -> CallRecord \cup {Idle}] /\ o[q] = c
    BY <1>1, OverlapKin DEF Events
  <2>2. call' = [o EXCEPT ![q].pc = pc] /\ ~CheckServed(q)
    BY <1>6 DEF Unserve, CheckServed
  <2>3. pc \in Past \ {"insert", "softProject"}
    BY DEF Past
  <2> HIDE DEF o, pc
  <2>4. call'[q] = [c EXCEPT !.pc = pc]
    BY <2>1, <2>2
  <2>5. call'[q].pc = pc /\ call'[q].op = c.op /\ call'[q].at = c.at
        /\ call'[q].raced = c.raced /\ call'[q].slot = c.slot
    BY <1>1, <2>4 DEF CallRecord
  <2> QED
    BY <2>2, <2>3, <2>5
<1>7. CASE OutProject(q) /\ ~Finish(q)
  <2> DEFINE pc == IF c.op = "serve" THEN "outConfigs" ELSE "drop"
  <2>1. call'[q] = [c EXCEPT !.ref = project.ref, !.pc = pc] /\ ~CheckServed(q)
    BY <1>1, <1>7 DEF OutProject, CheckServed
  <2>2. pc \in Past \ {"insert", "softProject"}
    BY DEF Past
  <2> HIDE DEF pc
  <2>3. call'[q].pc = pc /\ call'[q].op = c.op /\ call'[q].at = c.at
        /\ call'[q].raced = c.raced /\ call'[q].slot = c.slot
    BY <1>1, <2>1 DEF CallRecord
  <2> QED
    BY <2>1, <2>2, <2>3
<1>8. CASE OutConfigs(q)
  <2> DEFINE file == IF c.ref = None \/ project.configsGone THEN None ELSE cfg[c.ref].file
  <2>1. call'[q] = [c EXCEPT !.pc = "drop", !.file = file] /\ ~CheckServed(q)
    BY <1>1, <1>8 DEF OutConfigs, CheckServed
  <2> HIDE DEF file
  <2>3. call'[q].pc = "drop" /\ call'[q].op = c.op /\ call'[q].at = c.at
        /\ call'[q].raced = c.raced /\ call'[q].slot = c.slot
    BY <1>1, <2>1 DEF CallRecord
  <2> QED
    BY <2>1, <2>3 DEF Past
<1>9. CASE Drop(q) \/ Build(q) \/ (DropLimits(q) /\ ~Finish(q)) \/ SoftDelete(q)
           \/ (DeleteProject(q) /\ ~Finish(q))
  <2> DEFINE Forward == {"build", "cleanup", "drop", "softProject", "dropLimits"}
  <2>1. CASE DeleteProject(q)
    <3>1. call'[q] = [c EXCEPT !.pc = "findServed", !.ref = project.ref] /\ ~CheckServed(q)
      BY <1>1, <1>9, <2>1 DEF DeleteProject, CheckServed, Drop, Build, DropLimits, SoftDelete
    <3>2. call'[q].pc = "findServed" /\ call'[q].op = c.op /\ call'[q].at = c.at
          /\ call'[q].raced = c.raced /\ call'[q].slot = c.slot
      BY <1>1, <3>1 DEF CallRecord
    <3> QED
      BY <3>1, <3>2 DEF Past
  <2>2. CASE ~DeleteProject(q) /\ ~(Drop(q) /\ c.op # "serve")
    <3>1. PICK pc \in Forward : /\ call'[q] = [c EXCEPT !.pc = pc]
                                /\ pc = "softProject" => SoftDelete(q) /\ c.pc = "softConfigs"
      BY <1>1, <1>9, <2>2 DEF Drop, Build, DropLimits, SoftDelete
    <3>2. ~CheckServed(q)
      BY <1>9, <2>2 DEF Drop, Build, DropLimits, SoftDelete, CheckServed
    <3>3. call'[q].pc = pc /\ call'[q].op = c.op /\ call'[q].at = c.at
          /\ call'[q].raced = c.raced /\ call'[q].slot = c.slot
      BY <1>1, <3>1 DEF CallRecord
    <3> QED
      BY <3>1, <3>2, <3>3 DEF Past
  <2>3. CASE Drop(q) /\ c.op # "serve"
    BY <1>1, <2>3 DEF Drop
  <2> QED
    BY <2>1, <2>2, <2>3
<1>10. CASE FindServed(q)
  <2>1. CASE call' = [call EXCEPT ![q].pc = "softConfigs"]
    <3>1. call'[q].pc = "softConfigs" /\ call'[q].op = c.op /\ call'[q].at = c.at
          /\ call'[q].raced = c.raced /\ ~CheckServed(q)
      BY <1>1, <1>10, <2>1 DEF CallRecord, FindServed, CheckServed
    <3> QED
      BY <1>10, <3>1 DEF Past
  <2>2. ASSUME NEW s \in ServedSlots,
               call' = [call EXCEPT ![q].pc = "unserve", ![q].slot = s]
        PROVE  Goes(call'[q])
    <3>1. call'[q] = [c EXCEPT !.pc = "unserve", !.slot = s]
      BY <1>1, <2>2
    <3>2. call'[q].pc = "unserve" /\ call'[q].op = c.op /\ call'[q].at = c.at
          /\ call'[q].raced = c.raced
      BY <1>1, <3>1 DEF CallRecord
    <3>3. ~CheckServed(q)
      BY <1>10 DEF FindServed, CheckServed
    <3> QED
      BY <1>10, <3>2, <3>3 DEF Past
  <2> QED
    BY <1>10, <2>1, <2>2 DEF FindServed
<1>11. CASE Cleanup(q) \/ Associate(q) \/ Fail(q) \/ ServeDeleted(q)
  BY <1>2, <1>11 DEF Cleanup, Associate, Fail, ServeDeleted
<1> QED
  BY <1>2, <1>3, <1>4, <1>5, <1>6, <1>7, <1>8, <1>9, <1>10, <1>11 DEF Step

-----------------------------------------------------------------------------
(* What is served is what the project references.                            *)

\* The steps that leave the rows, the reference and the deletion marks alone.
LEMMA StatusFrame ==
    ASSUME Typed, NEW q \in Calls, Step(q), ~WriteConfig(q), ~Serve(q), ~Unserve(q)
    PROVE  /\ UNCHANGED <<cfg, approved>> /\ project'.ref = project.ref
           /\ lapses'.status = lapses.status /\ lapses'.approval = lapses.approval
           /\ lapses.budget => lapses'.budget
           /\ ~SoftDelete(q) => UNCHANGED project
           /\ ~InsertLimits(q) => lapses'.budget = lapses.budget
           /\ ~InsertLimits(q) => \A p \in Calls \ {q} : call'[p] = call[p]
           /\ ~InsertLimits(q) /\ limits' => limits
<1> DEFINE Rows == UNCHANGED <<cfg, approved>>
           Lapses == /\ lapses'.status = lapses.status
                     /\ lapses'.approval = lapses.approval
           OthersStay == \A p \in Calls \ {q} : call'[p] = call[p]
           Goal == /\ Rows /\ project'.ref = project.ref /\ Lapses
                   /\ lapses.budget => lapses'.budget
                   /\ ~SoftDelete(q) => UNCHANGED project
                   /\ ~InsertLimits(q) => lapses'.budget = lapses.budget
                   /\ ~InsertLimits(q) => OthersStay
                   /\ ~InsertLimits(q) /\ limits' => limits
<1> SUFFICES Goal
  OBVIOUS
<1>0. call \in [Calls -> CallRecord \cup {Idle}]
      /\ project \in [ref : Slots \cup {None}, configsGone : BOOLEAN, gone : BOOLEAN]
      /\ lapses \in LapsesRecord
  BY DEF Typed, TypeOK
<1>1. ASSUME Rows, UNCHANGED <<project, lapses>>, OthersStay, limits' => limits
      PROVE  Goal
  BY <1>1
<1>2. ASSUME NEW pc, call' = [call EXCEPT ![q].pc = pc] PROVE OthersStay
  BY <1>0, <1>2
<1>3. ASSUME Finish(q) PROVE OthersStay
  BY <1>0, <1>3 DEF Finish
<1>4. CASE ReadConfig(q) \/ CheckBudget(q) \/ ServeDeleted(q)
  <2>1. OthersStay
    BY <1>0, <1>3, <1>4 DEF ReadConfig, CheckBudget, ServeDeleted, GoTo
  <2> QED
    BY <1>1, <1>4, <2>1 DEF ReadConfig, CheckBudget, ServeDeleted
<1>5. CASE OutConfigs(q) \/ Drop(q) \/ Build(q) \/ Cleanup(q)
  <2>1. OthersStay
    BY <1>0, <1>3, <1>5 DEF OutConfigs, Drop, Build, Cleanup
  <2> QED
    BY <1>1, <1>5, <2>1 DEF OutConfigs, Drop, Build, Cleanup
<1>6. CASE DeleteProject(q) \/ FindServed(q) \/ DropLimits(q)
  <2>1. OthersStay
    BY <1>0, <1>3, <1>6 DEF DeleteProject, FindServed, DropLimits
  <2> QED
    BY <1>1, <1>6, <2>1 DEF DeleteProject, FindServed, DropLimits
<1>7. CASE CheckServed(q) \/ ValidateRoute(q) \/ Associate(q)
  <2>1. OthersStay
    BY <1>0, <1>3, <1>7 DEF CheckServed, ValidateRoute, Associate, GoTo
  <2> QED
    BY <1>1, <1>7, <2>1 DEF CheckServed, ValidateRoute, Associate
<1>8. CASE OutProject(q) \/ Fail(q)
  <2>1. OthersStay
    BY <1>0, <1>3, <1>8 DEF OutProject, Fail
  <2>2. Rows /\ UNCHANGED <<project, limits>>
    BY <1>8 DEF OutProject, Fail
  <2>3. Lapses /\ lapses'.budget = lapses.budget
    BY <1>0, <1>8 DEF OutProject, Fail, LapsesRecord
  <2> QED
    BY <2>1, <2>2, <2>3
<1>9. CASE SoftDelete(q)
  <2>1. OthersStay
    BY <1>0, <1>9 DEF SoftDelete
  <2>2. Rows /\ UNCHANGED limits /\ project'.ref = project.ref
    BY <1>0, <1>9 DEF SoftDelete
  <2>3. Lapses /\ lapses'.budget = lapses.budget
    BY <1>0, <1>9 DEF SoftDelete, LapsesRecord
  <2> QED
    BY <1>9, <2>1, <2>2, <2>3
<1>10. CASE InsertLimits(q)
  <2>1. Rows /\ UNCHANGED project
    BY <1>10 DEF InsertLimits
  <2>2. Lapses /\ (lapses.budget => lapses'.budget)
    BY <1>0, <1>10 DEF InsertLimits, LapsesRecord
  <2> QED
    BY <1>10, <2>1, <2>2
<1> HIDE DEF Goal
<1> QED
  BY <1>4, <1>5, <1>6, <1>7, <1>8, <1>9, <1>10 DEF Step

\* What another call decided it keeps, and it does not forget what it learnt.
LEMMA KinKeeps ==
    ASSUME Typed, NEW q \in Calls, Moves(q), NEW p \in Calls \ {q}
    PROVE  /\ Kin(call[p], call'[p])
           /\ Decided(call'[p]) <=> Decided(call[p])
           /\ Acts(call'[p]) <=> Acts(call[p])
           /\ Decided(call[p]) => call[p].slot \in Slots /\ call[p].op \in Edits
<1>1. Kin(call[p], call'[p])
  BY DEF Moves
<1>2. Decided(call[p]) => call[p].slot \in Slots /\ call[p].op \in Edits
  BY RunningCall DEF Decided, Edits, Ops, Shape
<1> QED
  BY <1>1, <1>2, KinFacts DEF Decided, Acts

\* A call that goes on past its checks decides nothing any more.
LEMMA PastNotDecided ==
    ASSUME NEW d, d = Idle \/ d.pc \in Past
    PROVE  /\ ~Decided(d) /\ d.pc \notin {"read", "limits", "write", "serve"}
  BY IdleFacts DEF Decided, Past, Idle

\* The rows, the reference and what is known of them once q wrote a row.
LEMMA WriteIs ==
    ASSUME Typed, NEW q \in Calls, WriteConfig(q)
    PROVE  LET c == call[q] IN
           /\ c.op \in Edits /\ c.slot \in Slots /\ Decided(c)
           /\ project.configsGone => UNCHANGED <<cfg, lapses>> /\ approved' = Withdrawn(cfg)
           /\ ~project.configsGone =>
                 /\ \A s \in Slots \ {c.slot} : cfg'[s] = cfg[s]
                 /\ cfg'[c.slot] = EditedRow(c)
                 /\ EditedRow(c).status \in {Draft, Ready}
                 /\ EditedRow(c).status = Ready <=> c.op = "approve"
                 /\ lapses'.status = IF cfg[c.slot].status = Served /\ "serve" \in c.raced
                                     THEN lapses.status \cup {c.slot} ELSE lapses.status
           /\ call'[q] = Idle
<1> DEFINE c == call[q]
<1>1. c \in CallRecord /\ Shape(c)
  BY StepMoves, RunningCall DEF Step
<1>2. c.op \in Edits /\ c.slot \in Slots /\ c.pc = "write"
  BY <1>1, At DEF WriteConfig
<1>3. Decided(c)
  BY <1>2 DEF Decided, Edits
<1>4. EditedRow(c).status \in {Draft, Ready} /\ (EditedRow(c).status = Ready <=> c.op = "approve")
  BY <1>2 DEF EditedRow, NewStatus, Edits, Draft, Ready
<1>5. Overlap(call, q, {c.slot}, "withdraw") \in [Calls -> CallRecord \cup {Idle}]
  BY OverlapKin DEF Events, Typed, TypeOK
<1>6. call'[q] = Idle
  BY <1>5 DEF WriteConfig, Typed, TypeOK
<1>7. CASE project.configsGone
  <2>1. cfg' = cfg /\ lapses' = lapses /\ approved' = Withdrawn(cfg)
    BY <1>7 DEF WriteConfig
  <2> QED
    BY <1>2, <1>3, <1>6, <1>7, <2>1
<1>8. CASE ~project.configsGone
  <2>1. cfg' = [cfg EXCEPT ![c.slot] = EditedRow(c)]
    BY <1>8 DEF WriteConfig
  <2>2. lapses'.status = lapses.status \cup {t \in {c.slot} : cfg[t].status = Served
                                                              /\ "serve" \in c.raced}
    BY <1>8 DEF WriteConfig, Typed, TypeOK, LapsesRecord
  <2>3. lapses'.status = IF cfg[c.slot].status = Served /\ "serve" \in c.raced
                         THEN lapses.status \cup {c.slot} ELSE lapses.status
    BY <2>2 DEF Typed, TypeOK, LapsesRecord
  <2> QED
    BY <1>2, <1>3, <1>4, <1>6, <1>8, <2>1, <2>3 DEF Typed, TypeOK
<1> QED
  BY <1>7, <1>8

LEMMA ServeIs ==
    ASSUME Typed, NEW q \in Calls, Serve(q)
    PROVE  LET c == call[q] IN
           /\ c.op = "serve" /\ c.slot \in Slots /\ c.at \in Replicas
           /\ ~project.configsGone
           /\ \A s \in Slots \ {c.slot} :
                 /\ cfg'[s].file = cfg[s].file
                 /\ cfg'[s].status = IF cfg[s].status = Served THEN Draft
                                     ELSE cfg[s].status
           /\ cfg'[c.slot].file = cfg[c.slot].file /\ cfg'[c.slot].status = Served
           /\ project'.ref = c.slot /\ project'.gone = project.gone
           /\ project'.configsGone = project.configsGone
           /\ approved' = Withdrawn(cfg')
           /\ lapses'.status = lapses.status \ {c.slot}
           /\ lapses'.approval = IF "withdraw" \in c.raced
                                 THEN lapses.approval \cup {c.slot} ELSE lapses.approval
           /\ lapses'.routes = (lapses.routes \ {c.at}) \cup PassedBy(q)
           /\ lapses'.budget = (lapses.budget \/ ("limits" \in c.raced
                                                  /\ cfg[c.slot].file \in Budgeted))
           /\ Learn(q, {c.slot}, "serve") /\ Learn(q, ServedSlots \ {c.slot}, "withdraw")
           /\ call'[q].pc = "outProject"
<1> DEFINE c == call[q]
<1>1. c \in CallRecord /\ Shape(c)
  BY StepMoves, RunningCall DEF Step
<1>2. c.op = "serve" /\ c.slot \in Slots /\ c.at \in Replicas
  BY <1>1, At DEF Serve, CallRecord
<1>3. \A s \in Slots : cfg[s] \in [status : Status, file : Files]
  BY DEF Typed, TypeOK
<1>4. \A s \in Slots : cfg'[s] = IF s = c.slot THEN [cfg[s] EXCEPT !.status = Served]
                                 ELSE IF cfg[s].status = Served
                                 THEN [cfg[s] EXCEPT !.status = Draft] ELSE cfg[s]
  BY DEF Serve, ServedRows
<1>5. project' = [project EXCEPT !.ref = c.slot]
  BY DEF Serve
<1>6. /\ project'.ref = c.slot /\ project'.gone = project.gone
      /\ project'.configsGone = project.configsGone
  BY <1>5 DEF Typed, TypeOK
<1>7. /\ lapses'.status = lapses.status \ {c.slot}
      /\ lapses'.approval = IF "withdraw" \in c.raced
                            THEN lapses.approval \cup {c.slot} ELSE lapses.approval
      /\ lapses'.routes = (lapses.routes \ {c.at}) \cup PassedBy(q)
      /\ lapses'.budget = (lapses.budget \/ ("limits" \in c.raced
                                             /\ cfg[c.slot].file \in Budgeted))
  BY DEF Serve, Typed, TypeOK, LapsesRecord
<1> DEFINE o1 == Overlap(call, q, {c.slot}, "serve")
           o == Overlap(o1, q, ServedSlots \ {c.slot}, "withdraw")
<1>8. /\ o1 \in [Calls -> CallRecord \cup {Idle}] /\ o1[q] = c
      /\ \A p \in Calls : Kin(call[p], o1[p])
      /\ \A p \in Calls \ {q} :
            \/ call[p].op \in Edits \cup {"serve"} /\ call[p].slot \in {c.slot}
            \/ call[p].op = "addLimits"
            => "serve" \in o1[p].raced
  BY OverlapKin DEF Typed, TypeOK, Events
<1> HIDE DEF o1
<1>9. /\ o \in [Calls -> CallRecord \cup {Idle}] /\ o[q] = c
      /\ \A p \in Calls : Kin(o1[p], o[p])
      /\ \A p \in Calls \ {q} :
            \/ o1[p].op \in Edits \cup {"serve"} /\ o1[p].slot \in ServedSlots \ {c.slot}
            \/ o1[p].op = "addLimits"
            => "withdraw" \in o[p].raced
  BY <1>8, OverlapKin DEF Events
<1> HIDE DEF o
<1>10. call' = [o EXCEPT ![q].pc = "outProject"]
  BY DEF Serve, o, o1
<1>11. /\ call'[q] = [c EXCEPT !.pc = "outProject"]
       /\ \A p \in Calls \ {q} : call'[p] = o[p]
  BY <1>9, <1>10
<1>12. call'[q].pc = "outProject"
  BY <1>1, <1>11 DEF CallRecord
<1>13. ASSUME NEW p \in Calls \ {q}
       PROVE  /\ o1[p].op = call[p].op /\ o1[p].slot = call[p].slot
              /\ o1[p].raced \subseteq call'[p].raced
  BY <1>8, <1>9, <1>11, KinFacts
<1>14. Learn(q, {c.slot}, "serve")
  BY <1>8, <1>13 DEF Learn
<1>15. Learn(q, ServedSlots \ {c.slot}, "withdraw")
  BY <1>9, <1>11, <1>13 DEF Learn
<1>16. ~project.configsGone /\ approved' = Withdrawn(cfg')
  BY DEF Serve
<1> QED
  BY <1>2, <1>3, <1>4, <1>6, <1>7, <1>12, <1>14, <1>15, <1>16

LEMMA UnserveIs ==
    ASSUME Typed, NEW q \in Calls, Unserve(q)
    PROVE  LET c == call[q]
               live == ~project.configsGone
           IN
           /\ c.op \in {"unserve", "delete"} /\ c.slot \in Slots
           /\ ~live => UNCHANGED <<cfg, project, lapses>>
           /\ live =>
                 /\ \A s \in Slots \ {c.slot} : cfg'[s] = cfg[s]
                 /\ cfg'[c.slot].status = Draft
                 /\ project'.ref = IF project.ref = c.slot THEN None ELSE project.ref
                 /\ project'.gone = project.gone
                 /\ project'.configsGone = project.configsGone
                 /\ lapses'.routes = lapses.routes \cup PassedBy(q)
                 /\ lapses'.status = lapses.status
                 /\ lapses'.approval = lapses.approval /\ lapses'.budget = lapses.budget
                 /\ Learn(q, {c.slot}, "withdraw")
                 /\ call'[q].pc = IF c.op = "delete" THEN "softConfigs" ELSE "outProject"
           /\ cfg'[c.slot].file = cfg[c.slot].file
           /\ approved' = Withdrawn(cfg')
           /\ ~live /\ c.op = "unserve" => call'[q] = Idle
<1> DEFINE c == call[q]
           live == ~project.configsGone
<1>1. c \in CallRecord /\ Shape(c)
  BY StepMoves, RunningCall DEF Step
<1>2. c.op \in {"unserve", "delete"} /\ c.slot \in Slots
  BY <1>1, At DEF Unserve
<1>3. cfg \in [Slots -> [status : Status, file : Files]]
      /\ project \in [ref : Slots \cup {None}, gone : BOOLEAN, configsGone : BOOLEAN]
      /\ lapses \in LapsesRecord
  BY DEF Typed, TypeOK
<1>4. CASE ~live
  <2>1. cfg' = cfg /\ project' = project /\ approved' = Withdrawn(cfg')
        /\ lapses' = [lapses EXCEPT !.routes = lapses.routes]
    BY <1>4 DEF Unserve
  <2>2. lapses' = lapses
    BY <1>3, <2>1 DEF LapsesRecord
  <2>3. c.op = "unserve" => call'[q] = Idle
    BY <1>4 DEF Unserve, Finish, Typed, TypeOK
  <2> QED
    BY <1>2, <1>4, <2>1, <2>2, <2>3
<1>5. CASE live
  <2>1. cfg' = [cfg EXCEPT ![c.slot].status = Draft] /\ approved' = Withdrawn(cfg')
    BY <1>5 DEF Unserve
  <2>2. project' = IF project.ref = c.slot THEN [project EXCEPT !.ref = None] ELSE project
    BY <1>5 DEF Unserve
  <2>3. lapses' = [lapses EXCEPT !.routes = @ \cup PassedBy(q)]
    BY <1>5 DEF Unserve
  <2> DEFINE o == Overlap(call, q, {c.slot}, "withdraw")
             pc == IF c.op = "delete" THEN "softConfigs" ELSE "outProject"
  <2>4. /\ o \in [Calls -> CallRecord \cup {Idle}] /\ o[q] = c
        /\ \A p \in Calls \ {q} :
              \/ call[p].op \in Edits \cup {"serve"} /\ call[p].slot \in {c.slot}
              \/ call[p].op = "addLimits"
              => "withdraw" \in o[p].raced
    BY OverlapKin DEF Typed, TypeOK, Events
  <2>5. call' = [o EXCEPT ![q].pc = pc]
    BY <1>2, <1>5 DEF Unserve
  <2> HIDE DEF o, pc
  <2>6. call'[q] = [c EXCEPT !.pc = pc] /\ \A p \in Calls \ {q} : call'[p] = o[p]
    BY <2>4, <2>5
  <2>7. call'[q].pc = pc
    BY <1>1, <2>6 DEF CallRecord
  <2>8. Learn(q, {c.slot}, "withdraw")
    BY <2>4, <2>6 DEF Learn
  <2>9. /\ \A s \in Slots \ {c.slot} : cfg'[s] = cfg[s]
        /\ cfg'[c.slot].status = Draft /\ cfg'[c.slot].file = cfg[c.slot].file
    BY <1>2, <1>3, <2>1
  <2>10. /\ project'.ref = IF project.ref = c.slot THEN None ELSE project.ref
         /\ project'.gone = project.gone /\ project'.configsGone = project.configsGone
    BY <1>3, <2>2
  <2>11. /\ lapses'.routes = lapses.routes \cup PassedBy(q)
         /\ lapses'.status = lapses.status
         /\ lapses'.approval = lapses.approval /\ lapses'.budget = lapses.budget
    BY <1>3, <2>3 DEF LapsesRecord
  <2> QED
    BY <1>2, <1>5, <2>1, <2>7, <2>8, <2>9, <2>10, <2>11 DEF pc
<1> QED
  BY <1>4, <1>5

\* The rows stay or lose the status SERVED: what an edit knows is still enough.
LEMMA EditsKnowMove ==
    ASSUME Typed, EditsKnow, NEW q \in Calls, Moves(q),
           \A s \in Slots : cfg'[s].status = Served => cfg[s].status = Served,
           Decided(call'[q]) => \/ cfg'[call'[q].slot].status # Served
                                \/ "serve" \in call'[q].raced
    PROVE  EditsKnow'
<1> SUFFICES ASSUME NEW p \in Calls, Decided(call'[p]), cfg'[call'[p].slot].status = Served
             PROVE  "serve" \in call'[p].raced
  BY DEF EditsKnow, Decided
<1>1. CASE p = q
  BY <1>1
<1>2. CASE p # q
  <2>1. /\ Kin(call[p], call'[p]) /\ Decided(call[p])
        /\ call[p].slot \in Slots
    BY <1>2, KinKeeps
  <2>2. "serve" \in call[p].raced
    BY <2>1, KinFacts DEF EditsKnow
  <2> QED
    BY <2>1, <2>2, KinFacts
<1> QED
  BY <1>1, <1>2

LEMMA StepStatus ==
    ASSUME Typed, StatusInv, NEW q \in Calls, Step(q)
    PROVE  StatusInv'
<1> DEFINE c == call[q]
<1>0. c \in CallRecord /\ Shape(c) /\ Moves(q)
  BY StepMoves, RunningCall
<1>1. /\ project.ref \in Slots \cup {None} /\ lapses.status \subseteq Slots
      /\ ServedIsReference /\ ReferenceIsServed /\ EditsKnow /\ GoneAfterConfigs
      /\ None \notin Slots
  BY ProjectConfigAssumption
     DEF StatusInv, ReferenceAgrees, Typed, TypeOK, LapsesRecord
<1>2. ASSUME ~ReadConfig(q), ~CheckBudget(q)
      PROVE  ~Decided(call'[q])
  BY <1>2, OthersGo, PastNotDecided
\* A project that is deleted lost its configs before.
<1>3. GoneAfterConfigs'
  <2>1. project.configsGone => project'.configsGone
    BY StatusFrame, ServeIs, UnserveIs DEF SoftDelete, WriteConfig, Typed, TypeOK
  <2>2. project'.gone => project'.configsGone
    <3>1. CASE SoftDelete(q)
      BY <1>1, <2>1, <3>1 DEF SoftDelete, GoneAfterConfigs, Typed, TypeOK
    <3>2. CASE ~SoftDelete(q)
      <4>1. project'.gone = project.gone
        BY <3>2, StatusFrame, ServeIs, UnserveIs DEF WriteConfig
      <4> QED
        BY <1>1, <2>1, <4>1 DEF GoneAfterConfigs
    <3> QED
      BY <3>1, <3>2
  <2>3. ASSUME NEW p \in Calls, call'[p].pc = "softProject" PROVE project'.configsGone
    <3>1. CASE p # q
      BY <1>0, <1>1, <2>1, <2>3, <3>1, KinKeeps, KinFacts DEF GoneAfterConfigs
    <3>2. CASE p = q
      <4>1. ~ReadConfig(q) /\ ~CheckBudget(q)
        BY <2>3, <3>2, ReadGoes, BudgetGoes, IdleFacts
           DEF AfterRead, AfterLimits, Edits, Points
      <4>2. SoftDelete(q) /\ c.pc = "softConfigs"
        BY <2>3, <3>2, <4>1, OthersGo, IdleFacts DEF Points
      <4> QED
        BY <4>2 DEF SoftDelete, Typed, TypeOK
    <3> QED
      BY <3>1, <3>2
  <2> QED
    BY <2>2, <2>3 DEF GoneAfterConfigs
<1>4. CASE WriteConfig(q)
  <2>1. UNCHANGED project
    BY <1>4 DEF WriteConfig
  <2>2. ~ReadConfig(q) /\ ~CheckBudget(q)
    BY <1>4 DEF WriteConfig, ReadConfig, CheckBudget
  <2>3. CASE project.configsGone
    <3>1. EditsKnow'
      BY <1>0, <1>1, <1>2, <1>4, <2>2, <2>3, WriteIs, EditsKnowMove
    <3> QED
      BY <1>1, <1>3, <1>4, <2>1, <2>3, <3>1, WriteIs
         DEF StatusInv, ReferenceAgrees, ServedIsReference, ReferenceIsServed
  <2>4. CASE ~project.configsGone
    <3> DEFINE s == c.slot
    <3>1. /\ s \in Slots /\ Decided(c) /\ \A t \in Slots \ {s} : cfg'[t] = cfg[t]
          /\ cfg'[s].status # Served
          /\ cfg[s].status = Served => lapses'.status = lapses.status \cup {s}
          /\ lapses.status \subseteq lapses'.status
      BY <1>1, <1>4, <2>4, WriteIs DEF EditsKnow, Draft, Ready, Served
    <3>2. EditsKnow'
      BY <1>0, <1>1, <1>2, <2>2, <3>1, EditsKnowMove
    <3>3. ServedIsReference'
      BY <1>1, <2>1, <3>1 DEF ServedIsReference
    <3>4. ReferenceIsServed'
      BY <1>1, <2>1, <3>1 DEF ReferenceIsServed
    <3> QED
      BY <1>3, <3>2, <3>3, <3>4 DEF StatusInv, ReferenceAgrees
  <2> QED
    BY <2>3, <2>4
<1>5. CASE Serve(q)
  <2> DEFINE s == c.slot
  <2>1. /\ s \in Slots /\ cfg'[s].status = Served /\ project'.ref = s
        /\ \A t \in Slots \ {s} : cfg'[t].status # Served
        /\ Learn(q, {s}, "serve")
    BY <1>5, ServeIs DEF Draft, Served
  <2>2. ~Decided(call'[q])
    BY <1>5, ServeIs DEF Decided
  <2>3. EditsKnow'
    <3> SUFFICES ASSUME NEW p \in Calls, Decided(call'[p]), cfg'[call'[p].slot].status = Served
                 PROVE  "serve" \in call'[p].raced
      BY DEF EditsKnow, Decided
    <3>1. p # q
      BY <2>2
    <3>2. Kin(call[p], call'[p]) /\ call[p].slot \in Slots /\ call[p].op \in Edits
      BY <1>0, <3>1, KinKeeps
    <3>3. call[p].slot = s
      BY <2>1, <3>2, KinFacts
    <3> QED
      BY <2>1, <3>1, <3>2, <3>3 DEF Learn
  <2> QED
    BY <1>3, <2>1, <2>3 DEF StatusInv, ReferenceAgrees, ServedIsReference, ReferenceIsServed
<1>6. CASE Unserve(q)
  <2>1. ~ReadConfig(q) /\ ~CheckBudget(q)
    BY <1>6 DEF Unserve, ReadConfig, CheckBudget
  <2>2. \A t \in Slots : cfg'[t].status = Served => cfg[t].status = Served
    BY <1>6, UnserveIs DEF Draft, Served
  <2>3. EditsKnow'
    BY <1>0, <1>1, <1>2, <2>1, <2>2, EditsKnowMove
  <2>4. ServedIsReference' /\ ReferenceIsServed'
    BY <1>1, <1>6, UnserveIs DEF ServedIsReference, ReferenceIsServed, Draft, Served
  <2> QED
    BY <1>3, <2>3, <2>4 DEF StatusInv, ReferenceAgrees
<1>7. CASE ~WriteConfig(q) /\ ~Serve(q) /\ ~Unserve(q)
  <2>1. cfg' = cfg /\ project'.ref = project.ref /\ lapses'.status = lapses.status
    BY <1>7, StatusFrame
  <2>2. Decided(call'[q]) => \/ cfg'[call'[q].slot].status # Served
                             \/ "serve" \in call'[q].raced
    <3> SUFFICES ASSUME Decided(call'[q]), cfg[call'[q].slot].status = Served
                 PROVE  "serve" \in call'[q].raced
      BY <2>1
    <3>1. CASE ReadConfig(q)
      <4>1. call'[q] # Idle
        BY IdleFacts DEF Decided, Idle
      <4>2. cfg[c.slot].status \in Admits[c.op] /\ call'[q].slot = c.slot /\ call'[q].op = c.op
        BY <3>1, <4>1, ReadGoes
      <4> QED
        BY <4>2 DEF Decided, Admits, Draft, Ready, Served
    <3>2. CASE CheckBudget(q)
      <4>1. call'[q] # Idle
        BY IdleFacts DEF Decided, Idle
      <4>2. /\ c.op \in {"update", "import", "approve", "serve"}
            /\ call'[q].op = c.op /\ call'[q].pc = AfterLimits[c.op]
            /\ call'[q].slot = c.slot /\ call'[q].raced = c.raced
        BY <3>2, <4>1, BudgetGoes
      <4>3. Decided(c)
        BY <3>2, <4>2 DEF Decided, AfterLimits, CheckBudget
      <4> QED
        BY <1>1, <4>2, <4>3 DEF EditsKnow
    <3> QED
      BY <1>2, <3>1, <3>2
  <2>3. EditsKnow'
    BY <1>0, <1>1, <2>1, <2>2, EditsKnowMove
  <2> QED
    BY <1>1, <1>3, <2>1, <2>3
       DEF StatusInv, ReferenceAgrees, ServedIsReference, ReferenceIsServed
<1> QED
  BY <1>4, <1>5, <1>6, <1>7

LEMMA InitStatus == Init => StatusInv
<1> SUFFICES ASSUME Init PROVE StatusInv
  OBVIOUS
<1>1. ASSUME NEW s \in Slots PROVE cfg[s].status # Served
  BY DEF Init, Draft, Ready, Served
<1>2. \A q \in Calls : ~Decided(call[q]) /\ call[q].pc # "softProject"
  BY DEF Init, Decided, Idle
<1>3. project.ref = None /\ ~project.gone
  BY DEF Init
<1> QED
  BY <1>1, <1>2, <1>3 DEF StatusInv, ReferenceAgrees, ServedIsReference, ReferenceIsServed,
     EditsKnow, GoneAfterConfigs

LEMMA NextStatus == Typed /\ StatusInv /\ [Next]_vars => StatusInv'
<1> SUFFICES ASSUME Typed, StatusInv, [Next]_vars PROVE StatusInv'
  OBVIOUS
<1> USE DEF StatusInv, ReferenceAgrees, ServedIsReference, ReferenceIsServed,
            EditsKnow, GoneAfterConfigs
<1>1. ASSUME NEW q \in Calls, NEW r \in Replicas, BeginSome(q, r) PROVE StatusInv'
  <2>1. call'[q].pc # "softProject" /\ ~Decided(call'[q])
    <3>1. call'[q].op \in Ops /\ call'[q].pc = First[call'[q].op]
      BY <1>1, BeginMoves DEF CallRecord
    <3> QED
      BY <3>1 DEF First, Ops, Edits, Servings, Others, Decided
  <2> QED
    BY <1>1, <2>1, BeginMoves
<1>2. ASSUME NEW q \in Calls, Step(q) PROVE StatusInv'
  BY <1>2, StepStatus
<1>3. CASE DeleteLimits
  BY <1>3 DEF DeleteLimits
<1>4. ASSUME NEW r \in Replicas, Crash(r) PROVE StatusInv'
  <2>1. lapses'.status = lapses.status
    BY <1>4, CrashTyped DEF Typed, TypeOK, LapsesRecord
  <2> QED
    BY <1>4, <2>1, CrashTyped, IdleFacts DEF Decided, Idle
<1>5. ASSUME NEW r \in Replicas, Boot(r) \/ Open(r) PROVE StatusInv'
  BY <1>5, StartTyped
<1>6. CASE UNCHANGED vars
  BY <1>6 DEF vars
<1> QED
  BY <1>1, <1>2, <1>3, <1>4, <1>5, <1>6 DEF Next

\* The slot that is SERVED is the one the project references, and that one is
\* SERVED unless a stale edit overtook it, through every order of calls.
THEOREM ReferenceAgreesHolds == Spec => []ReferenceAgrees
<1>1. Typed /\ StatusInv /\ [Next]_vars => (Typed /\ StatusInv)'
  BY NextTyped, NextStatus
<1>2. Typed /\ StatusInv => ReferenceAgrees
  BY DEF StatusInv
<1> QED
  BY <1>1, <1>2, InitTyped, InitStatus, PTL DEF Spec

-----------------------------------------------------------------------------
(* What is served is what was approved.                                      *)

\* What a write of an edit does to the approval and to what others know.
LEMMA WriteTells ==
    ASSUME Typed, NEW q \in Calls, WriteConfig(q)
    PROVE  LET c == call[q] IN
           /\ c.op # "approve" => Learn(q, {c.slot}, "withdraw")
           /\ ~project.configsGone =>
                 /\ c.op \in {"approve", "cancel"} => cfg'[c.slot].file = cfg[c.slot].file
                 /\ c.op \in {"update", "import"} => cfg'[c.slot].file = c.file
                 /\ \A s \in Slots : approved'[s] =
                        IF c.op = "approve" THEN IF s = c.slot THEN c.file ELSE approved[s]
                        ELSE IF cfg'[s].status = Draft THEN None ELSE approved[s]
                 /\ lapses'.approval = IF c.op # "approve" THEN lapses.approval
                                       ELSE IF "withdraw" \in c.raced
                                       THEN lapses.approval \cup {c.slot}
                                       ELSE lapses.approval \ {c.slot}
                 /\ lapses'.budget = (lapses.budget \/ (c.op \in {"update", "import"}
                                         /\ "limits" \in c.raced /\ c.file \in Budgeted))
<1> DEFINE c == call[q]
<1>1. c.op \in Edits /\ c.slot \in Slots
  BY WriteIs
<1>2. c.op # "approve" => Learn(q, {c.slot}, "withdraw")
  <2> SUFFICES ASSUME c.op # "approve" PROVE Learn(q, {c.slot}, "withdraw")
    OBVIOUS
  <2> DEFINE o == Overlap(call, q, {c.slot}, "withdraw")
  <2>1. /\ o \in [Calls -> CallRecord \cup {Idle}]
        /\ \A p \in Calls \ {q} :
              \/ call[p].op \in Edits \cup {"serve"} /\ call[p].slot \in {c.slot}
              \/ call[p].op = "addLimits"
              => "withdraw" \in o[p].raced
    BY OverlapKin DEF Typed, TypeOK, Events
  <2>2. call' = [o EXCEPT ![q] = Idle]
    BY DEF WriteConfig
  <2> HIDE DEF o
  <2> QED
    BY <2>1, <2>2 DEF Learn
<1>3. ASSUME ~project.configsGone
      PROVE  /\ c.op \in {"approve", "cancel"} => cfg'[c.slot].file = cfg[c.slot].file
             /\ c.op \in {"update", "import"} => cfg'[c.slot].file = c.file
  <2>1. cfg'[c.slot] = EditedRow(c)
    BY <1>3, WriteIs
  <2> QED
    BY <2>1 DEF EditedRow
<1>4. ASSUME ~project.configsGone, NEW s \in Slots
      PROVE  approved'[s] =
                IF c.op = "approve" THEN IF s = c.slot THEN c.file ELSE approved[s]
                ELSE IF cfg'[s].status = Draft THEN None ELSE approved[s]
  <2>1. CASE c.op = "approve"
    <3>1. approved' = [approved EXCEPT ![c.slot] = c.file]
      BY <1>4, <2>1 DEF WriteConfig
    <3> QED
      BY <1>1, <2>1, <3>1 DEF Typed, TypeOK
  <2>2. CASE c.op # "approve"
    <3>1. approved' = Withdrawn(cfg')
      BY <1>4, <2>2 DEF WriteConfig
    <3> QED
      BY <2>2, <3>1 DEF Withdrawn
  <2> QED
    BY <2>1, <2>2
<1>5. ASSUME ~project.configsGone
      PROVE  /\ lapses'.approval = IF c.op # "approve" THEN lapses.approval
                                   ELSE IF "withdraw" \in c.raced
                                   THEN lapses.approval \cup {c.slot}
                                   ELSE lapses.approval \ {c.slot}
             /\ lapses'.budget = (lapses.budget \/ (c.op \in {"update", "import"}
                                     /\ "limits" \in c.raced /\ c.file \in Budgeted))
  BY <1>5 DEF WriteConfig, Typed, TypeOK, LapsesRecord
<1> QED
  BY <1>2, <1>3, <1>4, <1>5

\* A row loses its content or its approval only in front of the calls that read it.
LEMMA ReadsKnowMove ==
    ASSUME Typed, ReadsKnow, NEW q \in Calls, Moves(q), ReadHolds(call[q])',
           \A s \in Slots :
              \/ /\ cfg'[s].file = cfg[s].file
                 /\ cfg'[s].status = Draft => cfg[s].status = Draft
              \/ Learn(q, {s}, "withdraw")
    PROVE  ReadsKnow'
<1> SUFFICES ASSUME NEW p \in Calls, p # q PROVE ReadHolds(call[p])'
  BY DEF ReadsKnow
<1> DEFINE a == call[p]
           b == call'[p]
<1>1. Kin(a, b) /\ (Decided(b) <=> Decided(a)) /\ ReadHolds(a)
  BY KinKeeps DEF ReadsKnow
<1>2. b.op = a.op /\ b.pc = a.pc /\ b.slot = a.slot /\ b.file = a.file
      /\ a.raced \subseteq b.raced
  BY <1>1, KinFacts
<1> SUFFICES ASSUME "withdraw" \notin b.raced,
                    \/ a.op = "approve" /\ Decided(a)
                    \/ a.op = "serve" /\ a.pc \in {"limits", "serve"}
             PROVE  /\ a.op = "approve" /\ Decided(a) => a.file = cfg'[a.slot].file
                    /\ a.op = "serve" /\ a.pc \in {"limits", "serve"}
                          => cfg'[a.slot].status # Draft
  BY <1>1, <1>2 DEF ReadHolds
<1>3. a.op \in Edits \cup {"serve"} /\ a.slot \in Slots
  <2>1. a.op \in Ops
    BY DEF Ops, Edits, Servings
  <2>2. Shape(a)
    BY <2>1, RunningCall
  <2> QED
    BY <2>2 DEF Shape, Edits
<1>4. ~Learn(q, {a.slot}, "withdraw")
  BY <1>3 DEF Learn
<1>5. /\ cfg'[a.slot].file = cfg[a.slot].file
      /\ cfg'[a.slot].status = Draft => cfg[a.slot].status = Draft
  BY <1>3, <1>4
<1>6. /\ a.op = "approve" /\ Decided(a) => a.file = cfg[a.slot].file
      /\ a.op = "serve" /\ a.pc \in {"limits", "serve"} => cfg[a.slot].status # Draft
  BY <1>1, <1>2 DEF ReadHolds
<1> QED
  BY <1>5, <1>6

\* Every step of a call keeps what is approved apart from what is not.
LEMMA StepApproval ==
    ASSUME Typed, ApprovalInv, NEW q \in Calls, Step(q)
    PROVE  ApprovalInv'
<1> DEFINE c == call[q]
           d == call'[q]
<1>0. c \in CallRecord /\ Shape(c) /\ Moves(q)
  BY StepMoves, RunningCall
<1>1. ApprovedHeld /\ ReadsKnow /\ ReadHolds(c) /\ lapses.approval \subseteq Slots
  BY DEF ApprovalInv, ReadsKnow, Typed, TypeOK, LapsesRecord
<1>2. ASSUME ~ReadConfig(q), ~CheckBudget(q)
      PROVE  ReadHolds(call[q])'
  BY <1>2, OthersGo, PastNotDecided DEF ReadHolds
<1>3. CASE WriteConfig(q)
  <2> DEFINE s == c.slot
  <2>1. /\ s \in Slots /\ Decided(c) /\ ~ReadConfig(q) /\ ~CheckBudget(q)
        /\ c.op # "approve" => Learn(q, {s}, "withdraw")
    BY <1>3, WriteIs, WriteTells DEF WriteConfig, ReadConfig, CheckBudget
  <2>2. CASE project.configsGone
    <3>1. UNCHANGED <<cfg, lapses>> /\ approved' = Withdrawn(cfg)
      BY <1>3, <2>2, WriteIs
    <3>2. ReadsKnow'
      BY <1>0, <1>1, <1>2, <2>1, <3>1, ReadsKnowMove
    <3>3. ApprovedHeld'
      BY <1>1, <3>1 DEF ApprovedHeld, Withdrawn
    <3> QED
      BY <3>2, <3>3 DEF ApprovalInv
  <2>3. CASE ~project.configsGone
    <3>1. \A t \in Slots \ {s} : cfg'[t] = cfg[t]
      BY <1>3, <2>3, WriteIs
    <3>2. c.op = "approve" => cfg'[s].status = Ready /\ cfg'[s].file = cfg[s].file
      BY <1>3, <2>3, WriteIs, WriteTells
    <3>3. c.op # "approve" => cfg'[s].status = Draft
      BY <1>3, <2>3, WriteIs
    <3>4. ReadsKnow'
      <4>1. ASSUME NEW t \in Slots
            PROVE  \/ /\ cfg'[t].file = cfg[t].file
                      /\ cfg'[t].status = Draft => cfg[t].status = Draft
                   \/ Learn(q, {t}, "withdraw")
        BY <2>1, <3>1, <3>2 DEF Draft, Ready
      <4> QED
        BY <1>0, <1>1, <1>2, <2>1, <4>1, ReadsKnowMove
    <3>5. ASSUME NEW t \in Slots, cfg'[t].status # Draft, t \notin lapses'.approval
          PROVE  approved'[t] = cfg'[t].file
      <4>1. CASE c.op = "approve"
        <5>1. /\ approved'[t] = IF t = s THEN c.file ELSE approved[t]
              /\ lapses'.approval = IF "withdraw" \in c.raced THEN lapses.approval \cup {s}
                                    ELSE lapses.approval \ {s}
          BY <1>3, <2>3, <4>1, WriteTells
        <5>2. CASE t = s
          BY <1>1, <2>1, <3>2, <3>5, <4>1, <5>1, <5>2 DEF ReadHolds
        <5>3. CASE t # s
          BY <1>1, <3>1, <3>5, <5>1, <5>3 DEF ApprovedHeld
        <5> QED
          BY <5>2, <5>3
      <4>2. CASE c.op # "approve"
        <5>1. approved'[t] = approved[t] /\ lapses'.approval = lapses.approval /\ t # s
          BY <1>3, <2>3, <3>3, <3>5, <4>2, WriteTells
        <5> QED
          BY <1>1, <3>1, <3>5, <5>1 DEF ApprovedHeld
      <4> QED
        BY <4>1, <4>2
    <3> QED
      BY <3>4, <3>5 DEF ApprovalInv, ApprovedHeld
  <2> QED
    BY <2>2, <2>3
<1>4. CASE Serve(q)
  <2> DEFINE s == c.slot
  <2>1. /\ s \in Slots /\ c.op = "serve" /\ c.pc = "serve"
        /\ ~ReadConfig(q) /\ ~CheckBudget(q) /\ ~project.configsGone
    BY <1>4, ServeIs DEF Serve, ReadConfig, CheckBudget
  <2>2. /\ cfg'[s].status = Served /\ \A t \in Slots : cfg'[t].file = cfg[t].file
        /\ \A t \in Slots \ {s} : cfg'[t].status = IF cfg[t].status = Served THEN Draft
                                                   ELSE cfg[t].status
    BY <1>4, ServeIs
  <2>3. Learn(q, ServedSlots \ {s}, "withdraw")
    BY <1>4, ServeIs
  <2>4. ReadsKnow'
    <3>1. ASSUME NEW t \in Slots
          PROVE  \/ /\ cfg'[t].file = cfg[t].file
                    /\ cfg'[t].status = Draft => cfg[t].status = Draft
                 \/ Learn(q, {t}, "withdraw")
      <4>1. CASE t # s /\ cfg[t].status = Served
        <5>1. t \in ServedSlots \ {s}
          BY <2>1, <4>1 DEF ServedSlots
        <5> QED
          BY <2>3, <5>1 DEF Learn
      <4>2. CASE t = s \/ cfg[t].status # Served
        BY <2>2, <4>2 DEF Draft, Served
      <4> QED
        BY <4>1, <4>2
    <3> QED
      BY <1>0, <1>1, <1>2, <2>1, <3>1, ReadsKnowMove
  <2>5. ASSUME NEW t \in Slots, cfg'[t].status # Draft, t \notin lapses'.approval
        PROVE  approved'[t] = cfg'[t].file
    <3>1. approved'[t] = approved[t]
      BY <1>4, <2>5, ServeIs DEF Withdrawn
    <3>2. t \notin lapses.approval /\ (t = s => "withdraw" \notin c.raced)
      BY <1>4, <2>5, ServeIs
    <3>3. cfg[t].status # Draft
      BY <1>1, <2>1, <2>2, <2>5, <3>2 DEF ReadHolds
    <3> QED
      BY <1>1, <2>2, <3>1, <3>2, <3>3 DEF ApprovedHeld
  <2> QED
    BY <2>4, <2>5 DEF ApprovalInv, ApprovedHeld
<1>5. CASE Unserve(q)
  <2> DEFINE s == c.slot
  <2>1. s \in Slots /\ ~ReadConfig(q) /\ ~CheckBudget(q) /\ approved' = Withdrawn(cfg')
    BY <1>5, UnserveIs DEF Unserve, ReadConfig, CheckBudget
  <2>2. /\ \A t \in Slots \ {s} : cfg'[t] = cfg[t]
        /\ cfg' = cfg \/ (cfg'[s].status = Draft /\ Learn(q, {s}, "withdraw"))
        /\ lapses'.approval = lapses.approval
    BY <1>5, UnserveIs
  <2>3. ReadsKnow'
    BY <1>0, <1>1, <1>2, <2>1, <2>2, ReadsKnowMove
  <2>4. ApprovedHeld'
    BY <1>1, <2>1, <2>2 DEF ApprovedHeld, Withdrawn
  <2> QED
    BY <2>3, <2>4 DEF ApprovalInv
<1>6. CASE ~WriteConfig(q) /\ ~Serve(q) /\ ~Unserve(q)
  <2>1. UNCHANGED <<cfg, approved>> /\ lapses'.approval = lapses.approval
    BY <1>6, StatusFrame
  <2>2. ReadHolds(call[q])'
    <3>1. CASE d = Idle
      BY <3>1, IdleFacts DEF ReadHolds, Edits, Ops, Servings
    <3>2. CASE ReadConfig(q) /\ d # Idle
      BY <2>1, <3>2, ReadGoes
         DEF ReadHolds, Decided, Admits, AfterRead, Draft, Ready, Edits
    <3>3. CASE CheckBudget(q) /\ d # Idle
      <4>1. /\ c.op \in {"update", "import", "approve", "serve"} /\ c.pc = "limits"
            /\ d.op = c.op /\ d.pc = AfterLimits[c.op] /\ d.slot = c.slot
            /\ d.raced = c.raced /\ d.file = c.file
        BY <3>3, BudgetGoes DEF CheckBudget
      <4> QED
        BY <1>1, <2>1, <4>1 DEF ReadHolds, Decided, AfterLimits
    <3> QED
      BY <1>2, <3>1, <3>2, <3>3
  <2>3. ReadsKnow'
    BY <1>0, <1>1, <2>1, <2>2, ReadsKnowMove
  <2> QED
    BY <1>1, <2>1, <2>3 DEF ApprovalInv, ApprovedHeld
<1> QED
  BY <1>3, <1>4, <1>5, <1>6

LEMMA InitApproval == Init => ApprovalInv
<1> SUFFICES ASSUME Init PROVE ApprovalInv
  OBVIOUS
<1>1. ASSUME NEW s \in Slots, cfg[s].status # Draft PROVE approved[s] = cfg[s].file
  BY <1>1 DEF Init, Draft, Ready
<1>2. ReadsKnow
  BY IdleFacts DEF Init, ReadsKnow, ReadHolds, Ops, Edits, Servings
<1> QED
  BY <1>1, <1>2 DEF ApprovalInv, ApprovedHeld

LEMMA NextApproval == Typed /\ ApprovalInv /\ [Next]_vars => ApprovalInv'
<1> SUFFICES ASSUME Typed, ApprovalInv, [Next]_vars PROVE ApprovalInv'
  OBVIOUS
<1>0. ReadHolds(Idle)'
  BY IdleFacts DEF ReadHolds, Ops, Edits, Servings
<1>1. ASSUME NEW q \in Calls, NEW r \in Replicas, BeginSome(q, r) PROVE ApprovalInv'
  <2>1. ReadHolds(call[q])'
    <3>1. call'[q].pc = First[call'[q].op]
      BY <1>1, BeginMoves
    <3> QED
      BY <3>1 DEF First, Decided, ReadHolds, Ops, Edits, Servings, Others
  <2> QED
    BY <1>1, <2>1, BeginMoves DEF ApprovalInv, ApprovedHeld, ReadsKnow, ReadHolds
<1>2. ASSUME NEW q \in Calls, Step(q) PROVE ApprovalInv'
  BY <1>2, StepApproval
<1>3. CASE DeleteLimits
  BY <1>3 DEF DeleteLimits, ApprovalInv, ApprovedHeld, ReadsKnow, ReadHolds
<1>4. ASSUME NEW r \in Replicas, Crash(r) PROVE ApprovalInv'
  <2>1. lapses'.approval = lapses.approval
    BY <1>4, CrashTyped DEF Typed, TypeOK, LapsesRecord
  <2>2. ReadsKnow'
    BY <1>0, <1>4, CrashTyped DEF ApprovalInv, ReadsKnow, ReadHolds
  <2> QED
    BY <1>4, <2>1, <2>2, CrashTyped DEF ApprovalInv, ApprovedHeld
<1>5. ASSUME NEW r \in Replicas, Boot(r) \/ Open(r) PROVE ApprovalInv'
  BY <1>5, StartTyped DEF ApprovalInv, ApprovedHeld, ReadsKnow, ReadHolds
<1>6. CASE UNCHANGED vars
  BY <1>6 DEF vars, ApprovalInv, ApprovedHeld, ReadsKnow, ReadHolds
<1> QED
  BY <1>1, <1>2, <1>3, <1>4, <1>5, <1>6 DEF Next

\* What the project references is what was approved, unless an approval was
\* withdrawn while it was being acted on or a stale edit overtook the serve.
THEOREM ServedAsApprovedHolds == Spec => []ServedAsApproved
<1> DEFINE Inv == Typed /\ StatusInv /\ ApprovalInv
<1>1. Inv /\ [Next]_vars => Inv'
  BY NextTyped, NextStatus, NextApproval
<1>2. Inv => ServedAsApproved
  BY DEF StatusInv, ReferenceAgrees, ReferenceIsServed, ApprovalInv, ApprovedHeld,
     ServedAsApproved, Typed, TypeOK, Draft, Served
<1>3. Init => Inv
  BY InitTyped, InitStatus, InitApproval
<1> QED
  BY <1>1, <1>2, <1>3, PTL DEF Spec

-----------------------------------------------------------------------------
(* The project's limits and those of the served routes exclude each other.   *)

\* What is served without a stale edit changes by a serve, an unserve or a deletion.
LEMMA ServedStays ==
    ASSUME Typed, StatusInv, NEW q \in Calls, Step(q), ~Serve(q),
           project'.ref \notin lapses'.status
    PROVE  /\ ServedFile' = None \/ (ServedFile' = ServedFile /\ project.ref \notin lapses.status)
           /\ ~Unserve(q) /\ ~SoftDelete(q) =>
                 /\ UNCHANGED project /\ ServedFile' = ServedFile
                 /\ project.ref \notin lapses.status
           /\ Unserve(q) \/ SoftDelete(q) => lapses'.status = lapses.status
<1>1. /\ ReferenceIsServed /\ EditsKnow /\ lapses.status \subseteq Slots
      /\ project.ref \in Slots \cup {None} /\ None \notin Slots
  BY ProjectConfigAssumption DEF StatusInv, ReferenceAgrees, Typed, TypeOK, LapsesRecord
<1>2. CASE WriteConfig(q)
  <2> DEFINE s == call[q].slot
  <2>1. UNCHANGED project /\ ~Unserve(q) /\ ~SoftDelete(q)
    BY <1>2 DEF WriteConfig, Unserve, SoftDelete
  <2>2. CASE project.configsGone
    BY <1>2, <2>1, <2>2, WriteIs DEF ServedFile
  <2>3. CASE ~project.configsGone
    <3>1. /\ s \in Slots /\ Decided(call[q]) /\ \A t \in Slots \ {s} : cfg'[t] = cfg[t]
          /\ lapses'.status = IF cfg[s].status = Served /\ "serve" \in call[q].raced
                              THEN lapses.status \cup {s} ELSE lapses.status
      BY <1>2, <2>3, WriteIs
    <3>2. project.ref \notin lapses.status /\ project.ref # s
      BY <1>1, <2>1, <3>1 DEF ReferenceIsServed, EditsKnow
    <3> QED
      BY <1>1, <2>1, <3>1, <3>2 DEF ServedFile
  <2> QED
    BY <2>2, <2>3
<1>3. CASE Unserve(q)
  <2>1. /\ \A t \in Slots : cfg'[t].file = cfg[t].file
        /\ lapses'.status = lapses.status
        /\ project'.ref = None \/ UNCHANGED project.ref
        /\ project'.gone = project.gone /\ project'.configsGone = project.configsGone
    BY <1>3, UnserveIs
  <2>2. ~SoftDelete(q)
    BY <1>3 DEF Unserve, SoftDelete
  <2> QED
    BY <1>1, <1>3, <2>1, <2>2 DEF ServedFile
<1>4. CASE ~WriteConfig(q) /\ ~Unserve(q)
  <2>1. cfg' = cfg /\ project'.ref = project.ref /\ lapses'.status = lapses.status
        /\ (~SoftDelete(q) => UNCHANGED project)
    BY <1>4, StatusFrame
  <2>2. CASE SoftDelete(q)
    <3>1. project'.configsGone \/ project'.gone
      BY <2>2 DEF SoftDelete, Typed, TypeOK
    <3> QED
      BY <1>4, <2>1, <2>2, <3>1 DEF ServedFile
  <2>3. CASE ~SoftDelete(q)
    BY <1>4, <2>1, <2>3 DEF ServedFile
  <2> QED
    BY <2>2, <2>3
<1> QED
  BY <1>2, <1>3, <1>4

\* Limits are set in front of every call that looks at them.
LEMMA InsertIs ==
    ASSUME Typed, NEW q \in Calls, InsertLimits(q)
    PROVE  /\ limits' /\ UNCHANGED <<cfg, project>> /\ call'[q] = Idle
           /\ lapses'.status = lapses.status
           /\ lapses'.budget = (lapses.budget \/ "serve" \in call[q].raced)
           /\ Learn(q, Slots, "limits")
<1> DEFINE o == Overlap(call, q, Slots, "limits")
<1>1. /\ o \in [Calls -> CallRecord \cup {Idle}]
      /\ \A p \in Calls \ {q} :
            \/ call[p].op \in Edits \cup {"serve"} /\ call[p].slot \in Slots
            \/ call[p].op = "addLimits"
            => "limits" \in o[p].raced
  BY OverlapKin DEF Typed, TypeOK, Events
<1>2. call' = [o EXCEPT ![q] = Idle]
  BY DEF InsertLimits
<1> HIDE DEF o
<1>3. Learn(q, Slots, "limits") /\ call'[q] = Idle
  BY <1>1, <1>2 DEF Learn
<1>4. /\ lapses'.status = lapses.status
      /\ lapses'.budget = (lapses.budget \/ "serve" \in call[q].raced)
  BY DEF InsertLimits, Typed, TypeOK, LapsesRecord
<1> QED
  BY <1>3, <1>4 DEF InsertLimits

\* A row takes a content with a budget of its own only where limits are not
\* set, or it is known.
LEMMA LimitsKnownMove ==
    ASSUME Typed, LimitsKnown, NEW q \in Calls, Moves(q), LimitsHold(call[q])',
           lapses.budget => lapses'.budget,
           limits' => limits \/ Learn(q, Slots, "limits"),
           \A s \in Slots : limits /\ cfg'[s].file \in Budgeted /\ ~lapses'.budget
                            => cfg[s].file \in Budgeted
    PROVE  LimitsKnown'
<1> SUFFICES ASSUME NEW p \in Calls, p # q PROVE LimitsHold(call[p])'
  BY DEF LimitsKnown
<1> DEFINE a == call[p]
           b == call'[p]
<1>1. Kin(a, b) /\ LimitsHold(a)
  BY DEF LimitsKnown, Moves
<1>2. b.op = a.op /\ b.pc = a.pc /\ b.slot = a.slot /\ b.file = a.file
      /\ a.raced \subseteq b.raced
  BY <1>1, KinFacts
<1> SUFFICES ASSUME limits', "limits" \notin b.raced, a.op \in {"update", "import", "serve"}
             PROVE  LimitsHold(call[p])'
  BY <1>2 DEF LimitsHold
<1>3. a.op \in Edits \cup {"serve"} /\ a.slot \in Slots
  <2>1. a.op \in Ops
    BY DEF Ops, Edits, Servings
  <2>2. Shape(a)
    BY <2>1, RunningCall
  <2> QED
    BY <2>2 DEF Shape, Edits
<1>4. limits
  BY <1>3 DEF Learn
<1> QED
  BY <1>1, <1>2, <1>3, <1>4 DEF LimitsHold

\* Every step of a call keeps the limits apart, or the call knows.
LEMMA StepBudget ==
    ASSUME Typed, StatusInv, BudgetInv, NEW q \in Calls, Step(q)
    PROVE  BudgetInv'
<1> DEFINE c == call[q]
           d == call'[q]
<1>0. c \in CallRecord /\ Shape(c) /\ Moves(q) /\ LimitsHold(c) /\ ServedHolds(c)
  BY StepMoves, RunningCall DEF BudgetInv, LimitsKnown, ServedKnown
<1>1. /\ BudgetExclusive /\ LimitsKnown /\ ServedKnown /\ ReferenceIsServed
      /\ GoneAfterConfigs /\ None \notin Budgeted /\ lapses.budget \in BOOLEAN
  BY ProjectConfigAssumption
     DEF BudgetInv, StatusInv, ReferenceAgrees, Typed, TypeOK, LapsesRecord
\* What is recorded of an overlap stays; limits come by InsertLimits alone.
<1>2. lapses.budget => lapses'.budget
  BY StatusFrame, WriteIs, WriteTells, ServeIs, UnserveIs
<1>3. ~InsertLimits(q) => (limits' => limits)
  BY StatusFrame DEF WriteConfig, Serve, Unserve
<1>4. ASSUME NEW t \in Slots, limits, cfg'[t].file \in Budgeted, ~lapses'.budget
      PROVE  cfg[t].file \in Budgeted
  <2>1. CASE WriteConfig(q)
    <3>1. CASE project.configsGone
      BY <1>4, <2>1, <3>1, WriteIs
    <3>2. CASE ~project.configsGone
      <4>1. /\ c.op \in Edits /\ c.slot \in Slots /\ c.pc = "write"
            /\ t # c.slot => cfg'[t] = cfg[t]
            /\ c.op \in {"approve", "cancel"} => cfg'[c.slot].file = cfg[c.slot].file
            /\ c.op \in {"update", "import"} => cfg'[c.slot].file = c.file
            /\ lapses'.budget = (lapses.budget \/ (c.op \in {"update", "import"}
                                    /\ "limits" \in c.raced /\ c.file \in Budgeted))
        BY <2>1, <3>2, WriteIs, WriteTells DEF WriteConfig
      <4>2. ~(c.op \in {"update", "import"} /\ c.file \in Budgeted)
        BY <1>0, <1>4, <4>1 DEF LimitsHold
      <4> QED
        BY <1>4, <4>1, <4>2 DEF Edits
    <3> QED
      BY <3>1, <3>2
  <2>2. CASE ~WriteConfig(q)
    BY ZenonT(60), <1>4, <2>2, StatusFrame, ServeIs, UnserveIs
  <2> QED
    BY <2>1, <2>2
<1>5. LimitsHold(call[q])'
  <2>1. CASE d = Idle
    BY <2>1, IdleFacts DEF LimitsHold, Ops, Edits, Servings
  <2>2. CASE ReadConfig(q) /\ d # Idle
    <3>1. /\ c.pc = "read" /\ c.op \in Edits \cup {"serve", "unserve"} /\ c.slot \in Slots
          /\ d.op = c.op /\ d.pc = AfterRead[c.op] /\ d.slot = c.slot /\ d.raced = c.raced
          /\ d.file = IF c.op \in {"update", "import"} THEN c.file ELSE cfg[c.slot].file
          /\ UNCHANGED <<cfg, limits, lapses>>
      BY <2>2, ReadGoes DEF ReadConfig
    <3> QED
      BY <1>0, <3>1 DEF LimitsHold, AfterRead, Edits
  <2>3. CASE CheckBudget(q) /\ d # Idle
    <3>1. /\ c.pc = "limits" /\ c.op \in {"update", "import", "approve", "serve"}
          /\ d.op = c.op /\ d.pc = AfterLimits[c.op] /\ d.slot = c.slot
          /\ d.raced = c.raced /\ d.file = c.file
          /\ ~(c.file \in Budgeted /\ limits)
          /\ UNCHANGED <<cfg, limits, lapses>>
      BY <2>3, BudgetGoes DEF CheckBudget
    <3> QED
      BY <1>0, <3>1 DEF LimitsHold, AfterLimits
  <2>4. CASE ~ReadConfig(q) /\ ~CheckBudget(q)
    BY <2>4, OthersGo, PastNotDecided DEF LimitsHold
  <2> QED
    BY <2>1, <2>2, <2>3, <2>4
<1>6. LimitsKnown'
  BY <1>0, <1>1, <1>2, <1>3, <1>4, <1>5, InsertIs, LimitsKnownMove
<1>7. ServedKnown'
  <2> SUFFICES ASSUME NEW p \in Calls, call'[p].pc = "insert", "serve" \notin call'[p].raced,
                      project'.ref \notin lapses'.status
               PROVE  ServedFile' \notin Budgeted
    BY DEF ServedKnown, ServedHolds
  <2>1. CASE p # q
    <3>1. Kin(call[p], call'[p])
      BY <2>1, <1>0 DEF Moves
    <3>2. /\ call[p].pc = "insert" /\ "serve" \notin call[p].raced
          /\ ServedHolds(call[p])
      BY <1>1, <3>1, KinFacts DEF ServedKnown
    <3>3. call[p].op = "addLimits"
      BY <3>2, RunningCall, At DEF Points
    <3>4. ~Serve(q)
      BY <2>1, <3>3, ServeIs DEF Learn
    <3> QED
      BY <1>1, <3>2, <3>4, ServedStays DEF ServedHolds
  <2>2. CASE p = q
    <3>1. d # Idle /\ ~ReadConfig(q) /\ ~CheckBudget(q)
      BY <2>2, ReadGoes, BudgetGoes, IdleFacts DEF AfterRead, AfterLimits, Edits, Points
    <3>2. CheckServed(q)
      BY <2>2, <3>1, OthersGo
    <3>3. ~project.gone /\ \A s \in ServedSlots : cfg[s].file \notin Budgeted
      BY <3>1, <3>2 DEF CheckServed, Finish, Typed, TypeOK
    <3>4. UNCHANGED <<cfg, project, lapses>>
      BY <3>2 DEF CheckServed
    <3>5. project.ref \in Slots => project.configsGone \/ project.ref \in ServedSlots
      BY <1>1, <3>4, ProjectConfigAssumption DEF ReferenceIsServed, ServedSlots
    <3> QED
      BY <1>1, <3>3, <3>4, <3>5, ServedFileType DEF ServedFile
  <2> QED
    BY <2>1, <2>2
<1>8. BudgetExclusive'
  <2> SUFFICES ASSUME limits', ~lapses'.budget, project'.ref \notin lapses'.status
               PROVE  ServedFile' \notin Budgeted
    BY DEF BudgetExclusive
  <2>1. CASE Serve(q)
    <3>1. /\ limits /\ c.pc = "serve" /\ c.op = "serve" /\ ~lapses.budget
          /\ ~("limits" \in c.raced /\ cfg[c.slot].file \in Budgeted)
          /\ cfg'[c.slot].file = cfg[c.slot].file /\ project'.ref = c.slot
      BY <2>1, ServeIs DEF Serve
    <3>2. cfg'[c.slot].file \notin Budgeted
      BY <1>0, <3>1 DEF LimitsHold
    <3> QED
      BY <1>1, <3>1, <3>2 DEF ServedFile
  <2>2. CASE InsertLimits(q)
    <3>1. c.pc = "insert" /\ "serve" \notin c.raced /\ project.ref \notin lapses.status
          /\ ServedFile' = ServedFile
      BY <2>2, InsertIs DEF InsertLimits, ServedFile
    <3> QED
      BY <1>0, <3>1 DEF ServedHolds
  <2>3. CASE ~Serve(q) /\ ~InsertLimits(q)
    BY <1>1, <1>2, <1>3, <2>3, ServedStays DEF BudgetExclusive
  <2> QED
    BY <2>1, <2>2, <2>3
<1> QED
  BY <1>6, <1>7, <1>8 DEF BudgetInv

LEMMA InitBudget == Init => BudgetInv
  BY IdleFacts DEF Init, BudgetInv, BudgetExclusive, LimitsKnown, LimitsHold, ServedKnown,
     ServedHolds, Points

LEMMA NextBudget == Typed /\ StatusInv /\ BudgetInv /\ [Next]_vars => BudgetInv'
<1> SUFFICES ASSUME Typed, StatusInv, BudgetInv, [Next]_vars PROVE BudgetInv'
  OBVIOUS
<1>0. LimitsHold(Idle)' /\ ServedHolds(Idle)'
  BY IdleFacts DEF LimitsHold, ServedHolds, Points, Ops, Edits, Servings
<1>1. ASSUME UNCHANGED <<cfg, project>>, limits' => limits,
             lapses'.status = lapses.status, lapses'.budget = lapses.budget,
             \A q \in Calls : \/ call'[q] = call[q]
                              \/ LimitsHold(call[q])' /\ ServedHolds(call[q])'
      PROVE  BudgetInv'
  <2>1. ServedFile' = ServedFile
    BY <1>1 DEF ServedFile
  <2>2. BudgetExclusive'
    BY <1>1, <2>1 DEF BudgetInv, BudgetExclusive
  <2>3. LimitsKnown'
    BY <1>1 DEF BudgetInv, LimitsKnown, LimitsHold
  <2>4. ServedKnown'
    BY <1>1, <2>1 DEF BudgetInv, ServedKnown, ServedHolds
  <2> QED
    BY <2>2, <2>3, <2>4 DEF BudgetInv
<1>2. ASSUME NEW q \in Calls, NEW r \in Replicas, BeginSome(q, r) PROVE BudgetInv'
  <2>1. call'[q].op \in Ops /\ call'[q].pc = First[call'[q].op]
    BY <1>2, BeginMoves DEF CallRecord
  <2>2. LimitsHold(call[q])' /\ ServedHolds(call[q])'
    BY <2>1 DEF First, LimitsHold, ServedHolds, Ops, Edits, Servings, Others
  <2> QED
    BY <1>1, <1>2, <2>2, BeginMoves
<1>3. ASSUME NEW q \in Calls, Step(q) PROVE BudgetInv'
  BY <1>3, StepBudget
<1>4. CASE DeleteLimits
  BY <1>1, <1>4 DEF DeleteLimits
<1>5. ASSUME NEW r \in Replicas, Crash(r) PROVE BudgetInv'
  <2>1. lapses'.status = lapses.status /\ lapses'.budget = lapses.budget
    BY <1>5, CrashTyped DEF Typed, TypeOK, LapsesRecord
  <2>2. \A q \in Calls : call'[q] = call[q] \/ (LimitsHold(call[q])' /\ ServedHolds(call[q])')
    BY <1>0, <1>5, CrashTyped DEF LimitsHold, ServedHolds
  <2> QED
    BY <1>1, <1>5, <2>1, <2>2, CrashTyped
<1>6. ASSUME NEW r \in Replicas, Boot(r) \/ Open(r) PROVE BudgetInv'
  BY <1>1, <1>6, StartTyped
<1>7. CASE UNCHANGED vars
  BY <1>1, <1>7 DEF vars
<1> QED
  BY <1>2, <1>3, <1>4, <1>5, <1>6, <1>7 DEF Next

\* The project's own limits and limits on its served routes exclude each
\* other, unless limits and content were checked and written by overlapping calls.
THEOREM BudgetExclusiveHolds == Spec => []BudgetExclusive
<1> DEFINE Inv == Typed /\ StatusInv /\ BudgetInv
<1>1. Inv /\ [Next]_vars => Inv'
  BY NextTyped, NextStatus, NextBudget
<1>2. Inv => BudgetExclusive
  BY DEF BudgetInv
<1>3. Init => Inv
  BY InitTyped, InitStatus, InitBudget
<1> QED
  BY <1>1, <1>2, <1>3, PTL DEF Spec

-----------------------------------------------------------------------------
(* The routes follow what is served.                                         *)

\* Only the two steps of a serving call on the routes change routes, its own.
LEMMA RoutesFrame ==
    ASSUME Typed, NEW q \in Calls, Step(q), NEW r \in Replicas,
           r # call[q].at \/ (~Drop(q) /\ ~Build(q))
    PROVE  SameBut(replica[r], replica'[r])
<1>0. call[q] \in CallRecord
  BY StepMoves
<1>1. CASE replica' = replica
  BY <1>1 DEF SameBut
<1>2. CASE replica' = Freed(q)
  BY <1>0, <1>2, EndHolds
<1>3. CASE Drop(q) \/ Build(q)
  BY <1>3 DEF Drop, Build, Typed, TypeOK, SameBut
<1>4. ~Drop(q) /\ ~Build(q) => replica' = replica \/ replica' = Freed(q)
  BY DEF Step, ReadConfig, CheckBudget, WriteConfig, Serve, ServeDeleted, Unserve,
     OutProject, OutConfigs, Cleanup, DeleteProject, FindServed, SoftDelete, DropLimits,
     CheckServed, InsertLimits, ValidateRoute, Associate, Fail, Finish, GoTo
<1> QED
  BY <1>1, <1>2, <1>3, <1>4

\* A serving call that acts is a serving call; another has nothing to rely on.
LEMMA ActsIsServing ==
    ASSUME NEW c
    PROVE  /\ Acts(c) => c.op \in Servings
           /\ c.op \notin Servings => Relies(c)
           /\ Acts(c) => c.op \in Servings /\ c.pc \notin {"read", "limits", "write", "serve",
                 "insert", "associate", "served", "validate", "unserve", "project", "findServed"}
  BY DEF Acts, Relies, Servings

\* A replica that a change of what is served does not pass by is the one of
\* the call, which alone acts there, or it is down.
LEMMA CommitTracks ==
    ASSUME Typed, NEW q \in Calls, call[q] \in CallRecord, Moves(q), Holds(q), Typed',
           NEW r \in Replicas, r \notin PassedBy(q),
           r = call[q].at => call'[q] # Idle /\ Acts(call'[q]) /\ Relies(call[q])'
    PROVE  Tracks(r)'
<1>1. replica'[r].state = replica[r].state
  BY DEF Holds
<1>2. ASSUME NEW p \in Calls, call'[p].at = r
      PROVE  call[p].at = r /\ replica[r].state = "up"
  <2>1. call'[p] # Idle
    BY <1>2, IdleFacts
  <2>2. call[p].at = r
    BY <1>2, <2>1 DEF Moves, Kin
  <2> QED
    BY <2>2, RunningCall
<1>3. CASE r # call[q].at
  <2>1. replica[r].state = "down"
    BY <1>3 DEF PassedBy
  <2>2. \A p \in Calls : call'[p].at # r
    BY <1>2, <2>1
  <2> QED
    BY <1>1, <2>1, <2>2 DEF Tracks
<1>4. CASE r = call[q].at
  <2>1. ASSUME NEW p \in Calls, p # q, call'[p].at = r
        PROVE  call'[p].op \notin Servings
    <3>1. call[p].at = r /\ call'[p].op = call[p].op
      BY <1>2, <2>1, KinFacts DEF Moves
    <3> QED
      BY <1>4, <2>1, <3>1 DEF PassedBy
  <2>2. \A p \in Calls : call'[p].at = r /\ Acts(call'[p]) => p = q
    BY <2>1, ActsIsServing
  <2>3. \A p \in Calls : call'[p].at = r => Relies(call[p])'
    <3>1. ASSUME NEW p \in Calls, p # q, call'[p].at = r PROVE Relies(call[p])'
      <4>1. call'[p].op \notin Servings
        BY <2>1, <3>1
      <4> QED
        BY <4>1 DEF Relies, Servings
    <3> QED
      BY <1>4, <3>1
  <2>4. call'[q].at = r /\ replica[r].state = "up"
    BY <1>4, RunningCall DEF Moves
  <2> QED
    BY <1>1, <1>4, <2>2, <2>3, <2>4 DEF Tracks
<1> QED
  BY <1>3, <1>4

\* A step that leaves what is served alone: another's routes are its own
\* affair, and the acting call hands the routes over as they should be.
LEMMA TracksMove ==
    ASSUME Typed, NEW q \in Calls, call[q] \in CallRecord, Moves(q), Holds(q),
           UNCHANGED project,
           project'.ref \notin lapses'.status
               => project.ref \notin lapses.status /\ ServedFile' = ServedFile,
           ServedFile = None => ServedFile' = None,
           NEW r \in Replicas, Tracks(r),
           SameBut(replica[r], replica'[r]) \/ (call[q].at = r /\ Acts(call[q])),
           call[q].at = r =>
              /\ Acts(call'[q]) => Acts(call[q])
              /\ call'[q] = Idle \/ Relies(call[q])'
              /\ Acts(call[q]) /\ ~Acts(call'[q]) /\ project'.ref \notin lapses'.status
                    => Shows(r, ServedFile)'
    PROVE  Tracks(r)'
<1> DEFINE settled == project.ref \notin lapses.status
           settled2 == project'.ref \notin lapses'.status
<1>1. ASSUME NEW p \in Calls, call'[p].at = r
      PROVE  call[p].at = r /\ call'[p] # Idle
  <2>1. call'[p] # Idle
    BY <1>1, IdleFacts
  <2> QED
    BY <1>1, <2>1 DEF Moves, Kin
<1>2. ASSUME NEW p \in Calls, call'[p].at = r, Acts(call'[p])
      PROVE  call[p].at = r /\ Acts(call[p])
  BY <1>1, <1>2, KinKeeps
<1>3. \A p, p2 \in Calls : /\ call'[p].at = r /\ call'[p2].at = r
                           /\ Acts(call'[p]) /\ Acts(call'[p2])
                           => p = p2
  BY <1>2 DEF Tracks
<1>4. ASSUME NEW p \in Calls, call'[p].at = r PROVE Relies(call[p])'
  <2>1. CASE p = q
    BY <1>1, <1>4, <2>1
  <2>2. CASE p # q
    <3>1. Kin(call[p], call'[p]) /\ (Acts(call'[p]) <=> Acts(call[p]))
      BY <2>2, KinKeeps
    <3>2. /\ call'[p].op = call[p].op /\ call'[p].pc = call[p].pc /\ call'[p].at = r
          /\ call[p].at = r /\ call'[p].slot = call[p].slot /\ call'[p].file = call[p].file
          /\ call'[p].ref = call[p].ref
      BY <1>1, <1>4, <3>1, KinFacts
    <3>3. Relies(call[p])
      BY <3>2 DEF Tracks
    <3>4. ASSUME Acts(call[p]), NEW f PROVE Shows(r, f) => Shows(r, f)'
      <4>1. SameBut(replica[r], replica'[r])
        BY <2>2, <3>2, <3>4 DEF Tracks
      <4> QED
        BY <4>1 DEF SameBut, Shows
    <3>5. CASE call[p].op = "serve"
      BY <3>1, <3>2, <3>3, <3>4, <3>5 DEF Relies
    <3>6. CASE call[p].op = "unserve"
      BY <3>1, <3>2, <3>3, <3>6 DEF Relies
    <3>7. CASE call[p].op = "delete"
      BY <3>1, <3>2, <3>3, <3>4, <3>7 DEF Relies
    <3> QED
      BY <3>2, <3>5, <3>6, <3>7 DEF Relies
  <2> QED
    BY <2>1, <2>2
<1>5. ASSUME settled2, replica'[r].state = "up",
             \A p \in Calls : call'[p].at = r => ~Acts(call'[p])
      PROVE  Shows(r, ServedFile)'
  <2>1. replica[r].state = "up"
    BY <1>5 DEF Holds
  <2>2. ASSUME NEW p \in Calls, p # q, call[p].at = r PROVE ~Acts(call[p])
    <3>1. Kin(call[p], call'[p]) /\ (Acts(call'[p]) <=> Acts(call[p]))
      BY <2>2, KinKeeps
    <3> QED
      BY <1>5, <2>2, <3>1, KinFacts
  <2>3. CASE call[q].at = r /\ Acts(call[q])
    <3>1. ~Acts(call'[q])
      BY <1>5, <2>3 DEF Moves, Acts, Idle
    <3> QED
      BY <1>5, <2>3, <3>1
  <2>4. CASE ~(call[q].at = r /\ Acts(call[q]))
    <3>1. Shows(r, ServedFile)
      BY <1>5, <2>1, <2>2, <2>4 DEF Tracks
    <3> QED
      BY <1>5, <2>4, <3>1 DEF Shows, SameBut
  <2> QED
    BY <2>3, <2>4
<1>6. settled2 /\ replica'[r].state = "booting" => replica'[r].boot = ServedFile'
  BY DEF Holds, Tracks
<1> QED
  BY <1>3, <1>4, <1>5, <1>6 DEF Tracks

\* Where a serving call goes next, and with what.
LEMMA ServingGoes ==
    ASSUME Typed, NEW q \in Calls, Step(q)
    PROVE  LET c == call[q]
               d == call'[q]
           IN
           /\ OutProject(q) /\ d # Idle =>
                 /\ d.pc = IF c.op = "serve" THEN "outConfigs" ELSE "drop"
                 /\ d.ref = project.ref
           /\ OutConfigs(q) =>
                 /\ d.pc = "drop" /\ d.ref = c.ref
                 /\ d.file = IF c.ref = None \/ project.configsGone
                             THEN None ELSE cfg[c.ref].file
           /\ Drop(q) /\ c.op = "serve" =>
                 /\ d.pc = IF c.file # None THEN "build" ELSE "cleanup"
                 /\ d.file = c.file
           /\ Build(q) => d.pc = "cleanup"
           /\ DeleteProject(q) /\ d # Idle => d.pc = "findServed" /\ d.ref = project.ref
           /\ FindServed(q) =>
                 /\ d.ref = c.ref /\ d.op = c.op /\ d.at = c.at
                 /\ \/ d.pc = "unserve" /\ d.slot \in ServedSlots
                    \/ d.pc = "softConfigs" /\ d.slot = c.slot
           /\ SoftDelete(q) =>
                 /\ d.pc = IF c.pc = "softConfigs" THEN "softProject" ELSE "dropLimits"
                 /\ d.ref = c.ref
           /\ DropLimits(q) => \/ d = Idle /\ c.ref = None
                               \/ d.pc = "drop" /\ d.ref = c.ref /\ c.ref # None
           /\ Unserve(q) /\ ~project.configsGone => d.ref = c.ref
<1> DEFINE c == call[q]
           d == call'[q]
<1>0. c \in CallRecord /\ call \in [Calls -> CallRecord \cup {Idle}]
  BY StepMoves DEF Typed, TypeOK
<1>1. ASSUME OutProject(q), d # Idle
      PROVE  /\ d.pc = IF c.op = "serve" THEN "outConfigs" ELSE "drop"
             /\ d.ref = project.ref
  <2> DEFINE pc == IF c.op = "serve" THEN "outConfigs" ELSE "drop"
  <2>1. d = [c EXCEPT !.ref = project.ref, !.pc = pc]
    BY <1>0, <1>1 DEF OutProject, Finish
  <2> HIDE DEF pc
  <2>2. d.ref = project.ref /\ d.pc = pc
    BY <1>0, <2>1 DEF CallRecord
  <2> QED
    BY <2>2 DEF pc
<1>2. ASSUME OutConfigs(q)
      PROVE  /\ d.pc = "drop" /\ d.ref = c.ref
             /\ d.file = IF c.ref = None \/ project.configsGone
                         THEN None ELSE cfg[c.ref].file
  <2> DEFINE file == IF c.ref = None \/ project.configsGone THEN None ELSE cfg[c.ref].file
  <2>1. d = [c EXCEPT !.pc = "drop", !.file = file]
    BY <1>0, <1>2 DEF OutConfigs
  <2> HIDE DEF file
  <2>2. d.pc = "drop" /\ d.ref = c.ref /\ d.file = file
    BY <1>0, <2>1 DEF CallRecord
  <2> QED
    BY <2>2 DEF file
<1>3. ASSUME Drop(q), c.op = "serve"
      PROVE  /\ d.pc = IF c.file # None THEN "build" ELSE "cleanup"
             /\ d.file = c.file
  <2> DEFINE pc == IF c.file # None THEN "build" ELSE "cleanup"
  <2>1. d = [c EXCEPT !.pc = pc]
    BY <1>0, <1>3 DEF Drop
  <2> HIDE DEF pc
  <2>2. d.pc = pc /\ d.file = c.file
    BY <1>0, <2>1 DEF CallRecord
  <2> QED
    BY <2>2 DEF pc
<1>4. ASSUME Build(q) PROVE d.pc = "cleanup"
  BY <1>0, <1>4 DEF Build, CallRecord
<1>5. ASSUME DeleteProject(q), d # Idle
      PROVE  d.pc = "findServed" /\ d.ref = project.ref
  BY <1>0, <1>5 DEF DeleteProject, Finish, CallRecord
<1>6. ASSUME FindServed(q)
      PROVE  /\ d.ref = c.ref /\ d.op = c.op /\ d.at = c.at
             /\ \/ d.pc = "unserve" /\ d.slot \in ServedSlots
                \/ d.pc = "softConfigs" /\ d.slot = c.slot
  <2>1. CASE call' = [call EXCEPT ![q].pc = "softConfigs"]
    BY <1>0, <2>1 DEF CallRecord
  <2>2. ASSUME NEW s \in ServedSlots, call' = [call EXCEPT ![q].pc = "unserve", ![q].slot = s]
        PROVE  /\ d.ref = c.ref /\ d.op = c.op /\ d.at = c.at
               /\ d.pc = "unserve" /\ d.slot \in ServedSlots
    BY <1>0, <2>2 DEF CallRecord
  <2> QED
    BY <1>6, <2>1, <2>2 DEF FindServed
<1>7. ASSUME SoftDelete(q)
      PROVE  /\ d.pc = IF c.pc = "softConfigs" THEN "softProject" ELSE "dropLimits"
             /\ d.ref = c.ref
  BY <1>0, <1>7 DEF SoftDelete, CallRecord
<1>8. ASSUME DropLimits(q)
      PROVE  \/ d = Idle /\ c.ref = None
             \/ d.pc = "drop" /\ d.ref = c.ref /\ c.ref # None
  BY <1>0, <1>8 DEF DropLimits, Finish, CallRecord
<1>9. ASSUME Unserve(q), ~project.configsGone PROVE d.ref = c.ref
  <2> DEFINE o == Overlap(call, q, {c.slot}, "withdraw")
             pc == IF c.op = "delete" THEN "softConfigs" ELSE "outProject"
  <2>1. o \in [Calls -> CallRecord \cup {Idle}] /\ o[q] = c
    BY OverlapKin DEF Typed, TypeOK, Events
  <2>2. call' = [o EXCEPT ![q].pc = pc]
    BY <1>9, UnserveIs DEF Unserve
  <2> HIDE DEF o, pc
  <2>3. d = [c EXCEPT !.pc = pc]
    BY <2>1, <2>2
  <2> QED
    BY <1>0, <2>3 DEF CallRecord
<1> QED
  BY <1>1, <1>2, <1>3, <1>4, <1>5, <1>6, <1>7, <1>8, <1>9

\* What Drop and Build leave of the routes.
LEMMA RoutesAre ==
    ASSUME Typed, NEW q \in Calls, Drop(q) \/ Build(q),
           NEW r, r = call[q].at, NEW f, f = call[q].file
    PROVE  /\ Drop(q) => Shows(r, None)'
           /\ Build(q) /\ Shows(r, None) => Shows(r, f)'
<1> DEFINE c == call[q]
<1>1. c \in CallRecord /\ Shape(c)
  BY StepMoves, RunningCall DEF Step
<1>2. r \in Replicas /\ replica[r] \in ReplicaRecord
  BY <1>1 DEF CallRecord, Typed, TypeOK
<1>3. CASE Drop(q)
  <2> DEFINE rep == Deregistered(replica[r])
  <2>1. PICK l : replica' = [replica EXCEPT ![r] = [rep EXCEPT !.loop = l]]
    BY <1>3 DEF Drop
  <2>2. rep.routes = NoRoutes /\ rep.entry = None /\ rep \in ReplicaRecord
    BY <1>2 DEF Deregistered, ReplicaRecord, NoRoutes
  <2> HIDE DEF rep
  <2>3. replica'[r] = [rep EXCEPT !.loop = l]
    BY <1>2, <2>1 DEF Typed, TypeOK
  <2>4. replica'[r].routes = NoRoutes /\ replica'[r].entry = None
    BY <2>2, <2>3 DEF ReplicaRecord
  <2> QED
    BY <1>3, <2>4 DEF Shows, RoutesFor, Drop, Build
<1>4. CASE Build(q)
  <2> DEFINE rep == Registered(replica[r], f)
  <2>1. f \in Files /\ f # None /\ ~Drop(q)
    BY <1>1, <1>4, ProjectConfigAssumption DEF Build, Drop, Shape
  <2>2. replica' = [replica EXCEPT ![r] = [rep EXCEPT !.loop = q]]
    BY <1>4 DEF Build
  <2>3. /\ rep.routes = [n \in Names |-> IF n \in RoutesOf[f] THEN f ELSE replica[r].routes[n]]
        /\ rep.entry = f /\ rep \in ReplicaRecord
    BY <1>2, <2>1 DEF Registered, ReplicaRecord
  <2> HIDE DEF rep
  <2>4. replica'[r] = [rep EXCEPT !.loop = q]
    BY <1>2, <2>2 DEF Typed, TypeOK
  <2>5. replica'[r].routes = rep.routes /\ replica'[r].entry = f
    BY <2>3, <2>4 DEF ReplicaRecord
  <2>6. ASSUME Shows(r, None) PROVE rep.routes = RoutesFor(f)
    <3>1. replica[r].routes = [n \in Names |-> None]
      BY <2>6 DEF Shows, RoutesFor, NoRoutes
    <3> QED
      BY <2>1, <2>3, <3>1 DEF RoutesFor
  <2> QED
    BY <2>1, <2>5, <2>6 DEF Shows
<1> QED
  BY <1>3, <1>4

\* The acting call goes on as it should, or hands the routes over.
LEMMA CallCarries ==
    ASSUME Typed, StatusInv, NEW q \in Calls, Step(q),
           ~Serve(q), ~SoftDelete(q), ~(Unserve(q) /\ ~project.configsGone),
           UNCHANGED project,
           project'.ref \notin lapses'.status
               => project.ref \notin lapses.status /\ ServedFile' = ServedFile,
           ServedFile = None => ServedFile' = None,
           NEW r \in Replicas, r = call[q].at, r \notin lapses'.routes, Tracks(r)
    PROVE  /\ Acts(call'[q]) => Acts(call[q])
           /\ call'[q] = Idle \/ Relies(call[q])'
           /\ Acts(call[q]) /\ ~Acts(call'[q]) /\ project'.ref \notin lapses'.status
                 => Shows(r, ServedFile)'
<1> DEFINE c == call[q]
           d == call'[q]
           settled2 == project'.ref \notin lapses'.status
           Carries == /\ Acts(d) => Acts(c)
                      /\ d = Idle \/ Relies(call[q])'
                      /\ Acts(c) /\ ~Acts(d) /\ settled2 => Shows(r, ServedFile)'
<1> SUFFICES Carries
  OBVIOUS
<1>0. c \in CallRecord /\ Shape(c) /\ Relies(c)
  BY StepMoves, RunningCall DEF Tracks
<1>1. ServedIsReference /\ GoneAfterConfigs
  BY DEF StatusInv, ReferenceAgrees
<1>2. ~Acts(Idle)
  BY IdleFacts, ActsIsServing DEF Ops, Servings
<1>3. ASSUME d # Idle, ~ReadConfig(q), ~CheckBudget(q)
      PROVE  d.op = c.op /\ d.at = r /\ (FindServed(q) \/ d.slot = c.slot)
  BY <1>3, OthersGo
<1>4. ~Drop(q) /\ ~Build(q) => \A f : Shows(r, f) => Shows(r, f)'
  BY RoutesFrame DEF SameBut, Shows
<1>5. CASE \/ ReadConfig(q) \/ CheckBudget(q) \/ WriteConfig(q) \/ InsertLimits(q)
           \/ CheckServed(q) \/ ValidateRoute(q) \/ Associate(q) \/ ServeDeleted(q)
  <2>1. ~Acts(c)
    BY <1>5, ActsIsServing DEF ReadConfig, CheckBudget, WriteConfig, InsertLimits,
       CheckServed, ValidateRoute, Associate, ServeDeleted
  <2>2. CASE d = Idle
    BY <1>2, <2>1, <2>2
  <2>3. CASE ReadConfig(q) /\ d # Idle
    <3>1. /\ c.op \in Edits \cup {"serve", "unserve"} /\ c.slot \in Slots
          /\ d.op = c.op /\ d.pc = AfterRead[c.op] /\ d.slot = c.slot
          /\ cfg[c.slot].status \in Admits[c.op]
      BY <2>3, ReadGoes
    <3>2. ~Acts(d)
      BY <3>1 DEF Acts, AfterRead, Edits
    <3>3. Relies(call[q])'
      <4>1. CASE c.op = "unserve"
        <5>1. project.ref = c.slot
          BY <1>1, <3>1, <4>1 DEF Admits, ServedIsReference
        <5> QED
          BY <3>1, <3>2, <4>1, <5>1 DEF Relies
      <4>2. CASE c.op # "unserve"
        BY <3>1, <3>2, <4>2 DEF Relies, Edits
      <4> QED
        BY <4>1, <4>2
    <3> QED
      BY <2>1, <3>2, <3>3
  <2>4. CASE CheckBudget(q) /\ d # Idle
    <3>1. /\ c.op \in {"update", "import", "approve", "serve"}
          /\ d.op = c.op /\ d.pc = AfterLimits[c.op]
      BY <2>4, BudgetGoes
    <3>2. ~Acts(d)
      BY <3>1 DEF Acts, AfterLimits
    <3> QED
      BY <2>1, <3>1, <3>2 DEF Relies
  <2>5. CASE ~ReadConfig(q) /\ ~CheckBudget(q) /\ d # Idle
    <3>1. c.op \notin Servings
      <4>1. ~WriteConfig(q) /\ ~InsertLimits(q) /\ ~Associate(q) /\ ~ServeDeleted(q)
        BY <2>5, WriteIs, InsertIs DEF Associate, ServeDeleted, Finish, Typed, TypeOK
      <4> QED
        BY <1>0, <1>5, <2>5, <4>1, At DEF CheckServed, ValidateRoute, Servings
    <3> QED
      BY <1>3, <2>1, <2>5, <3>1, ActsIsServing DEF Relies, Servings
  <2> QED
    BY <2>2, <2>3, <2>4, <2>5
<1>6. CASE Unserve(q)
  <2>1. c.pc = "unserve" /\ project.configsGone
    BY <1>6 DEF Unserve
  <2>2. c.op = "unserve" /\ d = Idle
    BY <1>0, <1>6, <2>1, UnserveIs DEF Relies
  <2> QED
    BY <1>2, <2>1, <2>2 DEF Acts
<1>7. CASE OutProject(q)
  <2>1. c.pc = "outProject" /\ c.op \in {"serve", "unserve"} /\ Acts(c)
    BY <1>0, <1>7, At DEF OutProject, Acts
  <2>2. d # Idle
    <3> DEFINE pc == IF c.op = "serve" THEN "outConfigs" ELSE "drop"
    <3>1. ~project.gone
      BY <1>7 DEF OutProject, Typed, TypeOK, LapsesRecord
    <3>2. d = [c EXCEPT !.ref = project.ref, !.pc = pc] /\ pc \in Points
      BY <1>7, <3>1 DEF OutProject, Typed, TypeOK, Points
    <3> HIDE DEF pc
    <3>3. d.pc = pc
      BY <1>0, <3>2 DEF CallRecord
    <3> QED
      BY <3>2, <3>3, IdleFacts
  <2>3. /\ d.op = c.op /\ d.at = r /\ d.ref = project.ref
        /\ d.pc = IF c.op = "serve" THEN "outConfigs" ELSE "drop"
    BY <1>3, <1>7, <2>2, ServingGoes DEF OutProject, ReadConfig, CheckBudget, FindServed
  <2>4. Acts(d)
    BY <2>1, <2>3 DEF Acts
  <2> QED
    BY <1>0, <2>1, <2>3, <2>4 DEF Relies
<1>8. CASE OutConfigs(q)
  <2>1. c.pc = "outConfigs" /\ c.op = "serve" /\ Acts(c)
    BY <1>0, <1>8, At DEF OutConfigs, Acts
  <2>2. /\ d.pc = "drop" /\ d # Idle
        /\ d.file = IF c.ref = None \/ project.configsGone THEN None ELSE cfg[c.ref].file
    BY <1>8, ServingGoes, IdleFacts DEF Points
  <2>3. d.op = c.op /\ d.at = r
    BY <1>3, <1>8, <2>2 DEF OutConfigs, ReadConfig, CheckBudget
  <2>4. ~project.configsGone /\ c.ref = project.ref /\ ~project.gone
    BY <1>0, <1>1, <2>1 DEF Relies, GoneAfterConfigs
  <2>5. d.file = ServedFile
    BY <2>2, <2>4 DEF ServedFile
  <2> QED
    BY <2>1, <2>2, <2>3, <2>4, <2>5 DEF Relies, Acts
<1>9. CASE Drop(q)
  <2>1. c.pc = "drop" /\ c.op \in Servings /\ Acts(c) /\ Shows(r, None)'
    BY <1>0, <1>9, At, RoutesAre DEF Drop, Acts, Servings
  <2>2. CASE c.op = "serve"
    <3>1. /\ d.pc = IF c.file # None THEN "build" ELSE "cleanup"
          /\ d.file = c.file /\ d # Idle
      BY <1>9, <2>2, ServingGoes, IdleFacts DEF Points
    <3>2. d.op = c.op /\ d.at = r
      BY <1>3, <1>9, <3>1 DEF Drop, ReadConfig, CheckBudget
    <3>3. ~project.configsGone /\ (project.ref \notin lapses.status => c.file = ServedFile)
      BY <1>0, <2>1, <2>2 DEF Relies
    <3>4. Acts(d)
      BY <2>2, <3>1, <3>2 DEF Acts
    <3>5. Relies(call[q])'
      BY <2>1, <2>2, <3>1, <3>2, <3>3, <3>4 DEF Relies
    <3> QED
      BY <2>1, <3>4, <3>5
  <2>3. CASE c.op # "serve"
    <3>1. d = Idle /\ ServedFile = None
      BY <1>0, <1>9, <2>1, <2>3 DEF Drop, Relies, Servings, Typed, TypeOK, ServedFile
    <3> QED
      BY <1>2, <2>1, <3>1
  <2> QED
    BY <2>2, <2>3
<1>10. CASE Build(q)
  <2>1. c.pc = "build" /\ c.op = "serve" /\ Acts(c)
    BY <1>0, <1>10, At DEF Build, Acts
  <2>2. d.pc = "cleanup" /\ d # Idle
    BY <1>10, ServingGoes, IdleFacts DEF Points
  <2>3. d.op = c.op /\ d.at = r
    BY <1>3, <1>10, <2>2 DEF Build, ReadConfig, CheckBudget
  <2>4. /\ ~project.configsGone /\ Shows(r, None)
        /\ project.ref \notin lapses.status => c.file = ServedFile
    BY <1>0, <2>1 DEF Relies
  <2>5. PICK f : f = c.file
    OBVIOUS
  <2>6. Shows(r, f)'
    BY <1>10, <2>4, <2>5, RoutesAre
  <2>7. settled2 => Shows(r, ServedFile)'
    BY <2>4, <2>5, <2>6 DEF Shows
  <2> QED
    BY <2>1, <2>2, <2>3, <2>4, <2>7 DEF Relies, Acts
<1>11. CASE Cleanup(q)
  <2>1. c.pc = "cleanup" /\ c.op = "serve" /\ Acts(c) /\ d = Idle /\ ~Drop(q) /\ ~Build(q)
    BY <1>0, <1>11, At DEF Cleanup, Acts, Finish, Typed, TypeOK, Drop, Build
  <2>2. project.ref \notin lapses.status => Shows(r, ServedFile)
    BY <1>0, <2>1 DEF Relies
  <2>3. settled2 => Shows(r, ServedFile)'
    BY <1>4, <2>1, <2>2 DEF Shows
  <2> QED
    BY <1>2, <2>1, <2>3
<1>12. CASE DeleteProject(q)
  <2>1. c.pc = "project" /\ c.op = "delete" /\ ~Acts(c)
    BY <1>0, <1>12, At DEF DeleteProject, Acts
  <2>2. CASE d = Idle
    BY <1>2, <2>1, <2>2
  <2>3. CASE d # Idle
    <3>1. d.pc = "findServed" /\ d.ref = project.ref
      BY <1>12, <2>3, ServingGoes
    <3>2. d.op = c.op /\ d.at = r /\ d.slot = c.slot
      BY <1>3, <1>12, <2>3 DEF DeleteProject, ReadConfig, CheckBudget, FindServed
    <3>3. c.slot = None
      BY <1>0, <2>1 DEF Relies
    <3>4. ~Acts(d)
      BY <3>1, ActsIsServing
    <3> QED
      BY <2>1, <3>1, <3>2, <3>3, <3>4 DEF Relies
  <2> QED
    BY <2>2, <2>3
<1>13. CASE FindServed(q)
  <2>1. c.pc = "findServed" /\ c.op = "delete" /\ ~Acts(c)
    BY <1>0, <1>13, At DEF FindServed, Acts
  <2>2. project.ref = c.ref /\ c.slot = None
    BY <1>0, <2>1 DEF Relies
  <2>3. /\ d.ref = c.ref /\ d.op = "delete" /\ d.at = r
        /\ \/ d.pc = "unserve" /\ d.slot \in ServedSlots
           \/ d.pc = "softConfigs" /\ d.slot = None
    BY <1>13, <2>1, <2>2, ServingGoes
  <2>4. ~Acts(d)
    BY <2>3 DEF Acts
  <2>5. d.pc = "unserve" => project.ref = d.slot /\ ~project.configsGone
    BY <1>1, <2>3 DEF ServedSlots, ServedIsReference
  <2>6. Relies(call[q])'
    BY <2>2, <2>3, <2>4, <2>5 DEF Relies
  <2> QED
    BY <2>1, <2>4, <2>6
<1>14. CASE DropLimits(q)
  <2>1. c.pc = "dropLimits" /\ c.op = "delete" /\ Acts(c) /\ ~Drop(q) /\ ~Build(q)
    BY <1>0, <1>14, At DEF DropLimits, Acts, Drop, Build
  <2>2. ServedFile = None /\ (c.ref # None \/ Shows(r, None))
    BY <1>0, <2>1 DEF Relies
  <2>3. CASE d = Idle
    <3>1. c.ref = None
      BY <1>14, <2>3, ServingGoes, IdleFacts DEF Points
    <3>2. Shows(r, None)'
      BY <1>4, <2>1, <2>2, <3>1
    <3> QED
      BY <1>2, <2>2, <2>3, <3>2
  <2>4. CASE d # Idle
    <3>1. d.pc = "drop" /\ d.ref = c.ref /\ c.ref # None
      BY <1>14, <2>4, ServingGoes
    <3>2. d.op = c.op /\ d.at = r
      BY <1>3, <1>14, <2>4 DEF DropLimits, ReadConfig, CheckBudget
    <3> QED
      BY <2>1, <2>2, <3>1, <3>2 DEF Relies, Acts
  <2> QED
    BY <2>3, <2>4
<1>15. CASE Fail(q)
  <2>1. d = Idle /\ c.pc \notin Committed
    BY <1>15 DEF Fail, Finish, Typed, TypeOK, LapsesRecord
  <2>2. CASE Acts(c)
    <3>1. c.op = "serve" /\ c.pc = "cleanup"
      BY <2>1, <2>2 DEF Acts, Committed
    <3>2. project.ref \notin lapses.status => Shows(r, ServedFile)
      BY <1>0, <2>2, <3>1 DEF Relies
    <3>3. ~Drop(q) /\ ~Build(q)
      BY <3>1 DEF Drop, Build
    <3>4. settled2 => Shows(r, ServedFile)'
      BY <1>4, <3>2, <3>3 DEF Shows
    <3> QED
      BY <1>2, <2>1, <3>4
  <2>3. CASE ~Acts(c)
    BY <1>2, <2>1, <2>3
  <2> QED
    BY <2>2, <2>3
<1> QED
  BY <1>5, <1>6, <1>7, <1>8, <1>9, <1>10, <1>11, <1>12, <1>13, <1>14, <1>15 DEF Step

\* What a change of what is served leaves to the call that made it.
LEMMA CommitCarries ==
    ASSUME Typed, NEW q \in Calls, Step(q),
           Serve(q) \/ SoftDelete(q) \/ (Unserve(q) /\ ~project.configsGone),
           NEW r \in Replicas, r = call[q].at, r \notin lapses'.routes,
           ~Serve(q) => Tracks(r)
    PROVE  call'[q] # Idle /\ Acts(call'[q]) /\ Relies(call[q])'
<1> DEFINE c == call[q]
           d == call'[q]
<1>0. c \in CallRecord /\ Shape(c) /\ replica[r].state = "up"
  BY StepMoves, RunningCall
<1>1. d # Idle => /\ d.op = c.op /\ d.at = r /\ d.slot = c.slot
  BY OthersGo DEF Serve, SoftDelete, Unserve, ReadConfig, CheckBudget, FindServed
<1>2. project.ref \in Slots \cup {None} /\ None \notin Slots
  BY ProjectConfigAssumption DEF Typed, TypeOK
<1>3. CASE Serve(q)
  <2>1. d.pc = "outProject" /\ c.op = "serve" /\ ~project'.configsGone
    BY <1>3, ServeIs
  <2>2. d # Idle
    BY <2>1, IdleFacts DEF Points
  <2> QED
    BY <1>1, <2>1, <2>2 DEF Relies, Acts
<1>4. CASE Unserve(q) /\ ~project.configsGone
  <2>1. /\ c.op \in {"unserve", "delete"} /\ c.slot \in Slots /\ c.pc = "unserve"
        /\ project'.ref = IF project.ref = c.slot THEN None ELSE project.ref
        /\ d.pc = IF c.op = "delete" THEN "softConfigs" ELSE "outProject"
        /\ d.ref = c.ref /\ ~Serve(q)
    BY <1>4, UnserveIs, ServingGoes DEF Unserve, Serve
  <2>2. d # Idle
    BY <2>1, IdleFacts DEF Points
  <2>3. Relies(c)
    BY <2>1 DEF Tracks
  <2>4. project.ref = c.slot /\ (c.op = "delete" => c.ref = project.ref)
    BY <2>1, <2>3 DEF Relies
  <2>5. project'.ref = None /\ ServedFile' = None
    BY <2>1, <2>4 DEF ServedFile
  <2> QED
    BY <1>1, <1>2, <2>1, <2>2, <2>4, <2>5 DEF Relies, Acts
<1>5. CASE SoftDelete(q)
  <2>1. c.op = "delete" /\ c.pc \in {"softConfigs", "softProject"} /\ ~Serve(q)
    BY <1>0, <1>5, At DEF SoftDelete, Serve
  <2>2. /\ d.pc = IF c.pc = "softConfigs" THEN "softProject" ELSE "dropLimits"
        /\ d.ref = c.ref
    BY <1>5, ServingGoes
  <2>3. d # Idle
    BY <2>2, IdleFacts DEF Points
  <2>4. project'.configsGone \/ project'.gone
    BY <1>5 DEF SoftDelete, Typed, TypeOK
  <2>5. ServedFile' = None
    BY <2>4 DEF ServedFile
  <2>6. Relies(c) /\ Tracks(r)
    BY <2>1 DEF Tracks
  <2>7. c.ref # None \/ Shows(r, None)
    <3>1. CASE Acts(c)
      BY <2>1, <2>6, <3>1 DEF Relies
    <3>2. CASE ~Acts(c)
      <4>1. project.ref = c.ref
        BY <2>1, <2>6, <3>2 DEF Relies, Acts
      <4>2. r \notin PassedBy(q)
        BY <1>5 DEF SoftDelete, Typed, TypeOK, LapsesRecord
      <4>3. \A p \in Calls : call[p].at = r => ~Acts(call[p])
        BY <3>2, <4>2, ActsIsServing DEF PassedBy
      <4>4. ASSUME c.ref = None PROVE Shows(r, None)
        <5>1. ServedFile = None /\ project.ref \notin lapses.status
          BY <1>2, <4>1, <4>4 DEF ServedFile, Typed, TypeOK, LapsesRecord
        <5> QED
          BY <1>0, <2>6, <4>3, <5>1 DEF Tracks
      <4> QED
        BY <4>4
    <3> QED
      BY <3>1, <3>2
  <2>8. (c.ref # None \/ Shows(r, None)) => (c.ref # None \/ Shows(r, None)')
    BY <1>5 DEF SoftDelete, Shows
  <2> QED
    BY <1>1, <2>1, <2>2, <2>3, <2>5, <2>7, <2>8 DEF Relies, Acts
<1> QED
  BY <1>3, <1>4, <1>5

LEMMA StepRoutes ==
    ASSUME Typed, StatusInv, RoutesInv, NEW q \in Calls, Step(q)
    PROVE  RoutesInv'
<1> SUFFICES ASSUME NEW r \in Replicas, r \notin lapses'.routes PROVE Tracks(r)'
  BY DEF RoutesInv
<1> DEFINE commits == Serve(q) \/ SoftDelete(q) \/ (Unserve(q) /\ ~project.configsGone)
<1>0. call[q] \in CallRecord /\ Moves(q) /\ Holds(q) /\ Typed'
  BY StepMoves, StepTyped
<1>1. ~Serve(q) => Tracks(r)
  <2>1. ~Serve(q) /\ ~WriteConfig(q) => lapses.routes \subseteq lapses'.routes
    <3>0. lapses \in LapsesRecord
      BY DEF Typed, TypeOK
    <3>1. CASE Unserve(q) \/ OutProject(q) \/ SoftDelete(q) \/ InsertLimits(q) \/ Fail(q)
      BY <3>0, <3>1
         DEF Unserve, OutProject, SoftDelete, InsertLimits, Fail, LapsesRecord
    <3>2. CASE \/ ReadConfig(q) \/ CheckBudget(q) \/ ServeDeleted(q) \/ OutConfigs(q)
               \/ Drop(q) \/ Build(q) \/ Cleanup(q) \/ DeleteProject(q)
      <4>1. UNCHANGED lapses
        BY <3>2 DEF ReadConfig, CheckBudget, ServeDeleted, OutConfigs, Drop, Build,
                    Cleanup, DeleteProject
      <4> QED
        BY <4>1
    <3>3. CASE \/ FindServed(q) \/ DropLimits(q) \/ CheckServed(q) \/ ValidateRoute(q)
               \/ Associate(q)
      <4>1. UNCHANGED lapses
        BY <3>3 DEF FindServed, DropLimits, CheckServed, ValidateRoute, Associate
      <4> QED
        BY <4>1
    <3> QED
      BY <3>1, <3>2, <3>3 DEF Step
  <2>2. WriteConfig(q) => lapses'.routes = lapses.routes
    <3>1. CASE project.configsGone
      BY <3>1, WriteIs
    <3>2. CASE ~project.configsGone
      BY <3>2 DEF WriteConfig, Typed, TypeOK, LapsesRecord
    <3> QED
      BY <3>1, <3>2
  <2> QED
    BY <2>1, <2>2 DEF RoutesInv
<1>2. CASE commits
  <2>1. PassedBy(q) \subseteq lapses'.routes
    <3>1. CASE Serve(q)
      BY <3>1, ServeIs
    <3>2. CASE SoftDelete(q)
      BY <3>2 DEF SoftDelete, Typed, TypeOK, LapsesRecord
    <3>3. CASE Unserve(q) /\ ~project.configsGone
      BY <3>3, UnserveIs
    <3> QED
      BY <1>2, <3>1, <3>2, <3>3
  <2>2. r = call[q].at => call'[q] # Idle /\ Acts(call'[q]) /\ Relies(call[q])'
    BY <1>1, <1>2, CommitCarries
  <2> QED
    BY <1>0, <2>1, <2>2, CommitTracks
<1>3. CASE ~commits
  <2>1. UNCHANGED project
    <3>1. CASE Unserve(q)
      BY <1>3, <3>1, UnserveIs
    <3>2. CASE ~Unserve(q)
      BY <1>3, <3>2, StatusFrame DEF WriteConfig
    <3> QED
      BY <3>1, <3>2
  <2>2. project'.ref \notin lapses'.status
            => project.ref \notin lapses.status /\ ServedFile' = ServedFile
    <3>1. CASE Unserve(q)
      <4>1. UNCHANGED <<cfg, project, lapses>>
        BY <1>3, <3>1, UnserveIs
      <4> QED
        BY <4>1 DEF ServedFile
    <3>2. CASE ~Unserve(q)
      BY <1>3, <3>2, ServedStays
    <3> QED
      BY <3>1, <3>2
  <2>3. ServedFile = None => ServedFile' = None
    BY <2>1, ProjectConfigAssumption DEF ServedFile, Typed, TypeOK
  <2>4. /\ Tracks(r)
        /\ SameBut(replica[r], replica'[r]) \/ (call[q].at = r /\ Acts(call[q]))
    <3>1. Drop(q) \/ Build(q) => Acts(call[q])
      BY <1>0, RunningCall, At DEF Drop, Build, Acts, Servings
    <3> QED
      BY <1>1, <1>3, <3>1, RoutesFrame
  <2>5. call[q].at = r =>
           /\ Acts(call'[q]) => Acts(call[q])
           /\ call'[q] = Idle \/ Relies(call[q])'
           /\ Acts(call[q]) /\ ~Acts(call'[q]) /\ project'.ref \notin lapses'.status
                 => Shows(r, ServedFile)'
    BY <1>3, <2>1, <2>2, <2>3, <2>4, CallCarries
  <2> QED
    BY <1>0, <2>1, <2>2, <2>3, <2>4, <2>5, TracksMove
<1> QED
  BY <1>2, <1>3

LEMMA InitRoutes == Init => RoutesInv
<1> SUFFICES ASSUME Init, NEW r \in Replicas PROVE Tracks(r)
  BY DEF RoutesInv
<1>1. \A q \in Calls : call[q] = Idle /\ call[q].at # r
  BY IdleFacts DEF Init
<1>2. /\ replica[r].state = "up" /\ replica[r].routes = NoRoutes
      /\ replica[r].entry = None
  BY DEF Init, NewProcess
<1>3. ServedFile = None
  BY DEF Init, ServedFile
<1> QED
  BY <1>1, <1>2, <1>3 DEF Tracks, Shows, RoutesFor

\* What the other actions leave of what a replica tracks.
LEMMA OtherTracks ==
    ASSUME Typed, UNCHANGED <<cfg, project>>, lapses'.status = lapses.status,
           NEW r \in Replicas, Tracks(r), SameBut(replica[r], replica'[r]),
           \A p \in Calls : \/ call'[p] = call[p]
                            \/ call'[p].at = r => ~Acts(call'[p]) /\ Relies(call[p])',
           \A p \in Calls : call[p].at = r => call'[p] = call[p]
    PROVE  Tracks(r)'
<1>1. ServedFile' = ServedFile
  BY DEF ServedFile
<1>2. \A f : Shows(r, f)' <=> Shows(r, f)
  BY DEF SameBut, Shows
<1>3. \A p \in Calls : call'[p].at = r /\ Acts(call'[p]) => call'[p] = call[p]
  OBVIOUS
<1>4. \A p, q \in Calls : /\ call'[p].at = r /\ call'[q].at = r
                          /\ Acts(call'[p]) /\ Acts(call'[q])
                          => p = q
  BY <1>3 DEF Tracks
<1>5. ASSUME NEW p \in Calls, call'[p].at = r PROVE Relies(call[p])'
  <2>1. CASE call'[p] = call[p]
    <3>1. Relies(call[p]) /\ call[p].at = r
      BY <1>5, <2>1 DEF Tracks
    <3> QED
      BY <1>1, <1>2, <2>1, <3>1 DEF Relies
  <2>2. CASE call'[p] # call[p]
    BY <1>5, <2>2
  <2> QED
    BY <2>1, <2>2
<1>6. project'.ref \notin lapses'.status =>
          /\ replica'[r].state = "up" /\ (\A q \in Calls : call'[q].at = r => ~Acts(call'[q]))
                => Shows(r, ServedFile)'
          /\ replica'[r].state = "booting" => replica'[r].boot = ServedFile'
  <2>1. (\A q \in Calls : call'[q].at = r => ~Acts(call'[q]))
            => \A q \in Calls : call[q].at = r => ~Acts(call[q])
    OBVIOUS
  <2>2. Shows(r, ServedFile)' <=> Shows(r, ServedFile)
    BY <1>1 DEF SameBut, Shows
  <2> QED
    BY <1>1, <2>1, <2>2 DEF Tracks, SameBut
<1> QED
  BY <1>4, <1>5, <1>6 DEF Tracks

LEMMA NextRoutes == Typed /\ StatusInv /\ RoutesInv /\ [Next]_vars => RoutesInv'
<1> SUFFICES ASSUME Typed, StatusInv, RoutesInv, [Next]_vars PROVE RoutesInv'
  OBVIOUS
<1>1. ASSUME NEW q \in Calls, NEW a \in Replicas, BeginSome(q, a) PROVE RoutesInv'
  <2> SUFFICES ASSUME NEW r \in Replicas, r \notin lapses'.routes PROVE Tracks(r)'
    BY DEF RoutesInv
  <2>1. /\ call'[q].op \in Ops /\ call'[q].pc = First[call'[q].op]
        /\ call'[q].op = "delete" => call'[q].slot = None
    BY <1>1, BeginMoves DEF CallRecord
  <2>2. ~Acts(call'[q]) /\ Relies(call[q])'
    BY <2>1 DEF Acts, Relies, First, Ops, Edits, Servings, Others
  <2>3. UNCHANGED <<cfg, project, lapses>> /\ Tracks(r) /\ SameBut(replica[r], replica'[r])
    BY <1>1, BeginMoves DEF RoutesInv
  <2>4. \A p \in Calls : call[p].at = r => call'[p] = call[p]
    BY <1>1, BeginMoves, IdleFacts
  <2>5. \A p \in Calls : \/ call'[p] = call[p]
                         \/ call'[p].at = r => ~Acts(call'[p]) /\ Relies(call[p])'
    BY <1>1, <2>2, BeginMoves
  <2> QED
    BY <2>3, <2>4, <2>5, OtherTracks
<1>2. ASSUME NEW q \in Calls, Step(q) PROVE RoutesInv'
  BY <1>2, StepRoutes
<1>3. CASE DeleteLimits \/ UNCHANGED vars
  <2>1. UNCHANGED <<cfg, project, replica, call, lapses>>
    BY <1>3 DEF DeleteLimits, vars
  <2> QED
    BY <2>1, OtherTracks DEF RoutesInv, SameBut
<1>4. ASSUME NEW a \in Replicas, Crash(a) PROVE RoutesInv'
  <2>1. lapses'.status = lapses.status /\ lapses'.routes = lapses.routes \ {a}
    BY <1>4, CrashTyped DEF Typed, TypeOK, LapsesRecord
  <2> SUFFICES ASSUME NEW r \in Replicas, r \notin lapses'.routes PROVE Tracks(r)'
    BY DEF RoutesInv
  <2>2. CASE r = a
    <3>1. replica'[r].state = "down" /\ \A p \in Calls : call'[p].at # r
      BY <1>4, <2>2, CrashTyped, IdleFacts
    <3> QED
      BY <3>1 DEF Tracks
  <2>3. CASE r # a
    <3>1. \A p \in Calls : call[p].at = r => call'[p] = call[p]
      BY <1>4, <2>3 DEF Crash, Typed, TypeOK
    <3>2. \A p \in Calls : call'[p] = call[p] \/ call'[p].at # r
      BY <1>4, CrashTyped, IdleFacts
    <3>3. replica'[r] = replica[r] /\ UNCHANGED <<cfg, project>> /\ Tracks(r)
      BY <1>4, <2>1, <2>3, CrashTyped DEF RoutesInv
    <3> QED
      BY <2>1, <3>1, <3>2, <3>3, OtherTracks DEF SameBut
  <2> QED
    BY <2>2, <2>3
<1>5. ASSUME NEW a \in Replicas, Boot(a) \/ Open(a) PROVE RoutesInv'
  <2> SUFFICES ASSUME NEW r \in Replicas, r \notin lapses'.routes PROVE Tracks(r)'
    BY DEF RoutesInv
  <2>1. UNCHANGED <<cfg, project, call, lapses>> /\ Tracks(r)
    BY <1>5, StartTyped DEF RoutesInv
  <2>2. ServedFile' = ServedFile
    BY <2>1 DEF ServedFile
  <2>3. CASE r # a
    BY <1>5, <2>1, <2>3, StartTyped, OtherTracks DEF SameBut
  <2>4. CASE r = a /\ Boot(a)
    BY <2>1, <2>2, <2>4, StartTyped DEF Tracks
  <2>5. CASE r = a /\ Open(a)
    <3>1. /\ replica[r].state = "booting" /\ replica'[r].state = "up"
          /\ replica'[r].routes = RoutesFor(replica[r].boot)
          /\ replica'[r].entry = replica[r].boot
          /\ \A p \in Calls : call[p].at # r
      BY <2>5, StartTyped
    <3>2. project.ref \notin lapses.status => Shows(r, ServedFile)'
      BY <2>1, <2>2, <3>1 DEF Tracks, Shows, RoutesFor
    <3> QED
      BY <2>1, <3>1, <3>2 DEF Tracks
  <2> QED
    BY <1>5, <2>3, <2>4, <2>5
<1> QED
  BY <1>1, <1>2, <1>3, <1>4, <1>5 DEF Next

\* A replica that no serving call works on has the routes of what the project
\* references, unless its last serve or start was passed by, a call failed
\* after its commit, or a stale edit overtook the serve.
THEOREM RoutesFollowServedHolds == Spec => []RoutesFollowServed
<1> DEFINE Inv == Typed /\ StatusInv /\ RoutesInv
<1>1. Inv /\ [Next]_vars => Inv'
  BY NextTyped, NextStatus, NextRoutes
<1>2. Inv => RoutesFollowServed
  <2> SUFFICES ASSUME Inv, NEW r \in Replicas, replica[r].state = "up",
                      r \notin lapses.routes, project.ref \notin lapses.status,
                      \A q \in Calls : call[q].at = r => call[q].op \notin Servings
               PROVE  replica[r] = [(IF ServedFile = None THEN NewProcess("up")
                                     ELSE Registered(NewProcess("up"), ServedFile))
                                    EXCEPT !.loop = replica[r].loop]
    BY DEF RoutesFollowServed
  <2>1. Shows(r, ServedFile)
    BY ActsIsServing DEF RoutesInv, Tracks
  <2>2. replica[r].boot = None /\ replica[r] \in ReplicaRecord
    BY DEF Typed, TypeOK
  <2>3. CASE ServedFile = None
    BY <2>1, <2>2, <2>3 DEF Shows, RoutesFor, NewProcess, ReplicaRecord
  <2>4. CASE ServedFile # None
    <3> DEFINE up == NewProcess("up")
               rep == Registered(up, ServedFile)
    <3>1. rep.routes = RoutesFor(ServedFile)
      BY <2>4 DEF Registered, NewProcess, RoutesFor, NoRoutes
    <3>2. /\ rep.state = "up" /\ rep.boot = None /\ rep.entry = ServedFile
          /\ rep \in ReplicaRecord
      BY <2>4, ServedFileType DEF Registered, NewProcess, NoRoutes, ReplicaRecord
    <3> HIDE DEF rep
    <3>3. replica[r] = [rep EXCEPT !.loop = replica[r].loop]
      BY <2>1, <2>2, <3>1, <3>2 DEF Shows, ReplicaRecord
    <3> QED
      BY <2>4, <3>3 DEF rep
  <2> QED
    BY <2>3, <2>4
<1>3. Init => Inv
  BY InitTyped, InitStatus, InitRoutes
<1> QED
  BY <1>1, <1>2, <1>3, PTL DEF Spec

\* The invariant of all four, inductive as it stands.
THEOREM Inductive == Spec => []IInv
<1>1. IInv /\ [Next]_vars => IInv'
  BY NextTyped, NextStatus, NextApproval, NextBudget, NextRoutes DEF IInv
<1>2. Init => IInv
  BY InitTyped, InitStatus, InitApproval, InitBudget, InitRoutes DEF IInv
<1> QED
  BY <1>1, <1>2, PTL DEF Spec
=============================================================================
