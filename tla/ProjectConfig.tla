--------------------------- MODULE ProjectConfig ---------------------------
(***************************************************************************)
(* The configurations of one project and the routes they put live.        *)
(*                                                                         *)
(* A project has two slots.  A slot's file is edited while it is a DRAFT,  *)
(* approved (READY), then SERVED: the project's reference names it and the *)
(* replica that handled the call swaps the routes it keeps in memory.      *)
(* Every DAO method is a transaction of its own and so a step; a handler   *)
(* is a call that runs several of them.  Handlers declared `async` hold    *)
(* the event loop of their replica except where they really await, those  *)
(* declared `def` run on a thread pool beside it.  The serving             *)
(* transactions are serialisable: their row locks and the partial unique   *)
(* index make a concurrent one wait or fail (see Fail).                    *)
(***************************************************************************)
EXTENDS Naturals

CONSTANTS
    Slots,        \* the two configuration slots of the project
    Files,        \* the contents a slot may hold
    Names,        \* route names
    RoutesOf,     \* RoutesOf[f]: the names of the routes file f declares
    Budgeted,     \* the files with a route that has budget_limiting
    Slow,         \* the files with a semantic router: building them awaits
    Replicas,     \* the gateway processes
    Calls,        \* identities for the calls in flight
    Contents,     \* Contents[s]: what slot s holds at the start
    MaxCalls,     \* bound: calls made in a behaviour
    MaxCrashes,   \* bound: crashes of a replica in a behaviour
    None

ASSUME ProjectConfigAssumption ==
    /\ RoutesOf \in [Files -> SUBSET Names]
    /\ Budgeted \subseteq Files
    /\ Slow \subseteq Files
    /\ Contents \in [Slots -> Files]
    /\ MaxCalls \in Nat
    /\ MaxCrashes \in Nat
    /\ None \notin Slots \cup Files \cup Names \cup Replicas \cup Calls

VARIABLES
    cfg,          \* cfg[s]: the row of slot s, its status and its file
    project,      \* the project row: served reference and deletion marks
    limits,       \* the project has budget limits of its own
    groups,       \* the route names associated with a group
    replica,      \* replica[r]: what a process keeps in memory
    call,         \* call[q]: the handler that runs under identity q
    started,      \* calls made so far
    crashes,      \* crashes so far
    approved,     \* history: approved[s], the content approved in s
    lapses        \* history: what an overlap of calls or a fault explains

vars == <<cfg, project, limits, groups, replica, call, started, crashes,
          approved, lapses>>

-----------------------------------------------------------------------------

Draft == "DRAFT"
Ready == "READY_TO_SERVE"
Served == "SERVED"
Status == {Draft, Ready, Served}

Edits == {"update", "import", "approve", "cancel"}
Servings == {"serve", "unserve", "delete"}
OnLoop == Servings \cup {"import"}
Others == {"addLimits", "addGroups", "removeGroups"}
Ops == Edits \cup Servings \cup Others

ASSUME NoneIsNoOperation == None \notin Ops

Points == {"read", "limits", "write", "serve", "outProject", "outConfigs",
           "drop", "build", "cleanup", "unserve", "project", "findServed",
           "softConfigs", "softProject", "dropLimits", "served", "insert",
           "validate", "associate"}

\* Mutant: an edit of the served config is not refused.
AdmitsServed == [update  |-> Status,         import |-> {Draft, Ready},
                 approve |-> {Draft},        cancel |-> {Ready},
                 serve   |-> {Ready},        unserve |-> {Served}]

(* The statuses in which a handler goes on after it read the config.       *)
Admits == [update  |-> {Draft, Ready}, import |-> {Draft, Ready},
           approve |-> {Draft},        cancel |-> {Ready},
           serve   |-> {Ready},        unserve |-> {Served}]

\* Mutant: serving does not look at the project's limits again.
AfterReadUnchecked == [update |-> "write", import |-> "limits", approve |-> "limits",
                       cancel |-> "write", serve |-> "serve", unserve |-> "unserve"]

(* The order in which the handlers make their steps.                       *)
First == [update |-> "limits", import |-> "read", approve |-> "read",
          cancel |-> "read", serve |-> "read", unserve |-> "read",
          delete |-> "project", addLimits |-> "served",
          addGroups |-> "validate", removeGroups |-> "validate"]
AfterRead == [update |-> "write", import |-> "limits", approve |-> "limits",
              cancel |-> "write", serve |-> "limits", unserve |-> "unserve"]
AfterLimits == [update |-> "read", import |-> "write", approve |-> "write",
                serve |-> "serve"]
NewStatus == [update |-> Draft, import |-> Draft, approve |-> Ready,
              cancel |-> Draft]

Idle == [op |-> None, pc |-> "idle", at |-> None, slot |-> None,
         file |-> None, name |-> None, ref |-> None, raced |-> {}]

NoRoutes == [n \in Names |-> None]
NewProcess(state) == [state |-> state, routes |-> NoRoutes, entry |-> None,
                      loop |-> None, boot |-> None]

(* register_project_routes puts the routes of f beside those there are.    *)
Registered(rep, f) ==
    [rep EXCEPT !.routes = [n \in Names |-> IF n \in RoutesOf[f] THEN f ELSE @[n]],
                !.entry = f]

\* Mutant: the entry goes, the routes stay.
DeregisteredEntry(rep) == [rep EXCEPT !.entry = None]

(* deregister_project_routes drops every route of the project.             *)
Deregistered(rep) == [rep EXCEPT !.routes = NoRoutes, !.entry = None]

(* The content the project's reference names, among the rows not deleted.  *)
ServedFile ==
    IF project.gone \/ project.configsGone \/ project.ref = None
    THEN None ELSE cfg[project.ref].file

(* get_served_by_project: the live rows with status SERVED.                *)
ServedSlots == {s \in Slots : cfg[s].status = Served /\ ~project.configsGone}

-----------------------------------------------------------------------------
(* Steps of a call.                                                        *)

Freed(q) == [replica EXCEPT ![call[q].at].loop = IF @ = q THEN None ELSE @]

Finish(q) == /\ call' = [call EXCEPT ![q] = Idle]
             /\ replica' = Freed(q)

GoTo(q, pc) == /\ call' = [call EXCEPT ![q].pc = pc]
               /\ UNCHANGED replica

(* Records an event in every other call that checks and then writes one of *)
(* the slots S; adding limits looks at all of them.                        *)
Overlap(calls, q, S, event) ==
    [p \in Calls |-> IF /\ p # q
                        /\ \/ calls[p].op \in Edits \cup {"serve"} /\ calls[p].slot \in S
                           \/ calls[p].op = "addLimits"
                     THEN [calls[p] EXCEPT !.raced = @ \cup {event}]
                     ELSE calls[p]]

(* The replicas a change of what is served passes by: every other process, *)
(* and q's own one if another serving call of it awaits.                   *)
PassedBy(q) ==
    {r \in Replicas : r # call[q].at /\ replica[r].state # "down"} \cup
    {r \in Replicas : \E p \in Calls \ {q} : /\ call[p].at = r
                                             /\ call[p].op \in Servings
                                             /\ r = call[q].at}

(* The content each slot has approved once the rows are `rows`: leaving    *)
(* READY or SERVED for DRAFT withdraws the approval.                       *)
Withdrawn(rows) ==
    [s \in Slots |-> IF rows[s].status = Draft THEN None ELSE approved[s]]

Begin(q, op, s, f, n, r) ==
    /\ call[q] = Idle
    /\ started < MaxCalls
    /\ replica[r].state = "up"
    /\ op \in OnLoop => replica[r].loop = None
    /\ started' = started + 1
    /\ call' = [call EXCEPT ![q] =
            [op |-> op, pc |-> First[op], at |-> r, slot |-> s, file |-> f,
             name |-> n, ref |-> None, raced |-> {}]]
    /\ replica' = [replica EXCEPT ![r].loop = IF op \in OnLoop THEN q ELSE @]
    /\ UNCHANGED <<cfg, project, limits, groups, crashes, approved, lapses>>

(* The arguments a request of each kind comes with.                        *)
BeginSome(q, r) ==
    \/ \E s \in Slots, f \in Files, op \in {"update", "import"} :
            Begin(q, op, s, f, None, r)
    \/ \E s \in Slots, op \in {"approve", "cancel", "serve", "unserve"} :
            Begin(q, op, s, None, None, r)
    \/ \E op \in {"delete", "addLimits"} : Begin(q, op, None, None, None, r)
    \/ \E n \in Names, op \in {"addGroups", "removeGroups"} :
            Begin(q, op, None, None, n, r)

(* _get_config_or_raise and the guard on the status it returned.           *)
ReadConfig(q) ==
    /\ call[q].pc = "read"
    /\ LET c == call[q] IN
       \/ /\ ~project.configsGone
          /\ cfg[c.slot].status \in Admits[c.op]
          /\ call' = [call EXCEPT ![q].pc = AfterRead[c.op],
                                  ![q].file = IF c.op \in {"update", "import"}
                                              THEN @ ELSE cfg[c.slot].file]
          /\ UNCHANGED replica
       \/ /\ project.configsGone \/ cfg[c.slot].status \notin Admits[c.op]
          /\ Finish(q)
    /\ UNCHANGED <<cfg, project, limits, groups, started, crashes, approved, lapses>>

(* _reject_route_budget_limiting_conflict                                  *)
CheckBudget(q) ==
    /\ call[q].pc = "limits"
    /\ LET c == call[q] IN
       \/ ~(c.file \in Budgeted /\ limits) /\ GoTo(q, AfterLimits[c.op])
       \/ (c.file \in Budgeted /\ limits) /\ Finish(q)
    /\ UNCHANGED <<cfg, project, limits, groups, started, crashes, approved, lapses>>

\* Mutant: an edit leaves the approval as it is.
EditedRowStillReady(c) ==
    [status |-> IF c.op \in {"update", "import"} THEN cfg[c.slot].status
                ELSE NewStatus[c.op],
     file |-> IF c.op \in {"update", "import"} THEN c.file ELSE cfg[c.slot].file]

(* update_config_file and set_status: neither looks at the status the row  *)
(* has by now.                                                             *)
EditedRow(c) ==
    [status |-> NewStatus[c.op],
     file |-> IF c.op \in {"update", "import"} THEN c.file ELSE cfg[c.slot].file]

WriteConfig(q) ==
    /\ call[q].pc = "write"
    /\ LET c == call[q]
           s == c.slot
           rows == IF project.configsGone THEN cfg
                   ELSE [cfg EXCEPT ![s] = EditedRow(c)]
       IN
       /\ cfg' = rows
       /\ approved' = IF c.op = "approve" /\ ~project.configsGone
                      THEN [approved EXCEPT ![s] = c.file]
                      ELSE Withdrawn(rows)
       /\ lapses' = IF project.configsGone THEN lapses ELSE [lapses EXCEPT
            !.status = @ \cup {t \in {s} : cfg[t].status = Served /\ "serve" \in c.raced},
            !.approval = IF c.op # "approve" THEN @
                         ELSE IF "withdraw" \in c.raced THEN @ \cup {s} ELSE @ \ {s},
            !.budget = @ \/ (c.op \in {"update", "import"} /\ "limits" \in c.raced
                             /\ c.file \in Budgeted)]
       /\ call' = [(IF c.op = "approve" THEN call
                    ELSE Overlap(call, q, {s}, "withdraw")) EXCEPT ![q] = Idle]
       /\ replica' = Freed(q)
    /\ UNCHANGED <<project, limits, groups, started, crashes>>

(* ProjectConfigDAO.serve: the served sibling goes back to DRAFT, this     *)
(* slot is SERVED and referenced, whatever its status is by now.           *)
ServedRows(s) ==
    [t \in Slots |-> IF t = s THEN [cfg[t] EXCEPT !.status = Served]
                     ELSE IF cfg[t].status = Served
                     THEN [cfg[t] EXCEPT !.status = Draft]
                     ELSE cfg[t]]

Serve(q) ==
    /\ call[q].pc = "serve"
    /\ ~project.configsGone
    /\ LET c == call[q]
           s == c.slot
           demoted == ServedSlots \ {s}
       IN
       /\ cfg' = ServedRows(s)
       /\ project' = [project EXCEPT !.ref = s]
       /\ approved' = Withdrawn(cfg')
       /\ lapses' = [lapses EXCEPT
            !.status = @ \ {s},
            !.approval = IF "withdraw" \in c.raced THEN @ \cup {s} ELSE @,
            !.routes = (@ \ {c.at}) \cup PassedBy(q),
            !.budget = @ \/ ("limits" \in c.raced /\ cfg[s].file \in Budgeted)]
       /\ call' = [Overlap(Overlap(call, q, {s}, "serve"), q, demoted, "withdraw")
                   EXCEPT ![q].pc = "outProject"]
    /\ UNCHANGED <<limits, groups, replica, started, crashes>>

ServeDeleted(q) ==
    /\ call[q].pc = "serve"
    /\ project.configsGone
    /\ Finish(q)
    /\ UNCHANGED <<cfg, project, limits, groups, started, crashes, approved, lapses>>

(* ProjectConfigDAO.unserve, called by unserve_config and delete_project.  *)
Unserve(q) ==
    /\ call[q].pc = "unserve"
    /\ LET c == call[q]
           s == c.slot
           live == ~project.configsGone
       IN
       /\ cfg' = IF live THEN [cfg EXCEPT ![s].status = Draft] ELSE cfg
       /\ project' = IF live /\ project.ref = s
                     THEN [project EXCEPT !.ref = None] ELSE project
       /\ approved' = Withdrawn(cfg')
       /\ lapses' = [lapses EXCEPT !.routes = IF live THEN @ \cup PassedBy(q) ELSE @]
       /\ \/ /\ live \/ c.op = "delete"
             /\ call' = [Overlap(call, q, {s}, "withdraw") EXCEPT
                    ![q].pc = IF c.op = "delete" THEN "softConfigs" ELSE "outProject"]
             /\ UNCHANGED replica
          \/ /\ ~live /\ c.op = "unserve"
             /\ Finish(q)
    /\ UNCHANGED <<limits, groups, started, crashes>>

(* _build_out_or_raise after a serving transaction: the project row, then  *)
(* (serve uses them) its configs.  The routes stay as they are if the      *)
(* project is gone.                                                        *)
OutProject(q) ==
    /\ call[q].pc = "outProject"
    /\ \/ /\ ~project.gone
          /\ call' = [call EXCEPT ![q].ref = project.ref,
                 ![q].pc = IF call[q].op = "serve" THEN "outConfigs" ELSE "drop"]
          /\ UNCHANGED <<replica, lapses>>
       \/ /\ project.gone
          /\ Finish(q)
          /\ lapses' = [lapses EXCEPT !.routes = @ \cup {call[q].at}]
    /\ UNCHANGED <<cfg, project, limits, groups, started, crashes, approved>>

OutConfigs(q) ==
    /\ call[q].pc = "outConfigs"
    /\ call' = [call EXCEPT ![q].pc = "drop",
            ![q].file = IF call[q].ref = None \/ project.configsGone
                        THEN None ELSE cfg[call[q].ref].file]
    /\ UNCHANGED <<cfg, project, limits, groups, replica, started, crashes,
                   approved, lapses>>

(* deregister_project_routes, on the loop.  Serving a file with a semantic *)
(* router then awaits: the loop is free while no route of the project is   *)
(* registered.                                                             *)
Drop(q) ==
    /\ call[q].pc = "drop"
    /\ LET c == call[q]
           r == c.at
           builds == c.op = "serve" /\ c.file # None
           next == IF builds THEN "build" ELSE "cleanup"
           rep == Deregistered(replica[r])
       IN
       /\ replica[r].loop \in {q, None}
       /\ \/ /\ c.op = "serve"
             /\ call' = [call EXCEPT ![q].pc = next]
             /\ replica' = [replica EXCEPT ![r] =
                    [rep EXCEPT !.loop = IF builds /\ c.file \in Slow THEN None ELSE q]]
          \/ /\ c.op # "serve"
             /\ call' = [call EXCEPT ![q] = Idle]
             /\ replica' = [replica EXCEPT ![r] = [rep EXCEPT !.loop = None]]
    /\ UNCHANGED <<cfg, project, limits, groups, started, crashes, approved, lapses>>

(* register_project_routes after its await.                                *)
Build(q) ==
    /\ call[q].pc = "build"
    /\ LET r == call[q].at IN
       /\ replica[r].loop \in {q, None}
       /\ replica' = [replica EXCEPT ![r] =
                [Registered(replica[r], call[q].file) EXCEPT !.loop = q]]
    /\ call' = [call EXCEPT ![q].pc = "cleanup"]
    /\ UNCHANGED <<cfg, project, limits, groups, started, crashes, approved, lapses>>

(* cleanup_orphaned_associations: no entry means no valid name.            *)
Cleanup(q) ==
    /\ call[q].pc = "cleanup"
    /\ LET entry == replica[call[q].at].entry IN
       groups' = IF entry = None THEN {} ELSE groups \cap RoutesOf[entry]
    /\ Finish(q)
    /\ UNCHANGED <<cfg, project, limits, started, crashes, approved, lapses>>

(* delete_project, one transaction after the other.                        *)
DeleteProject(q) ==
    /\ call[q].pc = "project"
    /\ \/ /\ ~project.gone
          /\ call' = [call EXCEPT ![q].pc = "findServed", ![q].ref = project.ref]
          /\ UNCHANGED replica
       \/ /\ project.gone
          /\ Finish(q)
    /\ UNCHANGED <<cfg, project, limits, groups, started, crashes, approved, lapses>>

FindServed(q) ==
    /\ call[q].pc = "findServed"
    /\ \/ \E s \in ServedSlots :
            call' = [call EXCEPT ![q].pc = "unserve", ![q].slot = s]
       \/ /\ ServedSlots = {}
          /\ call' = [call EXCEPT ![q].pc = "softConfigs"]
    /\ UNCHANGED <<cfg, project, limits, groups, replica, started, crashes,
                   approved, lapses>>

SoftDelete(q) ==
    /\ \/ /\ call[q].pc = "softConfigs"
          /\ project' = [project EXCEPT !.configsGone = TRUE]
          /\ call' = [call EXCEPT ![q].pc = "softProject"]
       \/ /\ call[q].pc = "softProject"
          /\ project' = [project EXCEPT !.gone = TRUE]
          /\ call' = [call EXCEPT ![q].pc = "dropLimits"]
    /\ lapses' = [lapses EXCEPT !.routes = @ \cup PassedBy(q)]
    /\ UNCHANGED <<cfg, limits, groups, replica, started, crashes, approved>>

(* The limits go, their counters are cleared (an await), and the routes    *)
(* go if the project had a reference when the call began.                  *)
DropLimits(q) ==
    /\ call[q].pc = "dropLimits"
    /\ limits' = FALSE
    /\ \/ /\ call[q].ref = None
          /\ Finish(q)
       \/ /\ call[q].ref # None
          /\ call' = [call EXCEPT ![q].pc = "drop"]
          /\ replica' = IF limits THEN Freed(q) ELSE replica
    /\ UNCHANGED <<cfg, project, groups, started, crashes, approved, lapses>>

(* add_budget_limits_to_project: only the served config is looked at.      *)
CheckServed(q) ==
    /\ call[q].pc = "served"
    /\ LET refused == \/ project.gone
                      \/ \E s \in ServedSlots : cfg[s].file \in Budgeted IN
       \/ ~refused /\ GoTo(q, "insert")
       \/ refused /\ Finish(q)
    /\ UNCHANGED <<cfg, project, limits, groups, started, crashes, approved, lapses>>

InsertLimits(q) ==
    /\ call[q].pc = "insert"
    /\ limits' = TRUE
    /\ lapses' = [lapses EXCEPT !.budget = @ \/ "serve" \in call[q].raced]
    /\ call' = [Overlap(call, q, Slots, "limits") EXCEPT ![q] = Idle]
    /\ replica' = Freed(q)
    /\ UNCHANGED <<cfg, project, groups, started, crashes, approved>>

(* delete_budget_limit_from_project                                        *)
DeleteLimits ==
    /\ limits
    /\ ~project.gone
    /\ limits' = FALSE
    /\ UNCHANGED <<cfg, project, groups, replica, call, started, crashes,
                   approved, lapses>>

(* add_groups_to_project_route and remove_project_route: the name is       *)
(* validated against this replica's entry, the row is written after.       *)
ValidateRoute(q) ==
    /\ call[q].pc = "validate"
    /\ LET c == call[q]
           entry == replica[c.at].entry
           known == ~project.gone /\ entry # None /\ c.name \in RoutesOf[entry]
       IN
       \/ known /\ GoTo(q, "associate")
       \/ ~known /\ Finish(q)
    /\ UNCHANGED <<cfg, project, limits, groups, started, crashes, approved, lapses>>

Associate(q) ==
    /\ call[q].pc = "associate"
    /\ groups' = IF call[q].op = "addGroups" THEN groups \cup {call[q].name}
                 ELSE groups \ {call[q].name}
    /\ Finish(q)
    /\ UNCHANGED <<cfg, project, limits, started, crashes, approved, lapses>>

(* A transaction raises (a lost connection, or the unique index refusing   *)
(* the second of two concurrent serves), or building the routes does: the  *)
(* call ends where it is.                                                  *)
Committed == {"outProject", "outConfigs", "drop", "build", "softConfigs",
              "softProject", "dropLimits"}

Fail(q) ==
    /\ call[q] # Idle
    /\ call[q].op \in OnLoop => replica[call[q].at].loop \in {q, None}
    /\ lapses' = [lapses EXCEPT !.routes = IF call[q].pc \in Committed
                                           THEN @ \cup {call[q].at} ELSE @]
    /\ Finish(q)
    /\ UNCHANGED <<cfg, project, limits, groups, started, crashes, approved>>

-----------------------------------------------------------------------------
(* The processes.                                                          *)

Crash(r) ==
    /\ replica[r].state # "down"
    /\ crashes < MaxCrashes
    /\ crashes' = crashes + 1
    /\ replica' = [replica EXCEPT ![r] = NewProcess("down")]
    /\ call' = [q \in Calls |-> IF call[q].at = r THEN Idle ELSE call[q]]
    /\ lapses' = [lapses EXCEPT !.routes = @ \ {r}]
    /\ UNCHANGED <<cfg, project, limits, groups, started, approved>>

(* The lifespan of a process reads the projects with a reference, then     *)
(* registers each before it takes a request.                               *)
Boot(r) ==
    /\ replica[r].state = "down"
    /\ replica' = [replica EXCEPT ![r] =
            [NewProcess("booting") EXCEPT !.boot = ServedFile]]
    /\ UNCHANGED <<cfg, project, limits, groups, call, started, crashes,
                   approved, lapses>>

Open(r) ==
    /\ replica[r].state = "booting"
    /\ LET f == replica[r].boot
           up == NewProcess("up")
       IN replica' = [replica EXCEPT ![r] =
                IF f = None THEN up ELSE Registered(up, f)]
    /\ UNCHANGED <<cfg, project, limits, groups, call, started, crashes,
                   approved, lapses>>

-----------------------------------------------------------------------------

(* A project that is not served now: its slots are drafts or approved, its *)
(* associations those left by what was served before.                      *)
Init ==
    /\ \E status \in [Slots -> {Draft, Ready}] :
         cfg = [s \in Slots |-> [status |-> status[s], file |-> Contents[s]]]
    /\ project = [ref |-> None, gone |-> FALSE, configsGone |-> FALSE]
    /\ limits = FALSE
    /\ groups = Names
    /\ replica = [r \in Replicas |-> NewProcess("up")]
    /\ call = [q \in Calls |-> Idle]
    /\ started = 0
    /\ crashes = 0
    /\ approved = [s \in Slots |-> IF cfg[s].status = Ready
                                   THEN cfg[s].file ELSE None]
    /\ lapses = [status |-> {}, approval |-> {}, routes |-> {}, budget |-> FALSE]

Step(q) ==
    \/ ReadConfig(q) \/ CheckBudget(q) \/ WriteConfig(q)
    \/ Serve(q) \/ ServeDeleted(q) \/ Unserve(q)
    \/ OutProject(q) \/ OutConfigs(q) \/ Drop(q) \/ Build(q) \/ Cleanup(q)
    \/ DeleteProject(q) \/ FindServed(q) \/ SoftDelete(q) \/ DropLimits(q)
    \/ CheckServed(q) \/ InsertLimits(q)
    \/ ValidateRoute(q) \/ Associate(q)
    \/ Fail(q)

Next ==
    \/ \E q \in Calls, r \in Replicas : BeginSome(q, r)
    \/ \E q \in Calls : Step(q)
    \/ DeleteLimits
    \/ \E r \in Replicas : Crash(r) \/ Boot(r) \/ Open(r)

Spec == Init /\ [][Next]_vars

-----------------------------------------------------------------------------
(* Properties.                                                             *)

CallRecord ==
    [op : Ops, pc : Points, at : Replicas, slot : Slots \cup {None},
     file : Files \cup {None}, name : Names \cup {None},
     ref : Slots \cup {None},
     raced : SUBSET {"serve", "limits", "withdraw"}]
ReplicaRecord ==
    [state : {"down", "booting", "up"}, routes : [Names -> Files \cup {None}],
     entry : Files \cup {None}, loop : Calls \cup {None},
     boot : Files \cup {None}]
LapsesRecord ==
    [status : SUBSET Slots, approval : SUBSET Slots,
     routes : SUBSET Replicas, budget : BOOLEAN]

(* The variables have their types, and the event loop of a replica is held *)
(* by no call but a running one of its own that is declared async          *)
(* (project_route.py): a handler that ends on any path gives it back.      *)
TypeOK ==
    /\ cfg \in [Slots -> [status : Status, file : Files]]
    /\ project \in [ref : Slots \cup {None}, gone : BOOLEAN, configsGone : BOOLEAN]
    /\ limits \in BOOLEAN
    /\ groups \in SUBSET Names
    /\ replica \in [Replicas -> ReplicaRecord]
    /\ call \in [Calls -> CallRecord \cup {Idle}]
    /\ started \in 0..MaxCalls
    /\ crashes \in 0..MaxCrashes
    /\ approved \in [Slots -> Files \cup {None}]
    /\ lapses \in LapsesRecord
    /\ \A r \in Replicas : LET q == replica[r].loop IN
         q # None => call[q].at = r /\ call[q].op \in OnLoop

(* At most one slot is SERVED and it is the one the project references,    *)
(* through every order of serves, unserves and edits on both replicas      *)
(* (ProjectConfigDAO.serve, unserve).                                      *)
ServedIsReference ==
    \A s \in Slots : cfg[s].status = Served => project.ref = s

(* The slot the project references is SERVED, unless an edit, approval or  *)
(* cancellation that read its status before the serve committed wrote it   *)
(* after: "served and cannot be edited" (update_config) holds of every     *)
(* call that does not overlap a serve of its slot.                         *)
ReferenceIsServed ==
    project.ref # None /\ project.ref \notin lapses.status
        => cfg[project.ref].status = Served

ReferenceAgrees == ServedIsReference /\ ReferenceIsServed

(* What the project references has the very content that was approved, and *)
(* the approval was not withdrawn since, unless a withdrawal (an edit, a   *)
(* cancellation, an unserve) overlapped the approval or the serve: "must   *)
(* be approved before serving" (serve_config) is read in one transaction   *)
(* and acted on in another.                                                *)
ServedAsApproved ==
    project.ref # None /\ project.ref \notin lapses.status \cup lapses.approval
        => approved[project.ref] = cfg[project.ref].file

(* A process that runs no serving call has exactly the routes of the       *)
(* referenced content (none when nothing is referenced or the project is   *)
(* deleted), unless since its last serve or start another process changed  *)
(* what is served, a second serving call ran while one of its own awaited, *)
(* a call failed after its commit, or the served slot was overtaken by a   *)
(* stale write (serve_config, unserve_config, delete_project in            *)
(* project_route.py, lifespan in server.py).                               *)
RoutesFollowServed ==
    \A r \in Replicas :
        /\ replica[r].state = "up"
        /\ r \notin lapses.routes
        /\ project.ref \notin lapses.status
        /\ \A q \in Calls : call[q].at = r => call[q].op \notin Servings
        => replica[r] = [(IF ServedFile = None THEN NewProcess("up")
                          ELSE Registered(NewProcess("up"), ServedFile))
                         EXCEPT !.loop = replica[r].loop]

(* A project with budget limits of its own references no content whose     *)
(* routes have theirs, unless limits and content were checked and written  *)
(* by overlapping calls (_reject_route_budget_limiting_conflict,           *)
(* add_budget_limits_to_project).                                          *)
BudgetExclusive ==
    limits /\ ~lapses.budget /\ project.ref \notin lapses.status
        => ServedFile \notin Budgeted

=============================================================================
