---------------------------- MODULE Credentials ----------------------------
(***************************************************************************)
(* One credential (API key) of the gateway: its value, the previous value  *)
(* a rotation leaves in grace, its group, one limit of it, and the         *)
(* requests that present one of its values.                                *)
(*                                                                         *)
(* Every handler reads the row in one transaction, judges what it read     *)
(* against the clock, and writes in another transaction.  A value is the   *)
(* number of the rotation that made it.  Only keys owned by the gateway    *)
(* are modelled: the others are refused by every handler.                  *)
(***************************************************************************)
EXTENDS Naturals

CONSTANTS
    Groups,       \* the groups a key can be assigned to
    Bound,        \* the groups associated with the requested route
    Maxima,       \* the values a limit can be given
    GracePeriods, \* durations of a grace period a rotation may ask for
    Expiry,       \* the last instant the credential works
    Calls,        \* identities for calls and requests in flight
    MaxCalls,     \* bound: calls and requests made in a behaviour
    MaxTime,      \* bound: the last instant of a behaviour
    None

ASSUME CredentialsAssumption ==
    /\ Bound \subseteq Groups
    /\ GracePeriods \subseteq Nat \ {0}
    /\ Expiry \in Nat
    /\ MaxCalls \in Nat
    /\ MaxTime \in Nat
    /\ None \notin Groups \cup Maxima \cup Calls \cup Nat \cup [id : Nat, max : Maxima]

VARIABLES
    clock,        \* the time every process reads
    key,          \* the row of the key
    limit,        \* the row of its limit, or None
    groups,       \* the groups that exist
    call,         \* call[q]: the handler or request running under q
    made,         \* calls made so far
    fresh,        \* key values and limit rows generated so far
    until         \* history: until[v], the instant up to which v was promised

vars == <<clock, key, limit, groups, call, made, fresh, until>>

-----------------------------------------------------------------------------

Forever == MaxTime + 1
Values == 0..MaxCalls

KeyOps == {"rotate", "endGrace", "addGroup"}
LimitOps == {"addLimit", "setLimit", "applyLimit", "deleteLimit"}
Ops == KeyOps \cup LimitOps \cup {"request"}

Idle == [op |-> None, pc |-> "idle", arg |-> None, row |-> None,
         limit |-> None, now |-> 0, late |-> FALSE, raced |-> FALSE]

(* get_credential_state: EXPIRED after the last instant of the expiry day. *)
Expired(now) == now > Expiry

\* Mutant: the end of the grace period is not compared with the clock.
PreviousStays(row, now) == row.grace # None /\ ~Expired(now)

(* previous_value_authenticates                                            *)
PreviousAuthenticates(row, now) ==
    row.grace # None /\ now < row.grace /\ ~Expired(now)

(* The guard of ApiKeyValidator.validate_token on a row found by value v.  *)
Authenticates(v, row, now) ==
    /\ row.exists
    /\ v = row.value \/ (v = row.previous /\ PreviousAuthenticates(row, now))
    /\ ~Expired(now)

(* What was promised of v: it is current, or in a grace nobody ended.      *)
Promised(v, now) == key.exists /\ now < until[v] /\ ~Expired(now)

(* get_grace_end: None for no grace period, and none beyond the expiry.    *)
GraceEnd(period, now) == IF period = None THEN None ELSE now + period

GraceAllowed(period, now) == period # None => now + period <= Expiry

-----------------------------------------------------------------------------

Finish(q) == call' = [call EXCEPT ![q] = Idle]

(* The other calls that already read what this one writes.                 *)
Overtakes(calls, q, ops) ==
    [p \in Calls |-> IF p # q /\ calls[p].op \in ops /\ calls[p].pc # "read"
                     THEN [calls[p] EXCEPT !.raced = TRUE] ELSE calls[p]]

CountCall == made < MaxCalls /\ made' = made + 1

Begin(q, op, arg) ==
    /\ call[q] = Idle
    /\ CountCall
    /\ call' = [call EXCEPT ![q] =
            [Idle EXCEPT !.op = op, !.pc = "read", !.arg = arg,
                         !.late = op = "request" /\ ~Promised(arg, clock)]]
    /\ UNCHANGED <<clock, key, limit, groups, fresh, until>>

BeginSome(q) ==
    \/ \E period \in GracePeriods \cup {None} : Begin(q, "rotate", period)
    \/ \E op \in {"endGrace", "deleteLimit"} : Begin(q, op, None)
    \/ \E g \in Groups : Begin(q, "addGroup", g)
    \/ \E op \in {"addLimit", "setLimit", "applyLimit"}, m \in Maxima :
            Begin(q, op, m)
    \/ \E v \in 0..fresh : Begin(q, "request", v)

(* get_by_uuid, or get_key_by_hashed_key for a request: the row may be     *)
(* found by its current or by its previous value.                          *)
Found(c) ==
    /\ key.exists
    /\ c.op = "request" => c.arg \in {key.value, key.previous}

Read(q) ==
    /\ call[q].pc = "read"
    /\ \/ /\ Found(call[q])
          /\ call' = [call EXCEPT ![q].pc = "decide",
                ![q].row = IF call[q].op \in KeyOps \cup {"request"}
                           THEN key ELSE None,
                ![q].limit = IF call[q].op \in LimitOps THEN limit ELSE None]
       \/ /\ ~Found(call[q])
          /\ Finish(q)
    /\ UNCHANGED <<clock, key, limit, groups, made, fresh, until>>

(* What each handler asks of the row it read, at the clock it now reads.   *)
MayRotate(row, period, now) ==
    /\ ~Expired(now)
    /\ ~PreviousAuthenticates(row, now)
    /\ GraceAllowed(period, now)

\* Mutant: the group the key has is not looked at.
MayReassign(row, g, now) == ~Expired(now)

MayAssign(row, g, now) == row.group = None /\ ~Expired(now)

MayTouchLimit(op, lim, now) ==
    /\ op # "applyLimit" => ~Expired(now)
    /\ op = "addLimit" => lim = None
    /\ op \in {"setLimit", "deleteLimit"} => lim # None

Allowed(c, now) ==
    CASE c.op = "rotate"   -> MayRotate(c.row, c.arg, now)
      [] c.op = "endGrace" -> TRUE
      [] c.op = "addGroup" -> MayAssign(c.row, c.arg, now)
      [] c.op = "request"  -> /\ Authenticates(c.arg, c.row, now)
                              /\ c.row.group # None
      [] OTHER             -> MayTouchLimit(c.op, c.limit, now)

Decide(q) ==
    /\ call[q].pc = "decide"
    /\ \/ /\ Allowed(call[q], clock)
          /\ call' = [call EXCEPT
                ![q].now = IF call[q].op \in {"rotate", "endGrace"} THEN clock ELSE 0,
                ![q].pc = IF call[q].op = "request" THEN "access" ELSE "write"]
       \/ /\ ~Allowed(call[q], clock)
          /\ Finish(q)
    /\ UNCHANGED <<clock, key, limit, groups, made, fresh, until>>

\* Mutant: the update does not compare the value with the one read.
RotatableOnce(c) == key.exists /\ (key.grace = None \/ key.grace <= c.now)

(* KeyDAO.rotate: one conditional update.                                  *)
StillRotatable(c) ==
    /\ key.exists
    /\ key.value = c.row.value
    /\ key.grace = None \/ key.grace <= c.now

Rotate(q) ==
    /\ call[q].pc = "write" /\ call[q].op = "rotate"
    /\ LET c == call[q]
           grace == GraceEnd(c.arg, c.now)
           old == c.row.value
       IN
       /\ fresh' = fresh + 1
       /\ IF StillRotatable(c)
          THEN /\ key' = [key EXCEPT !.value = fresh + 1, !.grace = grace,
                        !.previous = IF grace = None THEN None ELSE old]
               /\ until' = [until EXCEPT ![fresh + 1] = Forever,
                        ![old] = IF grace = None THEN 0 ELSE grace]
          ELSE UNCHANGED <<key, until>>
    /\ Finish(q)
    /\ UNCHANGED <<clock, limit, groups, made>>

(* KeyDAO.end_grace_period: whichever grace period runs by now.            *)
EndGrace(q) ==
    /\ call[q].pc = "write" /\ call[q].op = "endGrace"
    /\ IF key.exists /\ key.grace # None /\ key.grace > call[q].now
       THEN /\ key' = [key EXCEPT !.previous = None, !.grace = None]
            /\ until' = [until EXCEPT ![key.previous] = 0]
       ELSE UNCHANGED <<key, until>>
    /\ Finish(q)
    /\ UNCHANGED <<clock, limit, groups, made, fresh>>

(* KeyDAO.assign_group: unconditional; a group deleted meanwhile violates  *)
(* the foreign key.                                                        *)
AssignGroup(q) ==
    /\ call[q].pc = "write" /\ call[q].op = "addGroup"
    /\ LET done == key.exists /\ call[q].arg \in groups IN
       /\ key' = IF done THEN [key EXCEPT !.group = call[q].arg] ELSE key
       /\ call' = [(IF done THEN Overtakes(call, q, {"addGroup", "request"}) ELSE call)
                   EXCEPT ![q] = Idle]
    /\ UNCHANGED <<clock, limit, groups, made, fresh, until>>

(* remove_group_from_key empties the group, whichever it is.               *)
RemoveGroup ==
    /\ CountCall
    /\ key.exists
    /\ key.group # None
    /\ key' = [key EXCEPT !.group = None]
    /\ call' = Overtakes(call, None, {"request"})
    /\ UNCHANGED <<clock, limit, groups, fresh, until>>

(* delete_group: ON DELETE SET NULL on the keys.                           *)
DeleteGroup(g) ==
    /\ CountCall
    /\ g \in groups
    /\ groups' = groups \ {g}
    /\ key' = IF key.group = g THEN [key EXCEPT !.group = None] ELSE key
    /\ call' = IF key.group = g THEN Overtakes(call, None, {"request"}) ELSE call
    /\ UNCHANGED <<clock, limit, fresh, until>>

(* delete_key: the limits go with the row.                                 *)
DeleteKey ==
    /\ CountCall
    /\ key.exists
    /\ key' = [key EXCEPT !.exists = FALSE]
    /\ limit' = None
    /\ call' = Overtakes(call, None, LimitOps)
    /\ UNCHANGED <<clock, groups, fresh, until>>

(* The limit handlers: add inserts (the unique signature refuses a second  *)
(* row), set and apply update by the row's own uuid, which matches nothing *)
(* once the row is gone, delete deletes by uuid.                           *)
Inserts(c) == c.op = "addLimit" \/ (c.op = "applyLimit" /\ c.limit = None)

LimitAfter(c, id) ==
    IF Inserts(c)
    THEN IF limit = None /\ key.exists THEN [id |-> id, max |-> c.arg] ELSE limit
    ELSE IF limit = None \/ limit.id # c.limit.id THEN limit
    ELSE IF c.op = "deleteLimit" THEN None
    ELSE [limit EXCEPT !.max = c.arg]

WriteLimit(q) ==
    /\ call[q].pc = "write" /\ call[q].op \in LimitOps
    /\ limit' = LimitAfter(call[q], fresh + 1)
    /\ fresh' = IF limit = None /\ limit' # None THEN fresh + 1 ELSE fresh
    /\ call' = [(IF limit' # limit THEN Overtakes(call, q, LimitOps) ELSE call)
                EXCEPT ![q] = Idle]
    /\ UNCHANGED <<clock, key, groups, made, until>>

(* check_key_uuid_for_route reads the key's group again.                   *)
CheckAccess(q) ==
    /\ call[q].pc = "access"
    /\ \/ /\ key.exists /\ key.group \in Bound
          /\ call' = [call EXCEPT ![q].pc = "admitted"]
       \/ /\ ~(key.exists /\ key.group \in Bound)
          /\ Finish(q)
    /\ UNCHANGED <<clock, key, limit, groups, made, fresh, until>>

Serve(q) ==
    /\ call[q].pc = "admitted"
    /\ Finish(q)
    /\ UNCHANGED <<clock, key, limit, groups, made, fresh, until>>

(* Time passes.                                                            *)
Tick ==
    /\ clock < MaxTime
    /\ clock' = clock + 1
    /\ UNCHANGED <<key, limit, groups, call, made, fresh, until>>

-----------------------------------------------------------------------------

(* A key just created: it has its first value, no group and no limit.      *)
Init ==
    /\ clock = 0
    /\ key = [exists |-> TRUE, value |-> 0, previous |-> None, grace |-> None,
              group |-> None]
    /\ limit = None
    /\ groups = Groups
    /\ call = [q \in Calls |-> Idle]
    /\ made = 0
    /\ fresh = 0
    /\ until = [v \in Values |-> IF v = 0 THEN Forever ELSE 0]

Step(q) ==
    \/ Read(q) \/ Decide(q) \/ Rotate(q) \/ EndGrace(q) \/ AssignGroup(q)
    \/ WriteLimit(q) \/ CheckAccess(q) \/ Serve(q)

Next ==
    \/ \E q \in Calls : BeginSome(q) \/ Step(q)
    \/ \E g \in Groups : DeleteGroup(g)
    \/ RemoveGroup \/ DeleteKey \/ Tick

Spec == Init /\ [][Next]_vars

-----------------------------------------------------------------------------
(* Properties.                                                             *)

KeyRecord ==
    [exists : BOOLEAN, value : Values, previous : Values \cup {None},
     grace : Nat \cup {None}, group : Groups \cup {None}]
LimitRecord == [id : Nat, max : Maxima]
CallRecord ==
    [op : Ops \cup {None},
     pc : {"idle", "read", "decide", "write", "access", "admitted"},
     arg : Groups \cup Maxima \cup Nat \cup {None},
     row : KeyRecord \cup {None}, limit : LimitRecord \cup {None},
     now : Nat, late : BOOLEAN, raced : BOOLEAN]

(* The variables have their types, a key has a previous value exactly when *)
(* it has a grace end, and no grace period outlasts the expiry             *)
(* (KeyDAO.rotate and end_grace_period, get_grace_end).                    *)
TypeOK ==
    /\ clock \in 0..MaxTime
    /\ key \in KeyRecord
    /\ limit \in LimitRecord \cup {None}
    /\ groups \subseteq Groups
    /\ call \in [Calls -> CallRecord]
    /\ made \in 0..MaxCalls
    /\ fresh \in 0..made
    /\ until \in [Values -> Nat]
    /\ key.previous = None <=> key.grace = None
    /\ key.grace # None => key.grace <= Expiry

(* Every value that was promised to work does: the value shown by the last *)
(* successful rotation, and until the end of its grace period the value    *)
(* that one replaced, whatever rotations and ends of grace race            *)
(* (rotate_key: "During the grace period the previous value keeps          *)
(* working").                                                              *)
PromiseKept ==
    \A v \in Values : Promised(v, clock) => Authenticates(v, key, clock)

(* A request is admitted to the route only if the value it presents was    *)
(* promised when the request began (a value replaced without grace, ended, *)
(* past its grace or expired never comes back), and under a group bound to *)
(* the route unless the key changed group between the request's two reads  *)
(* (validate_token, check_key_uuid_for_route).                             *)
AdmittedRightly ==
    \A q \in Calls : call[q].pc = "admitted" =>
        /\ ~call[q].late
        /\ call[q].row.group \in Bound \/ call[q].raced

(* A call that reports success did what it reports: an assignment finds    *)
(* the key without a group, a limit that was set is the one stored, unless *)
(* another write came between the call's read and its own write            *)
(* (add_group_to_key, update_limit_value, apply_limits_to_keys).           *)
ToldIsDone ==
    [][\A q \in Calls :
        /\ call[q].pc = "write" /\ call'[q] = Idle
        /\ ~call[q].raced
        => /\ call[q].op = "addGroup" => key.group = None
           /\ call[q].op \in {"addLimit", "setLimit", "applyLimit"}
                => limit' # None /\ limit'.max = call[q].arg]_vars

=============================================================================
