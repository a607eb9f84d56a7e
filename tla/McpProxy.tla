------------------------------ MODULE McpProxy ------------------------------
(***************************************************************************)
(* The MCP side of one route: a message is authorised against the served   *)
(* configuration, counted, and either forwarded to one upstream server (a  *)
(* call) or fanned out to all of them (a list), whose merged answer is     *)
(* cached.  The configuration may be served anew while messages run.       *)
(*                                                                         *)
(* tools/list, prompts/list and resources/list have one shape, and so have *)
(* tools/call, prompts/get and resources/read: one of each is modelled,    *)
(* for one API key (the cache key names the method and the API key).  A    *)
(* list is abstracted to its provenance: the servers that answered, the    *)
(* configuration whose servers were asked and whose allowlists filtered    *)
(* the answers, the client whose headers went with the question, and the   *)
(* instant of the question, when that configuration was in service.        *)
(***************************************************************************)
EXTENDS Naturals

CONSTANTS
    Servers,     \* aliases of upstream MCP servers
    Tools,       \* names a server may advertise
    Calls,       \* the calls clients make: a server's alias and a tool's name
    Configs,     \* contents a configuration may have
    Uses,        \* Uses[c][s]: endpoint and credentials of server s under c
    Allows,      \* Allows[c][s]: what the allowlist of s lets through under c
    Forwarding,  \* the contents whose servers declare forward_headers
    Clients,     \* what clients send in the headers that may be forwarded
    MaxInFlight, \* bound: messages in flight at once
    Ttl,         \* the life of a cached list
    Timeout,     \* the longest operation on an upstream server
    MaxMessages, \* bound: messages received in a behaviour
    MaxServes,   \* bound: configurations put in service after the first
    MaxTime,     \* bound: the last instant of a behaviour
    None

ASSUME McpProxyAssumption ==
    /\ \A c \in Configs : \E S \in SUBSET Servers :
            Uses[c] \in [S -> Nat] /\ Allows[c] \in [S -> SUBSET Tools]
    /\ Forwarding \subseteq Configs
    /\ Calls \subseteq [server : Servers, tool : Tools]
    /\ {Ttl, MaxInFlight, MaxMessages, MaxServes, MaxTime} \subseteq Nat
    /\ Timeout \in Nat \ {0}
    /\ None \notin Configs \cup Clients \cup Nat

VARIABLES
    clock,     \* the time every process reads
    config,    \* the content in service on this replica, or None
    shared,    \* whether lists are cached in Redis or in the route object
    route,     \* the number of the route object registered last
    cache,     \* cache[g][u]: the list stored in g for the signature u
    message,   \* message[q]: the message in flight under q
    received   \* messages received so far

vars == <<clock, config, shared, route, cache, message, received>>

-----------------------------------------------------------------------------

Messages == 1..MaxInFlight

(* servers_signature: alias, endpoint and credentials of every server, and *)
(* nothing of the allowlists.                                              *)
Signature(c) == Uses[c]
Signatures == {Signature(c) : c \in Configs}

(* The servers a list asks: an empty allowlist shuts a server out.         *)
Targets(c) == {s \in DOMAIN Allows[c] : Allows[c][s] # {}}

(* The cache object a route hands to the messages that find it.            *)
Store(g) == IF shared THEN 0 ELSE g

(* McpListCache.for_route, for a route that declares a cache.              *)
Cacheable(c) == DOMAIN Uses[c] # {} /\ c \notin Forwarding

Idle == [pc |-> "idle", config |-> None, store |-> 0, client |-> None,
         call |-> None, start |-> 0, waits |-> {}, got |-> {},
         failed |-> {}, list |-> None]

(* The list made of the answers to a message.                              *)
ListOf(r) == [by |-> r.config, asked |-> r.start, client |-> r.client, got |-> r.got]

Update(q, r) == message' = [message EXCEPT ![q] = r]

(* A message is over: its reply is not a list, or the list was sent.       *)
Ends(q) == Update(q, Idle)

Replies(q, r) == Update(q, [r EXCEPT !.pc = "reply"])

-----------------------------------------------------------------------------
(* The messages.                                                           *)

(* authorize does not suspend before it has taken the servers of the       *)
(* configuration, nor mcp_post before it has taken the route object.  The  *)
(* client's headers matter where they are forwarded, and only to a list.   *)
(* A message takes the first free identity.                                *)
Arrive(q, client, call) ==
    /\ message[q] = Idle
    /\ \A p \in Messages : p < q => message[p] # Idle
    /\ client # None <=> call = None /\ config \in Forwarding
    /\ config # None
    /\ received < MaxMessages
    /\ received' = received + 1
    /\ Update(q, [Idle EXCEPT !.pc = "open", !.config = config, !.client = client,
                              !.store = Store(route), !.call = call, !.start = clock])
    /\ UNCHANGED <<clock, config, shared, route, cache>>

(* The limiters let the message through, or refuse it.                     *)
Refuse(q) ==
    /\ message[q].pc = "open"
    /\ Ends(q)
    /\ UNCHANGED <<clock, config, shared, route, cache, received>>

(* Ask the servers of S, each in a session of its own.                     *)
Asks(q, S) == Update(q, [message[q] EXCEPT !.pc = "ask", !.waits = S])

(* _tools_call: an unknown alias or a name outside the allowlist is        *)
(* refused here, whatever an earlier list offered.                         *)
Call(q) ==
    LET r == message[q]
        known == /\ r.call.server \in DOMAIN Allows[r.config]
                 /\ r.call.tool \in Allows[r.config][r.call.server]
    IN
    /\ r.pc = "open"
    /\ r.call # None
    /\ \/ ~known /\ Ends(q)
       \/ known /\ Asks(q, {r.call.server})
    /\ UNCHANGED <<clock, config, shared, route, cache, received>>

Alive(entry) == IF entry = None THEN FALSE ELSE clock <= entry.expires

(* _tools_list up to the fan-out: no target, a hit, or a miss.  A lookup   *)
(* that fails, an entry that cannot be used, and one that a full cache     *)
(* evicted or Redis lost are misses too.                                   *)
List(q) ==
    LET r == message[q]
        entry == cache[r.store][Signature(r.config)]
    IN
    /\ r.pc = "open"
    /\ r.call = None
    /\ \/ /\ Targets(r.config) = {}
          /\ Replies(q, [r EXCEPT !.list = ListOf(r)])
       \/ /\ Targets(r.config) # {}
          /\ Cacheable(r.config)
          /\ Alive(entry)
          /\ Replies(q, [r EXCEPT !.list = entry.list])
       \/ /\ Targets(r.config) # {}
          /\ Asks(q, Targets(r.config))
    /\ UNCHANGED <<clock, config, shared, route, cache, received>>

(* The outcomes of one upstream operation (McpUpstreamClient._run): an     *)
(* answer, an error, or the end of the time it is given.                   *)
Answers(q, s) ==
    LET r == message[q] IN
    /\ s \in r.waits
    /\ Update(q, [r EXCEPT !.waits = @ \ {s}, !.got = @ \cup {s}])
    /\ UNCHANGED <<clock, config, shared, route, cache, received>>

Fails(q, s) ==
    LET r == message[q] IN
    /\ s \in r.waits
    /\ Update(q, [r EXCEPT !.waits = @ \ {s}, !.failed = @ \cup {s}])
    /\ UNCHANGED <<clock, config, shared, route, cache, received>>

\* Mutant: an operation on an upstream server is given all the time it takes.
OverdueNever(r) == FALSE

(* The time the server was given is over.  The last instant of a behaviour *)
(* ends what still waits, as a failure would.                              *)
Overdue(r) == r.waits # {} /\ (clock >= r.start + Timeout \/ clock = MaxTime)

TimesOut(q, s) == Overdue(message[q]) /\ Fails(q, s)

\* Mutant: the list is stored whichever servers failed.
WholePartial(r) == r.failed # Targets(r.config)

(* _store_list: a list some server is missing from is never stored.        *)
Whole(r) == r.failed = {}

(* The fan-out is over.  If every server failed the reply is an error, and *)
(* so it is for a call.                                                    *)
Merge(q) ==
    LET r == message[q] IN
    /\ r.pc = "ask"
    /\ r.waits = {}
    /\ \/ /\ r.call # None \/ r.got = {}
          /\ Ends(q)
       \/ /\ r.call = None /\ r.got # {}
          /\ Update(q, [r EXCEPT !.list = ListOf(r), !.got = {},
                    !.pc = IF Whole(r) /\ Cacheable(r.config) THEN "store" ELSE "reply"])
    /\ UNCHANGED <<clock, config, shared, route, cache, received>>

(* McpListCache.set, which may fail without a word.                        *)
Stores(q) ==
    LET r == message[q] IN
    /\ r.pc = "store"
    /\ \/ cache' = [cache EXCEPT ![r.store][Signature(r.config)] =
                        [list |-> r.list, expires |-> clock + Ttl]]
       \/ UNCHANGED cache
    /\ Replies(q, r)
    /\ UNCHANGED <<clock, config, shared, route, received>>

Reply(q) ==
    /\ message[q].pc = "reply"
    /\ Ends(q)
    /\ UNCHANGED <<clock, config, shared, route, cache, received>>

-----------------------------------------------------------------------------
(* What happens around them.                                               *)

(* register_project_routes: a new route object, and with it a new cache in *)
(* memory; a cache in Redis outlives it.                                   *)
Serve(c) ==
    /\ config = None
    /\ route < MaxServes
    /\ config' = c
    /\ route' = route + 1
    /\ UNCHANGED <<clock, shared, cache, message, received>>

(* deregister_project_routes, of an unserve or before the next register.   *)
Unserve ==
    /\ config # None
    /\ config' = None
    /\ UNCHANGED <<clock, shared, route, cache, message, received>>

(* Time passes only while every message waits for an upstream server: the  *)
(* gateway's own steps take no time.                                       *)
Tick ==
    /\ clock < MaxTime
    /\ \A q \in Messages :
            /\ message[q] = Idle \/ message[q].waits # {}
            /\ ~Overdue(message[q])
    /\ clock' = clock + 1
    /\ UNCHANGED <<config, shared, route, cache, message, received>>

-----------------------------------------------------------------------------

Init ==
    /\ clock = 0
    /\ config \in Configs
    /\ shared \in BOOLEAN
    /\ route = 0
    /\ cache = [g \in 0..MaxServes |-> [u \in Signatures |-> None]]
    /\ message = [q \in Messages |-> Idle]
    /\ received = 0

GatewayStep(q) ==
    \/ Refuse(q) \/ Call(q) \/ List(q) \/ Merge(q) \/ Stores(q) \/ Reply(q)
    \/ \E s \in Servers : TimesOut(q, s)

UpstreamStep(q) == \E s \in Servers : Answers(q, s) \/ Fails(q, s)

Arrival(q) ==
    \E client \in Clients \cup {None}, call \in Calls \cup {None} :
        Arrive(q, client, call)

Next ==
    \/ \E q \in Messages : Arrival(q) \/ GatewayStep(q) \/ UpstreamStep(q)
    \/ \E c \in Configs : Serve(c)
    \/ Unserve
    \/ Tick

(* The event loop runs every handler that can go on, and time passes.      *)
(* Nothing is assumed of the upstream servers.                             *)
Fairness == WF_vars(Tick) /\ \A q \in Messages : WF_vars(GatewayStep(q))

Spec == Init /\ [][Next]_vars /\ Fairness

-----------------------------------------------------------------------------

Instants == 0..MaxTime

ListRecord ==
    [by : Configs, asked : Instants, client : Clients \cup {None},
     got : SUBSET Servers]
EntryRecord == [list : ListRecord, expires : Nat]
MessageRecord ==
    [pc : {"idle", "open", "ask", "store", "reply"},
     config : Configs \cup {None}, store : 0..MaxServes,
     client : Clients \cup {None}, call : Calls \cup {None}, start : Instants,
     waits : SUBSET Servers, got : SUBSET Servers, failed : SUBSET Servers,
     list : ListRecord \cup {None}]

(* Type correctness.  A message waits for upstream servers only while its  *)
(* fan-out runs, never for one that already answered or failed, and has    *)
(* the list it is going to store (McpUpstreamClient._run, _store_list).    *)
TypeOK ==
    /\ clock \in Instants
    /\ config \in Configs \cup {None}
    /\ shared \in BOOLEAN
    /\ route \in 0..MaxServes
    /\ cache \in [0..MaxServes -> [Signatures -> EntryRecord \cup {None}]]
    /\ message \in [Messages -> MessageRecord]
    /\ received \in 0..MaxMessages
    /\ \A q \in Messages :
        LET r == message[q] IN
        /\ r.pc # "idle" => r.config \in Configs
        /\ r.pc = "store" => r.list \in ListRecord
        /\ r.waits # {} => r.pc = "ask"
        /\ r.pc = "open" => r.got \cup r.failed = {}
        /\ r.waits \cap (r.failed \cup r.got) = {}

(* The oldest a list may be when a client gets it.                         *)
Age == Ttl + Timeout

(* McpListCache and _store_list: whether it comes from the cache or not, a *)
(* list a client gets is what the servers of its own configuration, asked  *)
(* with the credentials of that configuration, answered within the last    *)
(* Ttl + Timeout.  A server is missing from it only if it failed in this   *)
(* very message, another client's headers never shaped it, and (since the  *)
(* signature leaves them out) the allowlists that filtered it were those   *)
(* of a configuration in service within the same time.                     *)
ListsWhole ==
    \A q \in Messages :
        LET r == message[q] IN
        r.pc = "reply" /\ r.list # None =>
            /\ Uses[r.list.by] = Uses[r.config]
            /\ Targets(r.list.by) \subseteq r.list.got \cup r.failed
            /\ clock <= r.list.asked + Age
            /\ r.config \in Forwarding => r.list.client = r.client

(* McpUpstreamClient._run and mcp_post: every message is answered, though  *)
(* an upstream server may never answer.                                    *)
MessagesAnswered ==
    \A q \in Messages : message[q] # Idle ~> message[q] = Idle
=============================================================================
