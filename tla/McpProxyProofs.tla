--------------------------- MODULE McpProxyProofs ---------------------------
(* Safety of McpProxy for any number of servers, configurations, messages    *)
(* and route objects, any time to live and any time limit.  Then safety of   *)
(* the rankings and of the drill-downs of Dashboards, for any rows, keys,    *)
(* groups, periods, time zones and calendar.                                 *)
EXTENDS McpProxy, Dashboards, Integers, Sequences, Functions, FiniteSetTheorems,
        WellFoundedInduction, TLAPS

\* What is true of a message besides its type.
Sound(r) ==
    /\ r.pc # "idle" => r.config \in Configs
    /\ r.pc = "store" => r.list \in ListRecord
    /\ r.waits # {} => r.pc = "ask"
    /\ r.pc = "open" => r.got \cup r.failed = {}
    /\ r.waits \cap (r.failed \cup r.got) = {}

\* The types, with what the assumption gives of the constants.
LEMMA Constants ==
    /\ MaxTime \in Nat /\ Ttl \in Nat /\ Timeout \in Nat
    /\ MaxServes \in Nat /\ MaxMessages \in Nat /\ MaxInFlight \in Nat
    /\ Instants \subseteq Nat
  BY McpProxyAssumption DEF Instants

LEMMA ServersOf ==
    \A c \in Configs : DOMAIN Allows[c] \subseteq Servers
                       /\ Targets(c) \subseteq DOMAIN Allows[c]
<1> SUFFICES ASSUME NEW c \in Configs
             PROVE  DOMAIN Allows[c] \subseteq Servers
                    /\ Targets(c) \subseteq DOMAIN Allows[c]
  OBVIOUS
<1>1. PICK S \in SUBSET Servers :
          Uses[c] \in [S -> Nat] /\ Allows[c] \in [S -> SUBSET Tools]
  BY McpProxyAssumption
<1> QED
  BY <1>1 DEF Targets

\* A message that moves keeps TypeOK if it arrives with its type and sound.
LEMMA MoveOK ==
    ASSUME TypeOK, NEW q \in Messages, NEW r \in MessageRecord, Sound(r),
           Update(q, r), UNCHANGED <<clock, config, shared, route>>,
           cache' \in [0..MaxServes -> [Signatures -> EntryRecord \cup {None}]],
           received' \in 0..MaxMessages
    PROVE  TypeOK'
<1>1. message' \in [Messages -> MessageRecord]
  BY DEF TypeOK, Update
<1>2. ASSUME NEW p \in Messages PROVE Sound(message[p])'
  <2>1. CASE p = q
    BY <2>1 DEF TypeOK, Update, Sound
  <2>2. CASE p # q
    BY <2>2 DEF TypeOK, Update, Sound
  <2> QED
    BY <2>1, <2>2
<1> QED
  BY <1>1, <1>2 DEF TypeOK, Sound

LEMMA IdleOK == Idle \in MessageRecord /\ Sound(Idle)
  BY Constants DEF Idle, MessageRecord, Sound, Instants

\* A message that asks, merges or replies keeps the rest of its record.
LEMMA AskOK ==
    ASSUME NEW r \in MessageRecord, Sound(r), r.pc = "open",
           NEW S \in SUBSET Servers, S \cap (r.failed \cup r.got) = {}
    PROVE  LET n == [r EXCEPT !.pc = "ask", !.waits = S]
           IN n \in MessageRecord /\ Sound(n)
  BY DEF MessageRecord, Sound

LEMMA ReplyOK ==
    ASSUME NEW r \in MessageRecord, Sound(r), r.waits = {},
           r.config \in Configs, NEW l \in ListRecord
    PROVE  LET n == [r EXCEPT !.list = l]
               m == [n EXCEPT !.pc = "reply"]
           IN m \in MessageRecord /\ Sound(m)
  BY DEF MessageRecord, Sound

LEMMA ListOfType ==
    ASSUME NEW r \in MessageRecord, r.config \in Configs
    PROVE  ListOf(r) \in ListRecord
  BY DEF MessageRecord, ListRecord, ListOf

LEMMA InitTypeOK == Init => TypeOK
  BY Constants, IdleOK DEF Init, TypeOK, Instants, Sound

LEMMA ArriveTypeOK ==
    ASSUME TypeOK, NEW q \in Messages, NEW client \in Clients \cup {None},
           NEW call \in Calls \cup {None}, Arrive(q, client, call)
    PROVE  TypeOK'
<1> DEFINE r == [Idle EXCEPT !.pc = "open", !.config = config, !.client = client,
                             !.store = Store(route), !.call = call, !.start = clock]
<1>1. r \in MessageRecord /\ Sound(r)
  <2>1. Store(route) \in 0..MaxServes
    BY Constants DEF TypeOK, Store
  <2>2. config \in Configs /\ clock \in Instants
    BY DEF Arrive, TypeOK
  <2>3. r \in MessageRecord
    BY <2>1, <2>2, IdleOK DEF MessageRecord
  <2>4. r.pc = "open" /\ r.config = config /\ r.waits = Idle.waits
        /\ r.got = Idle.got /\ r.failed = Idle.failed
    BY IdleOK DEF MessageRecord
  <2> QED
    BY <2>2, <2>3, <2>4 DEF Idle, Sound
<1>2. received' \in 0..MaxMessages
  BY Constants DEF Arrive, TypeOK
<1>3. Update(q, r)
  BY DEF Arrive
<1>4. UNCHANGED <<clock, config, shared, route, cache>>
  BY DEF Arrive
<1> HIDE DEF r
<1> QED
  BY <1>1, <1>2, <1>3, <1>4, MoveOK DEF TypeOK

LEMMA UpstreamTypeOK ==
    ASSUME TypeOK, NEW q \in Messages, UpstreamStep(q)
    PROVE  TypeOK'
<1> DEFINE r == message[q]
<1>0. r \in MessageRecord /\ Sound(r)
  BY DEF TypeOK, Sound
<1>1. ASSUME NEW s \in Servers, Answers(q, s) PROVE TypeOK'
  <2>1. LET n == [r EXCEPT !.waits = @ \ {s}, !.got = @ \cup {s}]
        IN n \in MessageRecord /\ Sound(n)
    BY <1>0, <1>1 DEF Answers, Sound, MessageRecord
  <2> QED
    BY <1>1, <2>1, MoveOK DEF Answers, TypeOK
<1>2. ASSUME NEW s \in Servers, Fails(q, s) PROVE TypeOK'
  <2>1. LET n == [r EXCEPT !.waits = @ \ {s}, !.failed = @ \cup {s}]
        IN n \in MessageRecord /\ Sound(n)
    BY <1>0, <1>2 DEF Fails, Sound, MessageRecord
  <2> QED
    BY <1>2, <2>1, MoveOK DEF Fails, TypeOK
<1> QED
  BY <1>1, <1>2 DEF UpstreamStep

LEMMA GatewayTypeOK ==
    ASSUME TypeOK, NEW q \in Messages, GatewayStep(q)
    PROVE  TypeOK'
<1> DEFINE r == message[q]
<1>0. r \in MessageRecord /\ Sound(r)
  BY DEF TypeOK, Sound
<1>1. CASE Refuse(q)
  BY <1>1, IdleOK, MoveOK DEF Refuse, Ends, TypeOK
<1>2. CASE Call(q)
  <2>1. CASE Ends(q)
    BY <1>2, <2>1, IdleOK, MoveOK DEF Call, Ends, TypeOK
  <2>2. CASE ~Ends(q)
    <3>1. r.pc = "open" /\ Asks(q, {r.call.server})
      BY <1>2, <2>2 DEF Call
    <3>2. {r.call.server} \in SUBSET Servers
      <4>1. r.call.server \in DOMAIN Allows[r.config] /\ r.config \in Configs
        BY <1>0, <1>2, <2>2 DEF Call, Sound
      <4> QED
        BY <4>1, ServersOf
    <3>3. Sound([r EXCEPT !.pc = "ask", !.waits = {r.call.server}])
      BY <1>0, <1>2 DEF Call, Sound, MessageRecord
    <3> QED
      BY ZenonT(60), <1>0, <1>2, <3>1, <3>2, MoveOK DEF Call, Asks, TypeOK, MessageRecord, Sound
  <2> QED
    BY <2>1, <2>2
<1>3. CASE List(q)
  <2>1. CASE Asks(q, Targets(r.config))
    <3>1. Targets(r.config) \in SUBSET Servers
      BY <1>0, <1>3, ServersOf DEF List, Sound
    <3>2. Sound([r EXCEPT !.pc = "ask", !.waits = Targets(r.config)])
      BY <1>0, <1>3 DEF List, Sound, MessageRecord
    <3> QED
      BY ZenonT(60), <1>0, <1>3, <2>1, <3>1, <3>2, MoveOK DEF List, Asks, TypeOK, MessageRecord
  <2>2. ASSUME NEW l \in ListRecord, Replies(q, [r EXCEPT !.list = l]) PROVE TypeOK'
    BY <1>0, <1>3, <2>2, ReplyOK, MoveOK DEF List, Replies, TypeOK, Sound
  <2>3. ListOf(r) \in ListRecord
    BY <1>0, <1>3, ListOfType DEF List, Sound
  <2>4. CASE Replies(q, [r EXCEPT !.list = ListOf(r)])
    BY <2>2, <2>3, <2>4
  <2>5. CASE /\ Alive(cache[r.store][Signature(r.config)])
             /\ Replies(q, [r EXCEPT !.list = cache[r.store][Signature(r.config)].list])
    <3>1. cache[r.store][Signature(r.config)] \in EntryRecord
      <4>1. r.store \in 0..MaxServes /\ Signature(r.config) \in Signatures
        BY <1>0, <1>3 DEF List, MessageRecord, Signatures, Sound
      <4>2. cache \in [0..MaxServes -> [Signatures -> EntryRecord \cup {None}]]
        BY DEF TypeOK
      <4>3. cache[r.store][Signature(r.config)] # None
        BY <2>5 DEF Alive
      <4> QED
        BY <4>1, <4>2, <4>3
    <3> QED
      BY <2>2, <2>5, <3>1 DEF EntryRecord
  <2> QED
    BY <1>3, <2>1, <2>4, <2>5 DEF List
<1>4. CASE Merge(q)
  <2>1. CASE Ends(q)
    BY <1>4, <2>1, IdleOK, MoveOK DEF Merge, Ends, TypeOK
  <2>2. CASE ~Ends(q)
    <3> DEFINE to == IF Whole(r) /\ Cacheable(r.config) THEN "store" ELSE "reply"
               n == [r EXCEPT !.list = ListOf(r), !.got = {}, !.pc = to]
    <3>1. Update(q, n)
      BY <1>4, <2>2 DEF Merge
    <3>2. ListOf(r) \in ListRecord
      BY <1>0, <1>4, ListOfType DEF Merge, Sound
    <3>3. n \in MessageRecord /\ Sound(n)
      BY <1>0, <1>4, <3>2 DEF Merge, Sound, MessageRecord
    <3> QED
      BY <1>4, <3>1, <3>3, MoveOK DEF Merge, TypeOK
  <2> QED
    BY <2>1, <2>2
<1>5. CASE Stores(q)
  <2>1. cache' \in [0..MaxServes -> [Signatures -> EntryRecord \cup {None}]]
    <3> DEFINE e == [list |-> r.list, expires |-> clock + Ttl]
    <3>1. e \in EntryRecord
      BY <1>0, <1>5, Constants DEF Stores, Sound, EntryRecord, TypeOK
    <3>2. CASE cache' = [cache EXCEPT ![r.store][Signature(r.config)] = e]
      BY <3>1, <3>2 DEF TypeOK
    <3> QED
      BY <1>5, <3>2 DEF Stores, TypeOK
  <2>2. LET n == [r EXCEPT !.pc = "reply"] IN n \in MessageRecord /\ Sound(n)
    BY <1>0, <1>5 DEF Stores, Sound, MessageRecord
  <2> QED
    BY <1>5, <2>1, <2>2, MoveOK DEF Stores, Replies, TypeOK
<1>6. CASE Reply(q)
  BY <1>6, IdleOK, MoveOK DEF Reply, Ends, TypeOK
<1>7. ASSUME NEW s \in Servers, TimesOut(q, s) PROVE TypeOK'
  BY <1>7, UpstreamTypeOK DEF TimesOut, UpstreamStep
<1> QED
  BY <1>1, <1>2, <1>3, <1>4, <1>5, <1>6, <1>7 DEF GatewayStep

LEMMA NextTypeOK == TypeOK /\ [Next]_vars => TypeOK'
<1> SUFFICES ASSUME TypeOK, [Next]_vars PROVE TypeOK'
  OBVIOUS
<1>1. ASSUME NEW q \in Messages, Arrival(q) PROVE TypeOK'
  BY <1>1, ArriveTypeOK DEF Arrival
<1>2. ASSUME NEW q \in Messages, GatewayStep(q) PROVE TypeOK'
  BY <1>2, GatewayTypeOK
<1>3. ASSUME NEW q \in Messages, UpstreamStep(q) PROVE TypeOK'
  BY <1>3, UpstreamTypeOK
<1>4. ASSUME NEW c \in Configs, Serve(c) PROVE TypeOK'
  BY <1>4, Constants DEF Serve, TypeOK
<1>5. CASE Unserve
  BY <1>5 DEF Unserve, TypeOK
<1>6. CASE Tick
  BY <1>6, Constants DEF Tick, TypeOK, Instants
<1>7. CASE UNCHANGED vars
  BY <1>7 DEF vars, TypeOK
<1> QED
  BY <1>1, <1>2, <1>3, <1>4, <1>5, <1>6, <1>7 DEF Next

(* The types of clocks, caches and messages, and what a message may wait     *)
(* for at each point of its way (McpUpstreamClient._run, _store_list), for   *)
(* any number of servers and messages.                                       *)
THEOREM TypeCorrect == Spec => []TypeOK
<1> QED
  BY InitTypeOK, NextTypeOK, PTL DEF Spec

-----------------------------------------------------------------------------
(* ListsWhole.  Its inductive strengthening follows a list from the fan-out  *)
(* through the cache to the client: what the fan-out has collected or still  *)
(* waits for, what a stored list holds, and how far the clock can have gone  *)
(* on meanwhile (time passes only while every message waits).                *)

\* What ListsWhole asks of the list of a reply.
Right(r) ==
    /\ Uses[r.list.by] = Uses[r.config]
    /\ Targets(r.list.by) \subseteq r.list.got \cup r.failed
    /\ clock <= r.list.asked + Age
    /\ r.config \in Forwarding => r.list.client = r.client

Collects(r) ==
    /\ r.pc \in {"open", "ask", "store"} =>
            clock <= r.start + Timeout /\ r.start <= clock
    /\ r.pc = "ask" /\ r.call = None =>
            Targets(r.config) \subseteq r.got \cup r.failed \cup r.waits
    /\ r.pc = "store" =>
            /\ r.list.by = r.config
            /\ r.list.asked = r.start
            /\ Targets(r.config) \subseteq r.list.got
            /\ r.config \notin Forwarding
    /\ r.pc = "reply" /\ r.list # None => Right(r)

\* An entry under u is a whole list of servers like u, and expires in time.
Kept(u, e) ==
    e # None =>
        /\ Uses[e.list.by] = u
        /\ Targets(e.list.by) \subseteq e.list.got
        /\ e.expires <= e.list.asked + Age

IInv ==
    /\ TypeOK
    /\ \A q \in Messages : Collects(message[q])
    /\ \A g \in 0..MaxServes, u \in Signatures : Kept(u, cache[g][u])

\* A message that moves in no time keeps IInv if what it arrives with is right.
LEMMA MoveKeeps ==
    ASSUME IInv, TypeOK', NEW q \in Messages, NEW r, Collects(r),
           Update(q, r), clock' = clock, cache' = cache
    PROVE  IInv'
<1>1. ASSUME NEW p \in Messages PROVE Collects(message[p])'
  <2>1. CASE p = q
    <3>1. message'[p] = r
      BY <2>1 DEF IInv, TypeOK, Update
    <3> QED
      BY <3>1 DEF Collects, Right
  <2>2. CASE p # q
    <3>1. message'[p] = message[p]
      BY <2>2 DEF IInv, TypeOK, Update
    <3> QED
      BY <3>1 DEF IInv, Collects, Right
  <2> QED
    BY <2>1, <2>2
<1>2. \A g \in 0..MaxServes, u \in Signatures : Kept(u, cache[g][u])'
  BY DEF IInv, Kept
<1> QED
  BY <1>1, <1>2 DEF IInv

LEMMA IdleCollects == Collects(Idle)
  BY DEF Collects, Idle

LEMMA InitIInv == Init => IInv
<1> SUFFICES ASSUME Init PROVE IInv
  OBVIOUS
<1>1. \A q \in Messages : Collects(message[q])
  BY IdleCollects DEF Init
<1>2. \A g \in 0..MaxServes, u \in Signatures : Kept(u, cache[g][u])
  BY DEF Init, Kept
<1> QED
  BY <1>1, <1>2, InitTypeOK DEF IInv

LEMMA ArriveKeeps ==
    ASSUME IInv, TypeOK', NEW q \in Messages, NEW client \in Clients \cup {None},
           NEW call \in Calls \cup {None}, Arrive(q, client, call)
    PROVE  IInv'
<1> DEFINE r == [Idle EXCEPT !.pc = "open", !.config = config, !.client = client,
                             !.store = Store(route), !.call = call, !.start = clock]
<1>1. r.pc = "open" /\ r.start = clock
  BY IdleOK DEF MessageRecord
<1>2. Collects(r)
  BY <1>1, Constants DEF Collects, IInv, TypeOK
<1>3. Update(q, r) /\ clock' = clock /\ cache' = cache
  BY DEF Arrive
<1> HIDE DEF r
<1> QED
  BY <1>2, <1>3, MoveKeeps

LEMMA UpstreamKeeps ==
    ASSUME IInv, TypeOK', NEW q \in Messages, UpstreamStep(q)
    PROVE  IInv'
<1> DEFINE r == message[q]
<1>0. r \in MessageRecord /\ Sound(r) /\ Collects(r)
  BY DEF IInv, TypeOK, Sound
<1>1. ASSUME NEW s \in Servers, Answers(q, s) PROVE IInv'
  <2>1. Collects([r EXCEPT !.waits = @ \ {s}, !.got = @ \cup {s}])
    BY <1>0, <1>1 DEF Answers, Sound, MessageRecord, Collects, Right
  <2> QED
    BY <1>1, <2>1, MoveKeeps DEF Answers
<1>2. ASSUME NEW s \in Servers, Fails(q, s) PROVE IInv'
  <2>1. Collects([r EXCEPT !.waits = @ \ {s}, !.failed = @ \cup {s}])
    BY <1>0, <1>2 DEF Fails, Sound, MessageRecord, Collects, Right
  <2> QED
    BY <1>2, <2>1, MoveKeeps DEF Fails
<1> QED
  BY <1>1, <1>2 DEF UpstreamStep

LEMMA GatewayKeeps ==
    ASSUME IInv, TypeOK', NEW q \in Messages, GatewayStep(q)
    PROVE  IInv'
<1> DEFINE r == message[q]
<1>0. r \in MessageRecord /\ Sound(r) /\ Collects(r)
  BY DEF IInv, TypeOK, Sound
<1>1. CASE Ends(q) /\ clock' = clock /\ cache' = cache
  BY <1>1, IdleCollects, MoveKeeps DEF Ends
<1>2. CASE Call(q)
  <2>1. CASE Asks(q, {r.call.server}) /\ r.call # None
    <3>1. Collects([r EXCEPT !.pc = "ask", !.waits = {r.call.server}])
      BY <1>0, <1>2, <2>1 DEF Call, MessageRecord, Collects, Right
    <3> QED
      BY <1>2, <2>1, <3>1, MoveKeeps DEF Call, Asks
  <2> QED
    BY <1>1, <1>2, <2>1 DEF Call
<1>3. CASE List(q)
  <2>1. CASE Asks(q, Targets(r.config))
    <3>1. Collects([r EXCEPT !.pc = "ask", !.waits = Targets(r.config)])
      BY <1>0, <1>3 DEF List, MessageRecord, Collects, Right
    <3> QED
      BY <1>3, <2>1, <3>1, MoveKeeps DEF List, Asks
  <2>2. ASSUME NEW l, Replies(q, [r EXCEPT !.list = l]),
               Right([[r EXCEPT !.list = l] EXCEPT !.pc = "reply"])
        PROVE  IInv'
    <3>1. Collects([[r EXCEPT !.list = l] EXCEPT !.pc = "reply"])
      BY <1>0, <2>2 DEF MessageRecord, Collects
    <3> QED
      BY <1>3, <2>2, <3>1, MoveKeeps DEF List, Replies
  <2>3. CASE Targets(r.config) = {} /\ Replies(q, [r EXCEPT !.list = ListOf(r)])
    <3>1. Right([[r EXCEPT !.list = ListOf(r)] EXCEPT !.pc = "reply"])
      BY <1>0, <1>3, <2>3, Constants
         DEF List, MessageRecord, Collects, Right, ListOf, Age, IInv, TypeOK, Instants
    <3> QED
      BY <2>2, <2>3, <3>1
  <2>4. ASSUME NEW e, e = cache[r.store][Signature(r.config)], Cacheable(r.config),
               Alive(e), Replies(q, [r EXCEPT !.list = e.list])
        PROVE  IInv'
    <3>1. r.store \in 0..MaxServes /\ Signature(r.config) \in Signatures
      BY <1>0, <1>3 DEF List, MessageRecord, Signatures, Sound
    <3>2. e # None /\ clock <= e.expires
      BY <2>4 DEF Alive
    <3>3. Kept(Signature(r.config), e)
      BY <2>4, <3>1 DEF IInv
    <3>4. e \in EntryRecord
      BY <2>4, <3>1, <3>2 DEF IInv, TypeOK
    <3>5. /\ Uses[e.list.by] = Uses[r.config]
          /\ Targets(e.list.by) \subseteq e.list.got
          /\ clock <= e.list.asked + Age
          /\ r.config \notin Forwarding
      <4>1. /\ Uses[e.list.by] = Uses[r.config]
            /\ Targets(e.list.by) \subseteq e.list.got
            /\ e.expires <= e.list.asked + Age
        BY <3>2, <3>3 DEF Kept, Signature
      <4>2. /\ e.expires \in Nat /\ e.list.asked \in Nat /\ Age \in Nat
            /\ clock \in Nat
        <5>1. e.expires \in Nat /\ e.list \in ListRecord
          BY <3>4 DEF EntryRecord
        <5>2. e.list.asked \in Nat
          BY <5>1, Constants DEF ListRecord
        <5> QED
          BY <5>1, <5>2, Constants DEF IInv, TypeOK, Age
      <4>3. clock <= e.list.asked + Age
        BY <3>2, <4>1, <4>2
      <4> QED
        BY <2>4, <4>1, <4>3 DEF Cacheable
    <3>6. Right([[r EXCEPT !.list = e.list] EXCEPT !.pc = "reply"])
      BY <1>0, <3>5 DEF Right, MessageRecord
    <3> QED
      BY <2>2, <2>4, <3>6
  <2> QED
    BY <1>3, <2>1, <2>3, <2>4 DEF List
<1>4. CASE Merge(q)
  <2>1. CASE ~Ends(q)
    <3> DEFINE to == IF Whole(r) /\ Cacheable(r.config) THEN "store" ELSE "reply"
               n == [r EXCEPT !.list = ListOf(r), !.got = {}, !.pc = to]
    <3>1. Update(q, n) /\ r.pc = "ask" /\ r.waits = {} /\ r.call = None
      BY <1>4, <2>1 DEF Merge
    <3>2. n.list = ListOf(r) /\ n.pc = to /\ n.config = r.config /\ n.start = r.start
          /\ n.failed = r.failed /\ n.client = r.client
      BY <1>0 DEF MessageRecord
    <3>3. Targets(r.config) \subseteq r.got \cup r.failed
      BY <1>0, <3>1 DEF Collects
    <3>4. clock <= r.start + Timeout /\ r.start <= clock
      BY <1>0, <3>1 DEF Collects
    <3>5. Right(n)
      BY SMTT(30), <1>0, <3>2, <3>3, <3>4, Constants
         DEF Right, ListOf, Age, MessageRecord, IInv, TypeOK
    <3>6. ASSUME to = "store" PROVE Collects(n)
      BY <3>2, <3>3, <3>4, <3>6 DEF Collects, Whole, Cacheable, ListOf
    <3>7. ASSUME to = "reply" PROVE Collects(n)
      BY <3>2, <3>5, <3>7 DEF Collects
    <3>8. Collects(n)
      BY <3>6, <3>7
    <3> HIDE DEF n
    <3> QED
      BY <1>4, <3>1, <3>8, MoveKeeps DEF Merge
  <2> QED
    BY <1>1, <1>4, <2>1 DEF Merge
<1>5. CASE Stores(q)
  <2> DEFINE n == [r EXCEPT !.pc = "reply"]
             e == [list |-> r.list, expires |-> clock + Ttl]
  <2>1. /\ r.list \in ListRecord
        /\ r.list.by = r.config /\ r.list.asked = r.start
        /\ Targets(r.config) \subseteq r.list.got
        /\ r.config \notin Forwarding
        /\ clock <= r.start + Timeout
    BY <1>0, <1>5 DEF Stores, Sound, Collects
  <2>2. clock \in Nat /\ r.start \in Nat /\ r.store \in 0..MaxServes
        /\ Signature(r.config) \in Signatures
    BY <1>0, <1>5, Constants DEF Stores, IInv, TypeOK, MessageRecord, Sound, Signatures
  <2>3. Collects(n)
    BY <1>0, <2>1, <2>2, Constants DEF Collects, Right, MessageRecord, Age
  <2>4. Kept(Signature(r.config), e)
    BY <2>1, <2>2, Constants DEF Kept, Signature, Age
  <2>5. Update(q, n) /\ clock' = clock
    BY <1>5 DEF Stores, Replies
  <2>6. CASE cache' = cache
    BY <2>3, <2>5, <2>6, MoveKeeps
  <2>7. CASE cache' = [cache EXCEPT ![r.store][Signature(r.config)] = e]
    <3>1. ASSUME NEW g \in 0..MaxServes, NEW u \in Signatures
          PROVE  cache'[g][u] = cache[g][u] \/ (u = Signature(r.config) /\ cache'[g][u] = e)
      BY <2>2, <2>7 DEF IInv, TypeOK
    <3>2. ASSUME NEW g \in 0..MaxServes, NEW u \in Signatures
          PROVE  Kept(u, cache'[g][u])
      BY <2>4, <3>1, <3>2 DEF IInv
    <3>3. ASSUME NEW p \in Messages PROVE Collects(message[p])'
      <4>1. message'[p] = message[p] \/ message'[p] = n
        BY <2>5 DEF Update, IInv, TypeOK
      <4>2. Collects(message'[p])
        BY <2>3, <4>1 DEF IInv
      <4> QED
        BY <2>5, <4>2 DEF Collects, Right
    <3> QED
      BY <3>2, <3>3 DEF IInv, Kept
  <2> QED
    BY <1>5, <2>6, <2>7 DEF Stores
<1>6. ASSUME NEW s \in Servers, TimesOut(q, s) PROVE IInv'
  BY <1>6, UpstreamKeeps DEF TimesOut, UpstreamStep
<1> QED
  BY <1>1, <1>2, <1>3, <1>4, <1>5, <1>6 DEF GatewayStep, Refuse, Reply

LEMMA NextIInv == IInv /\ [Next]_vars => IInv'
<1> SUFFICES ASSUME IInv, [Next]_vars PROVE IInv'
  OBVIOUS
<1>0. TypeOK'
  BY NextTypeOK DEF IInv
<1>1. ASSUME NEW q \in Messages, Arrival(q) PROVE IInv'
  BY <1>0, <1>1, ArriveKeeps DEF Arrival
<1>2. ASSUME NEW q \in Messages, GatewayStep(q) PROVE IInv'
  BY <1>0, <1>2, GatewayKeeps
<1>3. ASSUME NEW q \in Messages, UpstreamStep(q) PROVE IInv'
  BY <1>0, <1>3, UpstreamKeeps
<1>4. CASE Tick
  <2>1. ASSUME NEW q \in Messages PROVE Collects(message[q])'
    <3>1. Collects(message[q]) /\ Sound(message[q]) /\ message[q] \in MessageRecord
      BY DEF IInv, TypeOK, Sound
    <3>2. CASE message[q] = Idle
      BY <1>4, <3>2 DEF Tick, Collects, Idle
    <3>3. CASE message[q].waits # {}
      <4>1. message[q].pc = "ask" /\ ~(clock >= message[q].start + Timeout)
        BY <1>4, <3>1, <3>3 DEF Tick, Sound, Overdue
      <4>2. clock \in Nat /\ message[q].start \in Nat /\ clock' = clock + 1
        BY <1>4, <3>1, Constants DEF Tick, IInv, TypeOK, MessageRecord
      <4> QED
        BY <1>4, <3>1, <4>1, <4>2, Constants DEF Tick, Collects
    <3> QED
      BY <1>4, <3>2, <3>3 DEF Tick
  <2> QED
    BY <1>0, <1>4, <2>1 DEF Tick, IInv, Kept
<1>5. CASE UNCHANGED <<clock, cache, message>>
  BY <1>0, <1>5 DEF IInv, Collects, Right, Kept
<1> QED
  BY <1>1, <1>2, <1>3, <1>4, <1>5 DEF Next, Serve, Unserve, vars

(* A list a client gets is whole, recent and from the servers of its own     *)
(* configuration, asked for this client where headers are forwarded: for     *)
(* any number of servers, configurations and overlapping messages, any time  *)
(* to live and any time limit (McpListCache, _store_list).                   *)
THEOREM ListsAreWhole == Spec => []ListsWhole
<1>1. IInv => ListsWhole
  BY DEF IInv, Collects, Right, ListsWhole
<1> QED
  BY <1>1, InitIInv, NextIInv, PTL DEF Spec

-----------------------------------------------------------------------------
(* The ranking of the callers of MCP tools, a page of which the dashboards    *)
(* show at a time (Dashboards), for any rows, keys and groups.                *)

\* What the order of the ranking rests on: finitely many rows, each of the types
\* of the table; and what the pages read so far are, while no row has arrived.
RankingInv ==
    /\ rows \subseteq Row /\ IsFiniteSet(rows)
    /\ pages \in Seq(Keys \X Groups)
    /\ fresh => \A i \in DOMAIN pages : pages[i] \in Place(i)

\* No two entries of one key tie.
NoTies ==
    \A e1, e2 \in Entries :
        e1 # e2 /\ e1[1] = e2[1] /\ LastCall(e1) = LastCall(e2)
            => Cardinality(McpCalls(e1)) # Cardinality(McpCalls(e2))

\* A set of numbers that is not empty has a least one.
LEMMA LeastNumber ==
    ASSUME NEW S, S \subseteq Nat, S # {}
    PROVE  Min(S) \in S /\ \A y \in S : Min(S) <= y
<1> DEFINE Below == OpToRel(<, Nat)
<1>1. PICK m \in S : \A k \in S : ~(<<k, m>> \in Below)
  <2> HIDE DEF Below
  <2>1. IsWellFoundedOn(Below, Nat)
    BY NatLessThanWellFounded DEF Below
  <2> QED
    BY <2>1, WFMin, Zenon
<1>2. \A y \in S : m <= y
  <2> SUFFICES ASSUME NEW y \in S, ~(m <= y) PROVE FALSE
    OBVIOUS
  <2>1. y \in Nat /\ m \in Nat /\ y < m
    OBVIOUS
  <2>2. <<y, m>> \in Below
    BY <2>1 DEF OpToRel
  <2> QED
    BY <1>1, <2>2
<1> QED
  BY <1>2 DEF Min

\* A set of numbers that has a bound has a greatest one, if it is not empty.
LEMMA GreatestNumber ==
    ASSUME NEW n \in Nat, NEW S, S \subseteq 0 .. n, S # {}
    PROVE  Max(S) \in S /\ Max(S) \in Nat /\ \A y \in S : y <= Max(S)
<1> DEFINE Left == {n - x : x \in S}
<1>1. \A x \in S : x \in Nat /\ n - x \in Nat
  OBVIOUS
<1>2. Left \subseteq Nat /\ Left # {}
  BY <1>1
<1>3. Min(Left) \in Left /\ \A y \in Left : Min(Left) <= y
  <2> HIDE DEF Left
  <2> QED
    BY <1>2, LeastNumber
<1>4. PICK x \in S : Min(Left) = n - x
  BY <1>3
<1>5. \A y \in S : y <= x
  <2> SUFFICES ASSUME NEW y \in S PROVE y <= x
    OBVIOUS
  <2>1. n - y \in Left
    OBVIOUS
  <2>2. n - x <= n - y
    BY <1>3, <1>4, <2>1
  <2> QED
    BY <1>1, <2>2
<1>6. \A y \in S : x >= y
  BY <1>1, <1>5
<1>7. Max(S) \in S /\ \A y \in S : y <= Max(S)
  BY <1>1, <1>6 DEF Max
<1> QED
  BY <1>1, <1>7

\* The ranking of the calls of finitely many rows: each entry has some calls, a
\* number of them, and a last one.
LEMMA EntriesCounted ==
    ASSUME WellFormed, rows \subseteq Row, IsFiniteSet(rows)
    PROVE  /\ IsFiniteSet(Entries) /\ Entries \subseteq Keys \X Groups
           /\ \A e \in Entries : /\ e[1] \in Nat
                                       /\ Cardinality(McpCalls(e)) \in Nat
                                       /\ LastCall(e) \in Nat
<1> DEFINE Made == McpInvocations(rows)
           EntryOf == [r \in Made |-> <<r.key, r.group>>]
<1>1. Made \in SUBSET rows
  BY DEF McpInvocations
<1>2. IsFiniteSet(Made)
  BY <1>1, FS_Subset
<1>3. \A r \in Made : r.key \in Keys /\ r.group \in Groups /\ r.at \in Times
  BY <1>1 DEF Row
<1>4. Entries = {EntryOf[r] : r \in Made}
  BY DEF Entries
<1>5. EntryOf \in Surjection(Made, Entries)
  BY <1>4 DEF Surjection
<1>6. IsFiniteSet(Entries)
  <2> HIDE DEF Made, EntryOf
  <2> QED
    BY <1>2, <1>5, FS_Surjection
<1>7. Entries \subseteq Keys \X Groups
  BY <1>3, <1>4
<1>8. ASSUME NEW e \in Entries
      PROVE  Cardinality(McpCalls(e)) \in Nat /\ LastCall(e) \in Nat
  <2>1. McpCalls(e) \in SUBSET Made /\ McpCalls(e) # {}
    BY <1>4 DEF McpCalls
  <2>2. Cardinality(McpCalls(e)) \in Nat
    <3> HIDE DEF Made
    <3> QED
      BY <1>2, <2>1, FS_Subset, FS_CardinalityType
  <2> DEFINE Moments == {r.at : r \in McpCalls(e)}
  <2>3. Moments \subseteq 0 .. Now /\ Moments # {} /\ Now \in Nat
    BY <1>3, <2>1 DEF WellFormed
  <2>4. Max(Moments) \in Nat
    <3> HIDE DEF Moments
    <3> QED
      BY <2>3, GreatestNumber
  <2> QED
    BY <2>2, <2>4 DEF LastCall
<1> QED
  <2> HIDE DEF Made, EntryOf
  <2> QED
    BY <1>6, <1>7, <1>8 DEF WellFormed

\* Without ties the ranking is a strict total order of the entries.
LEMMA RankingOrders ==
    ASSUME WellFormed, rows \subseteq Row, IsFiniteSet(rows), NoTies,
           NEW e1 \in Entries, NEW e2 \in Entries
    PROVE  /\ e1 # e2 => RanksBefore(e1, e2) \/ RanksBefore(e2, e1)
           /\ ~(RanksBefore(e1, e2) /\ RanksBefore(e2, e1))
<1>1. \A e \in {e1, e2} : /\ e[1] \in Nat
                          /\ Cardinality(McpCalls(e)) \in Nat
                          /\ LastCall(e) \in Nat
  BY EntriesCounted
<1> DEFINE N(e) == Cardinality(McpCalls(e))
           L(e) == LastCall(e)
<1>2. \A e, x : RanksBefore(e, x) <=>
        \/ N(e) > N(x)
        \/ N(e) = N(x) /\ L(e) > L(x)
        \/ N(e) = N(x) /\ L(e) = L(x) /\ e[1] < x[1]
  BY DEF RanksBefore
<1>3. e1 # e2 /\ e1[1] = e2[1] /\ L(e1) = L(e2) => N(e1) # N(e2)
  BY DEF NoTies
<1>4. \A e \in {e1, e2} : e[1] \in Nat /\ N(e) \in Nat /\ L(e) \in Nat
  BY <1>1
<1> HIDE DEF N, L
<1> QED
  BY <1>2, <1>3, <1>4

\* So an entry at place n is the one with n - 1 entries before it.
LEMMA PlaceHasOne ==
    ASSUME WellFormed, rows \subseteq Row, IsFiniteSet(rows), NoTies,
           NEW n \in Nat, NEW e \in Place(n)
    PROVE  Cardinality({x \in Entries : RanksBefore(x, e)}) = n - 1
<1> DEFINE E == Entries
           Before == {x \in E : RanksBefore(x, e)}
           After == {x \in E : RanksBefore(e, x)}
<1>1. e \in E /\ Cardinality(Before) < n /\ Cardinality(After) <= Cardinality(E) - n
  BY DEF Place
<1>2. IsFiniteSet(E)
  BY EntriesCounted
<1>3. /\ E = (Before \cup After) \cup {e}
      /\ Before \cap After = {} /\ e \notin Before \cup After
  BY <1>1, RankingOrders
<1>4. Before \in SUBSET E /\ After \in SUBSET E
  OBVIOUS
<1> HIDE DEF E, Before, After
<1>5. IsFiniteSet(Before) /\ IsFiniteSet(After)
  BY <1>2, <1>4, FS_Subset
<1>6. /\ Cardinality(Before) \in Nat /\ Cardinality(After) \in Nat
      /\ Cardinality(Before \cap After) = 0
  BY <1>3, <1>5, FS_CardinalityType, FS_EmptySet
<1>7. /\ IsFiniteSet(Before \cup After)
      /\ Cardinality(Before \cup After) = Cardinality(Before) + Cardinality(After)
  BY <1>5, <1>6, FS_Union
<1>8. Cardinality(E) = Cardinality(Before) + Cardinality(After) + 1
  BY <1>3, <1>7, FS_AddElement
<1>9. Cardinality(Before) = n - 1
  BY <1>1, <1>6, <1>8
<1> QED
  BY <1>9 DEF Before, E

\* What the pages read are makes them different, and all when they are as many.
LEMMA PagesDiffer ==
    ASSUME WellFormed, RankingInv, fresh, NoTies
    PROVE  /\ \A i, j \in DOMAIN pages : i # j => pages[i] # pages[j]
           /\ Len(pages) = Cardinality(Entries)
                => Range(pages) = Entries
<1> DEFINE E == Entries
           Before(e) == {x \in E : RanksBefore(x, e)}
<1>1. DOMAIN pages = 1 .. Len(pages) /\ Len(pages) \in Nat
  BY DEF RankingInv
<1>2. \A i \in DOMAIN pages : pages[i] \in E /\ Cardinality(Before(pages[i])) = i - 1
  <2> SUFFICES ASSUME NEW i \in DOMAIN pages
               PROVE  pages[i] \in E /\ Cardinality(Before(pages[i])) = i - 1
    OBVIOUS
  <2>1. pages[i] \in Place(i) /\ i \in Nat
    BY <1>1 DEF RankingInv
  <2>2. Cardinality(Before(pages[i])) = i - 1
    BY <2>1, PlaceHasOne DEF RankingInv
  <2> QED
    BY <2>1, <2>2 DEF Place
<1> HIDE DEF Before
<1>3. \A i, j \in DOMAIN pages : i # j => pages[i] # pages[j]
  BY <1>1, <1>2
<1>4. ASSUME Len(pages) = Cardinality(E) PROVE Range(pages) = E
  <2>1. pages \in Injection(DOMAIN pages, E)
    BY <1>2, <1>3 DEF Injection, IsInjective, RankingInv
  <2>2. IsFiniteSet(E)
    BY EntriesCounted DEF RankingInv
  <2>3. Cardinality(1 .. Len(pages)) = Len(pages)
    <3>1. Cardinality(1 .. Len(pages)) = IF 1 > Len(pages) THEN 0 ELSE Len(pages) - 1 + 1
      BY <1>1, FS_Interval
    <3> QED
      BY <1>1, <3>1
  <2>4. pages \in Surjection(DOMAIN pages, E)
    <3> HIDE DEF E
    <3> QED
      BY <1>1, <1>4, <2>1, <2>2, <2>3, FS_Injection
  <2> QED
    BY <1>2, <2>4 DEF Surjection, Range
<1> QED
  BY <1>3, <1>4

\* A place of the ranking depends on the rows alone.
LEMMA PlacesStay == rows' = rows => \A n : Place(n)' = Place(n)
<1> SUFFICES ASSUME rows' = rows PROVE \A n : Place(n)' = Place(n)
  OBVIOUS
<1>1. McpInvocations(rows)' = McpInvocations(rows)
  BY DEF McpInvocations
<1>2. Entries' = Entries /\ \A e : McpCalls(e)' = McpCalls(e)
  BY <1>1 DEF Entries, McpCalls
<1>3. \A e : LastCall(e)' = LastCall(e)
  BY <1>2 DEF LastCall, Max
<1>4. \A e, x : RanksBefore(e, x)' = RanksBefore(e, x)
  BY <1>2, <1>3 DEF RanksBefore
<1> QED
  BY <1>2, <1>4 DEF Place

\* The client has read no page at first.
LEMMA InitRankingInv == UsageInit => RankingInv
  BY FS_EmptySet DEF UsageInit, RankingInv

\* Rows that arrive end the reading; a deletion or another configuration moves no entry.
LEMMA StepRankingInv ==
    WellFormed /\ RankingInv /\ [UsageNext]_usageVars => RankingInv'
<1> SUFFICES ASSUME WellFormed, RankingInv, [UsageNext]_usageVars
             PROVE  RankingInv'
  OBVIOUS
<1>1. ASSUME NEW a \in Arrivals, Record(a) PROVE RankingInv'
  <2>1. rows' = rows \cup {a} /\ ~fresh' /\ pages' = pages /\ a \in Row
    BY <1>1 DEF Record, WellFormed
  <2>2. IsFiniteSet(rows')
    BY <2>1, FS_AddElement DEF RankingInv
  <2> QED
    BY <2>1, <2>2 DEF RankingInv
<1>2. ASSUME UNCHANGED <<rows, pages, fresh>> PROVE RankingInv'
  BY <1>2, PlacesStay DEF RankingInv
<1>3. ASSUME NEW e \in Place(1), pages' = <<e>>, UNCHANGED rows
      PROVE  RankingInv'
  <2>1. e \in Keys \X Groups
    BY <1>3, EntriesCounted DEF RankingInv, Place
  <2> QED
    BY <1>3, <2>1, PlacesStay DEF RankingInv
<1>4. ASSUME NEW e \in Place(Len(pages) + 1), pages' = Append(pages, e),
             UNCHANGED <<rows, fresh>>
      PROVE  RankingInv'
  <2>1. e \in Keys \X Groups
    BY <1>4, EntriesCounted DEF RankingInv, Place
  <2>2. /\ pages' \in Seq(Keys \X Groups)
        /\ \A i \in DOMAIN pages' :
             \/ i \in DOMAIN pages /\ pages'[i] = pages[i]
             \/ i = Len(pages) + 1 /\ pages'[i] = e
    BY <1>4, <2>1 DEF RankingInv
  <2> QED
    BY <1>4, <2>2, PlacesStay DEF RankingInv
<1> QED
  BY <1>1, <1>2, <1>3, <1>4
  DEF UsageNext, Configure, Delete, FirstPage, NextPage, usageVars

\* However many keys, groups and calls there are, a client that reads the key
\* ranking page by page while no row arrives sees no entry twice, and has seen
\* them all when it has read as many as there are, unless two entries of one
\* key tie (get_mcp_key_usage_paginated).
THEOREM RankingPaged == UsageSpec => []PagesOnce
<1>1. RankingInv => PagesOnce
  BY DashboardsAssumption, PagesDiffer DEF PagesOnce, NoTies
<1>2. RankingInv /\ [UsageNext]_usageVars => RankingInv'
  BY DashboardsAssumption, StepRankingInv
<1> QED
  BY <1>1, <1>2, InitRankingInv, PTL DEF UsageSpec

-----------------------------------------------------------------------------
(* The drill-downs of the charts of costs.                                  *)

\* Two numbers are cut down to the same multiple if one is between that of the
\* other and the next.
LEMMA SameMultiple ==
    ASSUME NEW n \in Nat \ {0}, NEW y \in Int, NEW z \in Int
    PROVE  /\ y - (y % n) \in Int
           /\ y - (y % n) <= y /\ y < y - (y % n) + n
           /\ z - (z % n) = y - (y % n) <=> y - (y % n) <= z /\ z < y - (y % n) + n
<1>1. \A x \in Int : x = n * (x \div n) + (x % n) /\ x \div n \in Int /\ x % n \in 0 .. (n - 1)
  OBVIOUS
<1> DEFINE a == y \div n
           c == z \div n
<1>2. a \in Int /\ c \in Int /\ y - (y % n) = n * a /\ z - (z % n) = n * c
  BY <1>1
<1>3. n * c <= z /\ z < n * c + n /\ n * a <= y /\ y < n * a + n
  BY <1>1
<1>4. n * a \in Int /\ n * c \in Int
  BY <1>2
<1>5. ASSUME n * a <= z, z < n * a + n PROVE c = a
  <2> HIDE DEF a, c
  <2>1. n * c < n * a + n /\ n * a < n * c + n
    BY <1>3, <1>4, <1>5
  <2>2. n * (c - a) < n /\ n * (a - c) < n
    BY <1>2, <2>1
  <2>3. ~(c - a >= 1) /\ ~(a - c >= 1)
    <3>1. \A d \in Int : d >= 1 => n * d >= n
      OBVIOUS
    <3> QED
      BY <1>2, <2>2, <3>1
  <2> QED
    BY <1>2, <2>3
<1> QED
  <2> HIDE DEF a, c
  <2> QED
    BY <1>2, <1>3, <1>4, <1>5

\* The months around an instant, and the one after.
LEMMA MonthFacts ==
    ASSUME WellFormed, NEW x \in 0 .. Now
    PROVE  LET m == Max({k \in MonthStarts : k <= x})
               n == Min({k \in MonthStarts : k > m})
               a == Min({k \in MonthStarts : k > n})
           IN  /\ {m, n, a} \subseteq MonthStarts /\ m <= x /\ x < n
               /\ \A k \in MonthStarts : k <= m \/ n <= k
               /\ Max({k \in MonthStarts : k <= m}) = m
               /\ n + Lengths.days <= a
<1> DEFINE m == Max({k \in MonthStarts : k <= x})
           n == Min({k \in MonthStarts : k > m})
           a == Min({k \in MonthStarts : k > n})
<1>1. Now \in Nat /\ MonthStarts \subseteq Nat /\ 0 \in MonthStarts
  BY DEF WellFormed
<1>2. PICK u, v \in MonthStarts : Now < u /\ u < v
  BY DEF WellFormed
<1>3. ASSUME NEW y \in 0 .. Now
      PROVE  LET S == {k \in MonthStarts : k <= y}
             IN  /\ Max(S) \in MonthStarts /\ Max(S) <= y
                 /\ \A k \in MonthStarts : k <= y => k <= Max(S)
  <2> DEFINE S == {k \in MonthStarts : k <= y}
  <2>0. y \in Nat /\ 0 <= y
    BY <1>1
  <2>1. S \subseteq 0 .. y /\ S # {} /\ y \in Nat
    <3>1. 0 \in S
      BY <1>1, <2>0
    <3>2. \A k \in S : k \in 0 .. y
      BY <1>1, <2>0
    <3> QED
      BY <2>0, <3>1, <3>2
  <2>2. Max(S) \in S /\ \A k \in S : k <= Max(S)
    <3> HIDE DEF S
    <3> QED
      BY <2>1, GreatestNumber
  <2> QED
    BY <2>2
<1>4. ASSUME NEW y \in MonthStarts, NEW later \in MonthStarts, y < later
      PROVE  LET S == {k \in MonthStarts : k > y}
             IN  /\ Min(S) \in MonthStarts /\ Min(S) > y
                 /\ \A k \in MonthStarts : k > y => Min(S) <= k
  <2> DEFINE S == {k \in MonthStarts : k > y}
  <2>1. S \subseteq Nat /\ S # {}
    BY <1>1, <1>4
  <2>2. Min(S) \in S /\ \A k \in S : Min(S) <= k
    <3> HIDE DEF S
    <3> QED
      BY <2>1, LeastNumber
  <2> QED
    BY <2>2
<1>5. m \in MonthStarts /\ m <= x /\ \A k \in MonthStarts : k <= x => k <= m
  BY <1>3
<1>6. m < u
  <2> HIDE DEF m
  <2> QED
    BY <1>1, <1>2, <1>5
<1>7. n \in MonthStarts /\ n > m /\ \A k \in MonthStarts : k > m => n <= k
  <2> HIDE DEF m
  <2> QED
    BY <1>2, <1>4, <1>5, <1>6
<1>8. n < v
  <2> HIDE DEF m, n
  <2> QED
    BY <1>1, <1>2, <1>6, <1>7
<1>9. a \in MonthStarts /\ a > n
  <2> HIDE DEF m, n
  <2> QED
    BY <1>2, <1>4, <1>7, <1>8
<1>10. Max({k \in MonthStarts : k <= m}) = m
  <2> HIDE DEF m
  <2>1. m \in 0 .. Now
    BY <1>1, <1>5
  <2> DEFINE s == Max({k \in MonthStarts : k <= m})
  <2>2. s \in MonthStarts /\ s <= m /\ \A k \in MonthStarts : k <= m => k <= s
    BY <1>3, <2>1
  <2> HIDE DEF s
  <2>3. s = m
    BY <1>1, <1>5, <2>2
  <2> QED
    BY <2>3 DEF s
<1>11. n + Lengths.days <= a
  <2> HIDE DEF m, n, a
  <2> QED
    BY <1>7, <1>9 DEF WellFormed
<1>12. x < n /\ \A k \in MonthStarts : k <= m \/ n <= k
  <2> HIDE DEF m, n, a
  <2> QED
    BY <1>1, <1>5, <1>7
<1> QED
  BY <1>5, <1>7, <1>9, <1>10, <1>11, <1>12

\* The granularities of charts.
LEMMA GranularityType ==
    ASSUME NEW f, NEW t
    PROVE  Granularity(f, t) \in {"hours", "days", "weeks", "months"}
<1> DEFINE span == (IF t = Unset THEN Now ELSE t) - f
           a == f # Unset /\ span <= Spans.hours
           b == f # Unset /\ span > Spans.hours /\ span <= Spans.days
           c == f # Unset /\ span > Spans.days /\ span <= Spans.weeks
<1>1. Granularity(f, t) = CASE f = Unset -> "weeks" [] a -> "hours" [] b -> "days" [] c -> "weeks"
                            [] OTHER -> "months"
  BY Zenon DEF Granularity
<1> HIDE DEF a, b, c
<1> QED
  BY <1>1

\* What a period asks for.
LEMMA PeriodType ==
    ASSUME WellFormed, NEW p \in Periods
    PROVE  /\ p.from \in Int /\ p.to \in Int /\ p.offset \in Int /\ Unset = -1
           /\ Step(p) \in {"hours", "days", "weeks", "months"}
<1>1. Step(p) \in {"hours", "days", "weeks", "months"}
  BY GranularityType DEF Step
<1>2. p.from \in Times \cup {Unset} /\ p.to \in Times \cup {Unset} /\ p.offset \in Offsets \cup {0}
  BY DEF Periods
<1>3. Times \subseteq Int /\ Offsets \subseteq Int /\ Unset \in Int /\ 0 \in Int
  BY DEF WellFormed, Unset
<1>4. p.from \in Int /\ p.to \in Int
  BY <1>2, <1>3
<1>5. p.offset \in Int
  BY <1>2, <1>3, Zenon
<1>6. Unset = -1
  BY DEF Unset
<1> QED
  BY <1>1, <1>4, <1>5, <1>6

\* A bar ends where its bucket does: in it are the instants from its start up
\* to the next one's, which is where its drill-down ends.
LEMMA BucketIs ==
    ASSUME WellFormed, NEW p \in Periods, Step(p) = "months" => p.offset = 0,
           NEW y \in 0 .. Now
    PROVE  LET b == Bucket(y, Step(p), p.offset)
               end == Advance(b, Step(p), p.offset)
           IN  /\ b \in Int /\ end \in Int /\ BucketEnd(b, Step(p)) = end
               /\ \A x \in 0 .. Now : Bucket(x, Step(p), p.offset) = b <=> b <= x /\ x < end
<1> DEFINE g == Step(p)
           o == p.offset
           b == Bucket(y, g, o)
           end == Advance(b, g, o)
<1>1. o \in Int /\ g \in {"hours", "days", "weeks", "months"} /\ Now \in Nat
  BY PeriodType DEF WellFormed
<1>2. CASE g # "months"
  <2>1. Lengths[g] \in Nat \ {0}
    BY <1>1, <1>2 DEF WellFormed
  <2>2. \A x : Bucket(x, g, o) = (x + o) - ((x + o) % Lengths[g]) - o
    BY <1>2 DEF Bucket, Truncate
  <2>3. end = b + Lengths[g] /\ BucketEnd(b, g) = b + Lengths[g]
    BY <1>2, Zenon DEF Advance, BucketEnd
  <2> DEFINE n == Lengths[g]
             Cut(x) == (x + o) - ((x + o) % n)
  <2>4. ASSUME NEW x \in 0 .. Now
        PROVE  /\ Cut(y) \in Int /\ Cut(x) \in Int
               /\ Cut(x) = Cut(y) <=> Cut(y) <= x + o /\ x + o < Cut(y) + n
    <3>1. x + o \in Int /\ y + o \in Int
      BY <1>1
    <3> HIDE DEF g, o, n
    <3> QED
      BY <2>1, <3>1, SameMultiple DEF n
  <2>5. b = Cut(y) - o /\ \A x : Bucket(x, g, o) = Cut(x) - o
    BY <2>2
  <2>6. \A x \in 0 .. Now : Bucket(x, g, o) = b <=> b <= x /\ x < b + n
    <3> SUFFICES ASSUME NEW x \in 0 .. Now PROVE Bucket(x, g, o) = b <=> b <= x /\ x < b + n
      OBVIOUS
    <3> HIDE DEF g, o, n, Cut, b
    <3> DEFINE u == Cut(x)
               v == Cut(y)
    <3>1. u \in Int /\ v \in Int /\ (u = v <=> v <= x + o /\ x + o < v + n)
      BY <2>4
    <3>2. Bucket(x, g, o) = u - o /\ b = v - o
      BY <2>5
    <3>3. n \in Nat /\ o \in Int
      BY <1>1, <2>1 DEF n
    <3> HIDE DEF u, v
    <3>4. u - o = v - o <=> u = v
      BY <3>1, <3>3
    <3>5. v <= x + o <=> v - o <= x
      BY <3>1, <3>3
    <3>6. x + o < v + n <=> x < (v - o) + n
      BY <3>1, <3>3
    <3> QED
      BY <3>1, <3>2, <3>4, <3>5, <3>6
  <2>7. b \in Int
    <3> HIDE DEF Cut, b, o
    <3> QED
      BY <1>1, <2>4, <2>5
  <2>8. end \in Int
    <3> HIDE DEF b, end, g
    <3> QED
      BY <2>1, <2>3, <2>7
  <2> HIDE DEF g, o, b, end, Cut
  <2> QED
    BY <2>3, <2>6, <2>7, <2>8 DEF g, o, b, end
<1>3. CASE g = "months"
  <2>1. o = 0 /\ MonthStarts \subseteq Nat /\ Now \in Nat
    BY <1>3 DEF WellFormed
  <2> DEFINE Start(x) == Max({k \in MonthStarts : k <= x})
             After(m) == Min({k \in MonthStarts : k > m})
             m == Start(y)
             n == After(m)
             a == After(n)
  <2>2. /\ {m, n, a} \subseteq MonthStarts /\ m <= y /\ y < n
        /\ Start(m) = m /\ n + Lengths.days <= a
    BY MonthFacts
  <2>3. \A x \in 0 .. Now : /\ Start(x) \in MonthStarts /\ Start(x) <= x
                             /\ \A k \in MonthStarts : k <= Start(x) \/ x < k
    <3> SUFFICES ASSUME NEW x \in 0 .. Now
                 PROVE  /\ Start(x) \in MonthStarts /\ Start(x) <= x
                        /\ \A k \in MonthStarts : k <= Start(x) \/ x < k
      OBVIOUS
    <3> DEFINE f == Start(x)
               s == After(f)
    <3>1. {f, s} \subseteq MonthStarts /\ f <= x /\ x < s /\ \A k \in MonthStarts : k <= f \/ s <= k
      BY MonthFacts
    <3> HIDE DEF f, s
    <3>0. f \in Nat /\ s \in Nat /\ x \in Nat
      <4>1. f \in MonthStarts /\ s \in MonthStarts
        BY <3>1
      <4> QED
        BY <2>1, <4>1
    <3>2. f \in MonthStarts /\ f <= x /\ \A k \in MonthStarts : k <= f \/ x < k
      <4> SUFFICES ASSUME NEW k \in MonthStarts PROVE k <= f \/ x < k
        BY <3>1
      <4> QED
        BY <2>1, <3>0, <3>1
    <3> QED
      BY <3>2 DEF f
  <2>4. \A k \in MonthStarts : k <= m \/ n <= k
    BY MonthFacts
  <2>5. \A x \in 0 .. Now : Truncate(x, g) = Start(x)
    BY <1>3 DEF Truncate
  <2>6. \A x \in 0 .. Now : Start(x) \in Nat /\ x + o = x /\ Start(x) - o = Start(x)
    <3> SUFFICES ASSUME NEW x \in 0 .. Now
                 PROVE  Start(x) \in Nat /\ x + o = x /\ Start(x) - o = Start(x)
      OBVIOUS
    <3> DEFINE f == Start(x)
    <3>0. f \in MonthStarts
      BY <2>3
    <3> HIDE DEF f, o
    <3>1. f \in Nat /\ x \in Nat
      BY <2>1, <3>0
    <3>2. x + o = x /\ f - o = f
      BY <2>1, <3>1
    <3> QED
      BY <3>1, <3>2 DEF f
  <2>7. \A x \in 0 .. Now : Bucket(x, g, o) = Start(x)
    <3> HIDE DEF Start, g, o
    <3> QED
      BY <2>5, <2>6 DEF Bucket
  <2>8. b = m
    BY <2>7
  <2>9. end = n /\ m \in Nat /\ n \in Nat /\ a \in Nat
    <3>0. m \in Nat /\ n \in Nat /\ a \in Nat
      BY <2>1, <2>2
    <3>1. end = Min({k \in MonthStarts : k > b + o}) - o
      BY <1>3 DEF Advance
    <3>2. b + o = m
      <4> HIDE DEF b, m, o
      <4> QED
        BY <2>1, <2>8, <3>0
    <3>3. end = n - o
      BY <3>1, <3>2
    <3> HIDE DEF end, n, o, m, a
    <3> QED
      BY <2>1, <3>0, <3>3
  <2>10. BucketEnd(b, g) = n
    <3> DEFINE l == Lengths.days
               day == Min({(m - m) \div l, (a - n) \div l - 1})
    <3>1. BucketEnd(b, g) = n + (day * l) + ((m - m) % l)
      BY <1>3, <2>2, <2>8, Zenon DEF BucketEnd
    <3>2. l \in Nat \ {0}
      BY DEF WellFormed
    <3> HIDE DEF l, m, n, a
    <3>3. (m - m) \div l = 0 /\ (m - m) % l = 0
      BY <2>9, <3>2
    <3>4. (a - n) \div l \in Int /\ (a - n) \div l >= 1
      BY <2>2, <2>9, <3>2 DEF l
    <3>5. day = 0
      <4> DEFINE q == (a - n) \div l - 1
      <4>1. q \in Nat
        BY <3>4
      <4> HIDE DEF q
      <4>2. Min({0, q}) = 0
        <5>1. {0, q} \subseteq Nat /\ {0, q} # {}
          BY <4>1
        <5>2. Min({0, q}) \in {0, q} /\ Min({0, q}) <= 0
          BY <5>1, LeastNumber
        <5> QED
          BY <4>1, <5>2
      <4> QED
        BY <3>3, <4>2 DEF q
    <3> HIDE DEF day
    <3> QED
      BY <2>9, <3>1, <3>2, <3>3, <3>5
  <2>11. \A x \in 0 .. Now : Start(x) = m <=> m <= x /\ x < n
    <3> SUFFICES ASSUME NEW x \in 0 .. Now PROVE Start(x) = m <=> m <= x /\ x < n
      OBVIOUS
    <3>1. m \in MonthStarts /\ n \in MonthStarts /\ m < n
      <4> HIDE DEF m, n
      <4> QED
        BY <2>1, <2>2, <2>9
    <3> HIDE DEF Start, m, n
    <3> QED
      BY <2>1, <2>3, <2>4, <2>6, <2>9, <3>1
  <2> HIDE DEF Start, m, n, g, o, b, end
  <2>12. b \in Int /\ end \in Int /\ BucketEnd(b, g) = end
    BY <2>8, <2>9, <2>10
  <2>13. \A x \in 0 .. Now : Bucket(x, g, o) = b <=> b <= x /\ x < end
    BY <2>7, <2>8, <2>9, <2>11
  <2> QED
    BY <2>12, <2>13 DEF g, o, b, end
<1> QED
  BY <1>2, <1>3

\* The rows of the instants of a bar are those its period selects.
LEMMA BarInPeriod ==
    ASSUME NEW b \in Int, NEW end \in Int, NEW f \in Int, NEW t \in Int, NEW y \in Int,
           f = Unset \/ f <= b, t = Unset \/ end <= t + 1, b <= y, y < end
    PROVE  (f = Unset \/ f <= y) /\ (t = Unset \/ y <= t)
  OBVIOUS

\* The instants up to an end, with it and without it.
LEMMA UpToEnd ==
    ASSUME NEW b \in Int, NEW end \in Int, NEW y \in Int, b < end
    PROVE  b <= y /\ y <= end <=> (b <= y /\ y < end) \/ y = end
  OBVIOUS

LEMMA EndsLater ==
    ASSUME NEW b \in Int, NEW y \in Int, NEW end \in Int, b <= y, y < end
    PROVE  b < end
  OBVIOUS

\* The instants of rows.
LEMMA RowInstants ==
    ASSUME WellFormed, rows \subseteq Row
    PROVE  \A x \in rows : x.at \in 0 .. Now /\ x.at \in Int
<1>1. \A x \in rows : x.at \in 0 .. Now
  BY DEF WellFormed, Row
<1> QED
  BY <1>1

\* The rows of a series at an instant.
AtInstant(c, e, i) == {x \in Spent(rows) : Series(c, x) = e /\ x.at = i}

\* A bucket of a chart from b up to end, both within the chart's period.
BucketWithin(p, b, end, g) ==
  /\ b \in Int /\ end \in Int /\ b < end /\ BucketEnd(b, g) = end
  /\ p.from \in Int /\ p.to \in Int
  /\ p.from = Unset \/ p.from <= b
  /\ p.to = Unset \/ end <= p.to + 1
  /\ \A x \in rows : x.at \in Int /\ (At(p, x) = b <=> b <= x.at /\ x.at < end)

\* A drill-down shows the rows of its bar, and those where the bar ends.
ShowsBar(p, c, e, b, end, g) ==
  DrillDown(c, e, b, g) = Bar(p, c, Spent(In(p)), e, b) \cup AtInstant(c, e, end)

\* What a bar shows and what its drill-down shows differ by the rows at the very
\* start of the next bar.
LEMMA DrillDownIs ==
    ASSUME NEW p, NEW c, NEW e, NEW g, NEW b, NEW end, BucketWithin(p, b, end, g)
    PROVE  ShowsBar(p, c, e, b, end, g)
<1> DEFINE next == AtInstant(c, e, end)
<1>1. ASSUME NEW x \in rows, b <= x.at, x.at < end PROVE x \in In(p)
  <2>1. /\ b \in Int /\ end \in Int /\ p.from \in Int /\ p.to \in Int /\ x.at \in Int
        /\ p.from = Unset \/ p.from <= b
        /\ p.to = Unset \/ end <= p.to + 1
    BY Zenon DEF BucketWithin
  <2>2. (p.from = Unset \/ p.from <= x.at) /\ (p.to = Unset \/ x.at <= p.to)
    BY <1>1, <2>1, BarInPeriod, Zenon
  <2> QED
    BY <2>2, Zenon DEF In, Selected
<1>2. ASSUME NEW x \in Spent(rows)
      PROVE  x \in rows /\ (x \in Spent(In(p)) <=> x \in In(p))
  BY DEF Spent, In, Selected
<1>3. ASSUME NEW x \in Spent(rows), Series(c, x) = e
      PROVE  b <= x.at /\ x.at <= end <=> x \in Bar(p, c, Spent(In(p)), e, b) \/ x.at = end
  <2>1. x \in Bar(p, c, Spent(In(p)), e, b) <=> b <= x.at /\ x.at < end
    BY <1>1, <1>2, <1>3, Zenon DEF Bar, BucketWithin
  <2>2. b <= x.at /\ x.at <= end <=> (b <= x.at /\ x.at < end) \/ x.at = end
    BY <1>2, UpToEnd, Zenon DEF BucketWithin
  <2> QED
    BY <2>1, <2>2, Zenon
<1>4. Bar(p, c, Spent(In(p)), e, b) \subseteq {x \in Spent(rows) : Series(c, x) = e}
  BY DEF Bar, Spent, In, Selected
<1>5. DrillDown(c, e, b, g) = {x \in Spent(rows) : Series(c, x) = e /\ b <= x.at /\ x.at <= end}
  BY Zenon DEF DrillDown, BucketWithin
<1>6. ASSUME NEW x \in DrillDown(c, e, b, g) PROVE x \in Bar(p, c, Spent(In(p)), e, b) \cup next
  <2>1. x \in Spent(rows) /\ Series(c, x) = e /\ b <= x.at /\ x.at <= end
    BY <1>5, <1>6, Zenon
  <2> QED
    BY <1>3, <2>1, Zenon DEF AtInstant
<1>7. ASSUME NEW x \in Bar(p, c, Spent(In(p)), e, b) \cup next PROVE x \in DrillDown(c, e, b, g)
  <2>1. x \in Spent(rows) /\ Series(c, x) = e
    BY <1>4, <1>7, Zenon DEF AtInstant
  <2>2. x \in Bar(p, c, Spent(In(p)), e, b) \/ x.at = end
    BY <1>7, Zenon DEF AtInstant
  <2> QED
    BY <1>3, <1>5, <2>1, <2>2, Zenon
<1> QED
  BY <1>6, <1>7, Zenon DEF ShowsBar

\* The drill-downs agree with their bars whatever rows there are.
LEMMA DrillDownsAlways ==
    ASSUME WellFormed, rows \subseteq Row
    PROVE  DrillDownsAgree
<1> DEFINE last(p) == IF p.to = Unset THEN Now ELSE p.to
<1> SUFFICES ASSUME NEW p \in Periods, NEW c \in {"costs of keys", "costs of groups"},
                    Step(p) = "months" => p.offset = 0, NEW r \in Charted(c, In(p)),
                    p.from = Unset \/ p.from <= At(p, r),
                    Advance(At(p, r), Step(p), p.offset) <= last(p) + 1
             PROVE  DrillDown(c, Series(c, r), At(p, r), Step(p)) =
                      Bar(p, c, Charted(c, In(p)), Series(c, r), At(p, r))
                        \cup {x \in Spent(rows) : Series(c, x) = Series(c, r)
                                                   /\ x.at = Advance(At(p, r), Step(p), p.offset)}
  BY ZenonT(60) DEF DrillDownsAgree
<1> DEFINE low == At(p, r)
           high == Advance(low, Step(p), p.offset)
           series == Series(c, r)
           S == Charted(c, In(p))
<1>1. S = Spent(In(p))
  BY Zenon DEF Charted
<1>2. p.to = Unset \/ high <= p.to + 1
  <2>1. p.to # Unset => last(p) = p.to
    OBVIOUS
  <2> HIDE DEF last
  <2> QED
    BY <2>1, Zenon
<1>3. r \in rows
  <2>1. Charted(c, In(p)) = Spent(In(p))
    BY Zenon DEF Charted
  <2> QED
    BY <2>1 DEF Spent, In, Selected
<1>4. /\ low \in Int /\ high \in Int /\ BucketEnd(low, Step(p)) = high
      /\ \A x \in 0 .. Now : Bucket(x, Step(p), p.offset) = low <=> low <= x /\ x < high
  <2>1. r.at \in 0 .. Now
    BY <1>3, RowInstants, Zenon
  <2> QED
    BY <2>1, BucketIs, Zenon DEF At
<1>5. p.from \in Int /\ p.to \in Int
  BY PeriodType, Zenon
<1> DEFINE step == Step(p)
<1> HIDE DEF low, high, series, last, step, S
<1>6. \A x \in rows : x.at \in Int /\ (At(p, x) = low <=> low <= x.at /\ x.at < high)
  BY <1>4, RowInstants, Zenon DEF At
<1>7. low < high
  <2>1. low <= r.at /\ r.at < high /\ r.at \in Int
    BY <1>3, <1>6, Zenon DEF low
  <2> QED
    BY <1>4, <2>1, EndsLater, Zenon
<1>8. p.from = Unset \/ p.from <= low
  BY Zenon DEF low
<1>9. BucketEnd(low, step) = high
  BY <1>4, Zenon DEF step
<1>10. low \in Int /\ high \in Int
  BY <1>4, Zenon
<1>11. BucketWithin(p, low, high, step)
  BY <1>2, <1>9, <1>10, <1>5, <1>6, <1>7, <1>8, Zenon DEF BucketWithin
<1>12. ShowsBar(p, c, series, low, high, step)
  BY <1>11, DrillDownIs, Zenon
<1> QED
  BY <1>1, <1>12, Zenon DEF ShowsBar, AtInstant, series, low, high, step, S

\* Whatever rows, periods, time zones, granularities and calendar there are, the
\* drill-down of a bar within its chart's period shows the rows of the bar and
\* those at the start of the next one, and no others (get_cost_breakdown,
\* get_bucket_end_timestamp).
THEOREM DrillDownsHold == UsageSpec => []DrillDownsAgree
<1>1. RankingInv => DrillDownsAgree
  BY DashboardsAssumption, DrillDownsAlways DEF RankingInv
<1>2. RankingInv /\ [UsageNext]_usageVars => RankingInv'
  BY DashboardsAssumption, StepRankingInv
<1> QED
  BY <1>1, <1>2, InitRankingInv, PTL DEF UsageSpec

=============================================================================
