-------------------------- MODULE InvocationProofs --------------------------
(* Safety of Invocation for any chain, any models and any number of requests, *)
(* and that it implements ModelReply.                                         *)
EXTENDS Invocation, WellFoundedInduction, TLAPS

-----------------------------------------------------------------------------
(* The inductive invariant.                                                  *)

Typed ==
    /\ request \in [Requests -> RequestRecord \cup {New}]
    /\ cache \in [Apis -> EntryRecord \cup {None}]

\* The pieces a request has: those of the model that answers now, and of
\* earlier ones if a stream fell back after a piece.
Tidy(r) ==
    LET m == Current(r) IN
    /\ \A i \in 1..Len(Chain) : i > r.pos => r.got[Chain[i]] = 0
    /\ ~r.mixed => /\ \A n \in Models \ {m} : r.got[n] = 0
                   /\ r.first = IF r.got[m] > 0 THEN m ELSE None
    /\ r.mixed => /\ r.kind \in ChatStreams \cup {"transcript"}
                  /\ r.first \in Models /\ r.got[r.first] > 0
                  /\ \A i \in 1..Len(Chain) : i >= r.pos => Chain[i] # r.first

\* The usage of n pieces of a stream, and the last report of it a chat stream had.
Gathered(kind, m, n) ==
    IF m \in Unmetered THEN {}
    ELSE IF kind \in ChatStreams /\ m \in Deltas THEN 1..n
    ELSE IF n = Length THEN All ELSE {}
LastUsage(m, n) ==
    [model |-> m, units |-> IF m \in Deltas THEN {n} ELSE All]

\* A request whose model is answering.
Running(r) ==
    LET m == Current(r)
        n == r.got[m]
    IN
    /\ r.end = None /\ r.records = 0 /\ r.charged = None /\ ~r.refused
    /\ r.kind \notin Streams => r.got = Nothing
    /\ r.kind \in Streams => r.stats = Gathered(r.kind, m, n)
    /\ r.kind \in NativeStreams =>
          /\ r.final = IF n = Length THEN [model |-> m, units |-> r.stats] ELSE None
          /\ r.triggered = (r.pos > 1)
    /\ r.kind \in ChatStreams /\ (~r.mixed \/ r.stats # {}) =>
          r.final = IF r.stats = {} THEN None ELSE LastUsage(m, n)
    /\ r.kind \in AlwaysRecorded => r.invoked = m

\* The handler charged the limits already.
Charged(r) == \/ r.kind = "complete" /\ r.pc \in {"guard", "store"}
              \/ r.kind # "buffered" /\ r.pc = "store"

\* A request whose handler has a whole answer.
Handling(r) ==
    LET m == Current(r)
        usage == Answered(r.kind, m)
        uncounted == r.kind = "complete" /\ usage = {}
    IN
    /\ r.end = None /\ r.got[m] = Length
    /\ r.kind \in ChatStreams \cup NativeStreams \cup {"complete", "response"}
    /\ r.pc = "guard" => r.kind \notin Direct
    /\ uncounted => r.records = 0 /\ r.pc # "charge"
    /\ ~uncounted => r.record = [model |-> m, units |-> usage, fallback |-> r.pos > 1]
    /\ r.kind \in ChatStreams /\ ~r.mixed =>
          r.final = IF usage = {} THEN None ELSE LastUsage(m, Length)
    /\ r.kind \notin ChatStreams => r.final = [model |-> m, units |-> usage]
    /\ r.charged = IF Charged(r) /\ ~uncounted THEN r.final ELSE None

Sound(r) ==
    /\ r.pc = "run" => Tidy(r) /\ Running(r)
    /\ r.pc \in {"guard", "charge", "store"} => Tidy(r) /\ Handling(r)
    /\ r.pc = "done" => AccountAgrees(r)

IInv == Typed /\ (\A q \in Requests : Sound(request[q])) /\ CacheWhole

-----------------------------------------------------------------------------
(* The chain.                                                                *)

Below == {x \in Nat \X Nat : x[1] < x[2]}

\* Soonest is the least index of a set.
LEMMA SoonestIsLeast ==
    ASSUME NEW S, S \subseteq Nat, S # {}
    PROVE  Soonest(S) \in S
<1>1. IsWellFoundedOn(Below, Nat)
  BY NatLessThanWellFounded DEF OpToRel, Below
<1>2. \E i \in S : \A j \in S : ~(<<j, i>> \in Below)
  BY <1>1, WFMin
<1>3. PICK i \in S : \A j \in S : ~(<<j, i>> \in Below)
  BY <1>2
<1>4. ASSUME NEW j \in S PROVE i <= j
  <2>1. ~(j < i)
    BY <1>3 DEF Below
  <2> QED
    BY <2>1
<1> QED
  BY <1>3, <1>4 DEF Soonest

LEMMA ChainFacts ==
    /\ Len(Chain) \in Nat /\ Len(Chain) > 0 /\ 1 \in 1..Len(Chain)
    /\ \A i \in 1..Len(Chain) : Chain[i] \in Models
    /\ \A i, j \in 1..Len(Chain) : Chain[i] = Chain[j] => i = j
    /\ Length \in Nat /\ Length > 0 /\ Length \in All /\ 0 \in 0..Length
    /\ None \notin Models
    /\ Nothing \in [Models -> 0..Length]
  BY InvocationAssumption DEF Models, All, Nothing

-----------------------------------------------------------------------------
(* The records of the requests.                                              *)

\* a and b differ only in where the handler is.
Alike(a, b) ==
    /\ a.kind = b.kind /\ a.pos = b.pos /\ a.got = b.got /\ a.first = b.first
    /\ a.stats = b.stats /\ a.final = b.final /\ a.invoked = b.invoked
    /\ a.triggered = b.triggered /\ a.mixed = b.mixed /\ a.refused = b.refused
    /\ a.records = b.records /\ a.record = b.record /\ a.charged = b.charged

LEMMA NewFacts ==
    /\ New \notin RequestRecord /\ New.pc = "new" /\ New.end = None
    /\ New.kind = None /\ None \notin Kinds
    /\ \A r \in RequestRecord : r.pc # "new" /\ r.kind # None
  BY NoneIsNoOther DEF New, RequestRecord, Kinds

LEMMA EndedIs ==
    ASSUME NEW r \in RequestRecord,
           NEW how \in {"ok", "error", "left", "blocked", "hit"}
    PROVE  /\ Ended(r, how) \in RequestRecord /\ Alike(r, Ended(r, how))
           /\ Ended(r, how).pc = "done" /\ Ended(r, how).end = how
<1> DEFINE s == [r EXCEPT !.pc = "done", !.end = how]
<1>1. Ended(r, how) = s
  BY DEF Ended
<1>2. s \in RequestRecord
  BY ZenonT(60) DEF RequestRecord
<1>3. Alike(r, s) /\ s.pc = "done" /\ s.end = how
  BY ZenonT(60) DEF RequestRecord, Alike
<1> QED
  BY <1>1, <1>2, <1>3

LEMMA ContinuedIs ==
    ASSUME NEW r \in RequestRecord, NEW pc \in {"guard", "charge", "store", "done"}
    PROVE  /\ Continued(r, pc) \in RequestRecord /\ Alike(r, Continued(r, pc))
           /\ Continued(r, pc).pc = pc
           /\ Continued(r, pc).end = IF pc = "done" THEN "ok" ELSE r.end
<1>1. CASE pc = "done"
  BY <1>1, EndedIs DEF Continued
<1>2. CASE pc # "done"
  BY <1>2 DEF Continued, RequestRecord, Alike
<1> QED
  BY <1>1, <1>2

LEMMA RecordedIs ==
    ASSUME NEW r \in RequestRecord, r.records = 0, r.invoked \in Models
    PROVE  LET s == Recorded(r) IN
           /\ s \in RequestRecord
           /\ s.records = 1
           /\ s.record = [model |-> r.invoked, units |-> r.stats, fallback |-> r.triggered]
           /\ s.kind = r.kind /\ s.pc = r.pc /\ s.pos = r.pos /\ s.got = r.got
           /\ s.first = r.first /\ s.stats = r.stats /\ s.final = r.final
           /\ s.invoked = r.invoked /\ s.triggered = r.triggered /\ s.mixed = r.mixed
           /\ s.refused = r.refused /\ s.end = r.end /\ s.charged = r.charged
<1> DEFINE rec == [model |-> r.invoked, units |-> r.stats, fallback |-> r.triggered]
<1>1. /\ rec \in [model : Models, units : SUBSET All, fallback : BOOLEAN] \cup {None}
      /\ 1 \in 0..1
  BY DEF RequestRecord
<1>2. Recorded(r) = [r EXCEPT !.records = 1, !.record = rec]
  BY DEF Recorded, RequestRecord
<1> HIDE DEF rec
<1>3. Recorded(r) \in RequestRecord
  BY ZenonT(60), <1>1, <1>2 DEF RequestRecord
<1> QED
  BY <1>2, <1>3 DEF RequestRecord, rec

LEMMA CurrentFacts ==
    ASSUME NEW r \in RequestRecord
    PROVE  /\ Current(r) \in Models /\ r.pos \in Nat /\ r.pos >= 1
           /\ r.got[Current(r)] \in 0..Length
           /\ Current(r) = Chain[r.pos]
           /\ r.got \in [Models -> 0..Length]
  BY ChainFacts DEF RequestRecord, Current

LEMMA TidySame ==
    ASSUME NEW a, NEW b, Alike(a, b), Tidy(a)
    PROVE  Tidy(b)
  BY DEF Tidy, Alike, Current

LEMMA AnsweredByIs ==
    ASSUME NEW r \in RequestRecord
    PROVE  LET s == AnsweredBy(r)
               m == Current(r)
               usage == Answered(r.kind, m)
           IN
           /\ s \in RequestRecord
           /\ s.got = [r.got EXCEPT ![m] = Length] /\ s.first = m /\ s.stats = usage
           /\ s.final = [model |-> m, units |-> usage] /\ s.invoked = m
           /\ s.triggered = (r.pos > 1)
           /\ s.kind = r.kind /\ s.pc = r.pc /\ s.pos = r.pos /\ s.mixed = r.mixed
           /\ s.refused = r.refused /\ s.end = r.end /\ s.charged = r.charged
           /\ s.records = r.records /\ s.record = r.record
<1> DEFINE m == Current(r)
           usage == Answered(r.kind, m)
           got == [r.got EXCEPT ![m] = Length]
<1>1. m \in Models /\ usage \in SUBSET All
  BY CurrentFacts DEF Answered
<1>2. got \in [Models -> 0..Length]
  BY CurrentFacts, ChainFacts, <1>1
<1>3. [model |-> m, units |-> usage] \in UsageRecord
  BY <1>1 DEF UsageRecord
<1>4. AnsweredBy(r) = [r EXCEPT !.got = got, !.first = m, !.stats = usage,
                  !.final = [model |-> m, units |-> usage],
                  !.invoked = m, !.triggered = r.pos > 1]
  BY DEF AnsweredBy, RequestRecord
<1>5. (r.pos > 1) \in BOOLEAN
  OBVIOUS
<1> HIDE DEF got, usage, m
<1>6. AnsweredBy(r) \in RequestRecord
  BY ZenonT(60), <1>1, <1>2, <1>3, <1>4, <1>5 DEF RequestRecord
<1> QED
  BY <1>4, <1>6 DEF RequestRecord, m, got, usage

-----------------------------------------------------------------------------
(* What the client sees of a request.                                        *)

\* A step of ModelReply, or a stutter, of one reply.
Follows(v, w) ==
    \/ w = v
    \/ \E m \in Models :
          /\ v.over = "no" /\ v.from \subseteq {m} /\ v.shown < Length
          /\ w = [from |-> {m}, shown |-> v.shown + 1, over |-> "no"]
    \/ \E m \in Models, n \in 1..Length :
          /\ v = Silent("no")
          /\ w = [from |-> {m}, shown |-> n,
                  over |-> IF n = Length THEN "whole" ELSE "cut"]
    \/ /\ v.over = "no" /\ v.shown = Length
       /\ w = [from |-> v.from, shown |-> v.shown, over |-> "whole"]
    \/ /\ v.over = "no"
       /\ w = [from |-> v.from, shown |-> v.shown, over |-> "cut"]

LEMMA ViewForm ==
    ASSUME NEW r
    PROVE  View(r) = [from |-> View(r).from, shown |-> View(r).shown,
                      over |-> View(r).over]
<1>1. View(r) = Told(r) \/ \E over \in {"no", "cut"} : View(r) = Silent(over)
  BY DEF View
<1> QED
  BY <1>1 DEF Told, Silent

LEMMA Lift ==
    ASSUME NEW q \in Requests, request \in [Requests -> RequestRecord \cup {New}],
           NEW r, Update(q, r), Follows(View(request[q]), View(r))
    PROVE  [Reply!Next]_([p \in Requests |-> View(request[p])])
<1> DEFINE reply == [p \in Requests |-> View(request[p])]
           v == View(request[q])
           w == View(r)
<1>1. reply' = [reply EXCEPT ![q] = w]
  BY DEF Update
<1>2. reply[q] = v
  OBVIOUS
<1>3. v = [from |-> v.from, shown |-> v.shown, over |-> v.over]
  BY ViewForm
<1>4. DOMAIN reply = Requests /\ reply = [p \in Requests |-> reply[p]]
  OBVIOUS
<1>5. Reply!Unanswered = Silent("no")
  BY DEF Reply!Unanswered, Silent
<1>6. Follows(v, w)
  OBVIOUS
<1> HIDE DEF v, w
<1>7. CASE w = v
  <2>1. reply' = reply
    BY <1>1, <1>2, <1>4, <1>7
  <2> QED
    BY <2>1
<1>8. ASSUME NEW m \in Models,
             v.over = "no", v.from \subseteq {m}, v.shown < Length,
             w = [from |-> {m}, shown |-> v.shown + 1, over |-> "no"]
      PROVE  Reply!Piece(q, m)
  <2>1. w = [v EXCEPT !.from = {m}, !.shown = @ + 1]
    <3> DEFINE from == {m}
               shown == v.shown + 1
    <3>1. w = [from |-> from, shown |-> shown, over |-> v.over]
      BY <1>8
    <3>2. [v EXCEPT !.from = from, !.shown = shown]
              = [from |-> from, shown |-> shown, over |-> v.over]
      <4> HIDE DEF from, shown
      <4> QED
        <5> DEFINE f == v.from
                   s == v.shown
                   o == v.over
                   u == [v EXCEPT !.from = from]
        <5>1. v = [from |-> f, shown |-> s, over |-> o]
          BY <1>3
        <5>2. [v EXCEPT !.from = from, !.shown = shown] = [u EXCEPT !.shown = shown]
          OBVIOUS
        <5> HIDE DEF f, s, o
        <5>3. u = [from |-> from, shown |-> s, over |-> o]
          BY <5>1
        <5> HIDE DEF u
        <5>4. [u EXCEPT !.shown = shown] = [from |-> from, shown |-> shown, over |-> o]
          BY <5>3
        <5> QED
          BY <5>2, <5>4 DEF o
    <3> QED
      BY <3>1, <3>2
  <2>2. reply' = [reply EXCEPT ![q].from = {m}, ![q].shown = @ + 1]
    BY <1>1, <1>2, <1>4, <2>1
  <2> QED
    BY <2>2, <1>2, <1>8 DEF Reply!Piece
<1>9. ASSUME NEW m \in Models, NEW n \in 1..Length, v = Silent("no"),
             w = [from |-> {m}, shown |-> n,
                  over |-> IF n = Length THEN "whole" ELSE "cut"]
      PROVE  Reply!AtOnce(q, m, n)
  BY <1>1, <1>2, <1>5, <1>9 DEF Reply!AtOnce
<1>10. CASE /\ v.over = "no" /\ v.shown = Length
            /\ w = [from |-> v.from, shown |-> v.shown, over |-> "whole"]
  <2>1. w = [v EXCEPT !.over = "whole"]
    BY <1>3, <1>10
  <2>2. reply' = [reply EXCEPT ![q].over = "whole"]
    BY <1>1, <1>2, <1>4, <2>1
  <2>3. Reply!Finish(q)
    BY <2>2, <1>2, <1>10 DEF Reply!Finish
  <2> QED
    BY <2>3 DEF Reply!Next
<1>11. CASE /\ v.over = "no"
            /\ w = [from |-> v.from, shown |-> v.shown, over |-> "cut"]
  <2>1. w = [v EXCEPT !.over = "cut"]
    BY <1>3, <1>11
  <2>2. reply' = [reply EXCEPT ![q].over = "cut"]
    BY <1>1, <1>2, <1>4, <2>1
  <2>3. Reply!Stop(q)
    BY <2>2, <1>2, <1>11 DEF Reply!Stop
  <2> QED
    BY <2>3 DEF Reply!Next
<1> QED
  BY <1>6, <1>7, <1>8, <1>9, <1>10, <1>11 DEF Follows, Reply!Next

\* What is told of a request whose pieces are tidy.
LEMMA ToldIs ==
    ASSUME NEW r \in RequestRecord, Tidy(r)
    PROVE  LET m == Current(r)
               n == r.got[m]
           IN
           /\ Mixed(r) = r.mixed
           /\ ~r.mixed => Told(r) =
                 [from |-> IF n > 0 THEN {m} ELSE {}, shown |-> n,
                  over |-> IF r.end \in {"error", "left"} THEN "cut"
                           ELSE IF r.end = None THEN "no"
                           ELSE IF n = Length THEN "whole" ELSE "cut"]
           /\ r.mixed => Told(r) =
                 [from |-> {r.first}, shown |-> r.got[r.first], over |-> "cut"]
<1> DEFINE m == Current(r)
           n == r.got[m]
<1>1. Mixed(r) = r.mixed
  <2>1. r.kind \in Kinds /\ r.mixed \in BOOLEAN
    BY DEF RequestRecord
  <2>2. r.mixed => r.kind = "transcript" \/ ApiOf[r.kind] = "chat"
    BY <2>1 DEF Tidy, ApiOf
  <2> QED
    BY <2>1, <2>2 DEF Mixed
<1>2. CASE ~r.mixed
  <2>1. Givers(r) = IF n > 0 THEN {m} ELSE {}
    BY <1>1, <1>2, CurrentFacts, ChainFacts DEF Givers, Tidy
  <2>2. Shown(r) = n
    BY <2>1, CurrentFacts, ChainFacts DEF Shown
  <2> QED
    BY <1>1, <1>2, <2>1, <2>2 DEF Told, Over
<1>3. CASE r.mixed
  <2>1. Givers(r) = {r.first}
    BY <1>1, <1>3, ChainFacts DEF Givers, Tidy
  <2>2. Shown(r) = r.got[r.first]
    BY <2>1 DEF Shown
  <2> QED
    BY <1>1, <1>3, <2>1, <2>2 DEF Told, Over
<1> QED
  BY <1>1, <1>2, <1>3

LEMMA ViewOpen ==
    ASSUME NEW r \in RequestRecord, r.end = None
    PROVE  View(r) = IF r.kind \in Direct THEN Told(r) ELSE Silent("no")
  BY NoneIsNoOther DEF View

LEMMA ViewDone ==
    ASSUME NEW r \in RequestRecord, r.end # None
    PROVE  /\ r.kind \in Direct /\ r.end \notin {"hit", "blocked"} => View(r) = Told(r)
           /\ r.kind \notin Direct /\ r.end \in {"error", "left"} => View(r) = Silent("cut")
           /\ r.end = "blocked" => View(r) = Silent("cut")
  BY DEF View

LEMMA FollowsSame == ASSUME NEW v PROVE Follows(v, v)
  BY DEF Follows

LEMMA FollowsStop ==
    ASSUME NEW v, v.over = "no"
    PROVE  Follows(v, [from |-> v.from, shown |-> v.shown, over |-> "cut"])
  BY DEF Follows

LEMMA FollowsSilence == Follows(Silent("no"), Silent("cut"))
  BY DEF Follows, Silent

\* a and b are the same reply, of the same model.
SameReply(a, b) ==
    a.kind = b.kind /\ a.pos = b.pos /\ a.got = b.got /\ a.first = b.first
        /\ a.mixed = b.mixed

LEMMA AlikeReply ==
    ASSUME NEW a, NEW b, Alike(a, b)
    PROVE  SameReply(a, b)
  BY DEF Alike, SameReply

LEMMA ReplyTidy ==
    ASSUME NEW a, NEW b, SameReply(a, b), Tidy(a)
    PROVE  Tidy(b) /\ Current(b) = Current(a)
  BY DEF Tidy, SameReply, Current

\* A request that goes on, with the reply it had.
LEMMA GoesOn ==
    ASSUME NEW r \in RequestRecord, NEW s \in RequestRecord, Tidy(r), SameReply(r, s),
           r.end = None, s.end = None
    PROVE  Follows(View(r), View(s))
<1>1. Tidy(s) /\ Current(s) = Current(r)
  BY ReplyTidy
<1>2. Told(s) = Told(r)
  BY <1>1, ToldIs DEF SameReply
<1>3. View(s) = View(r)
  BY <1>2, ViewOpen DEF SameReply
<1> QED
  BY <1>3, FollowsSame

\* A request that fails, is blocked, or whose client leaves.
LEMMA Stops ==
    ASSUME NEW r \in RequestRecord, NEW s \in RequestRecord, Tidy(r), SameReply(r, s),
           r.end = None,
           \/ s.end \in {"error", "left"}
           \/ s.end = "blocked" /\ r.kind \notin Direct
    PROVE  Follows(View(r), View(s))
<1>1. Tidy(s) /\ Current(s) = Current(r)
  BY ReplyTidy
<1>2. s.end # None
  BY NoneIsNoOther
<1>3. CASE r.kind \notin Direct
  <2>1. View(r) = Silent("no") /\ View(s) = Silent("cut")
    BY <1>2, <1>3, ViewOpen, ViewDone DEF SameReply
  <2> QED
    BY <2>1, FollowsSilence
<1>4. CASE r.kind \in Direct
  <2>1. View(r) = Told(r) /\ View(s) = Told(s)
    BY <1>2, <1>4, ViewOpen, ViewDone DEF SameReply
  <2>2. CASE r.mixed
    <3>1. Told(s) = Told(r)
      BY <1>1, <2>2, ToldIs DEF SameReply
    <3> QED
      BY <2>1, <3>1, FollowsSame
  <2>3. CASE ~r.mixed
    <3> DEFINE v == Told(r)
    <3>1. v.over = "no"
      BY <2>3, ToldIs, NoneIsNoOther
    <3>2. Told(s) = [from |-> v.from, shown |-> v.shown, over |-> "cut"]
      BY <1>1, <1>4, <2>3, ToldIs DEF SameReply
    <3> HIDE DEF v
    <3>3. Follows(v, Told(s))
      BY <3>1, <3>2, FollowsStop
    <3> QED
      BY <2>1, <3>3 DEF v
  <2> QED
    BY <2>2, <2>3 DEF RequestRecord
<1> QED
  BY <1>3, <1>4

\* A stream that reached the client ends well.
LEMMA Closes ==
    ASSUME NEW r \in RequestRecord, NEW s \in RequestRecord, Tidy(r), SameReply(r, s),
           r.end = None, s.end = "ok", r.kind \in Direct
    PROVE  Follows(View(r), View(s))
<1>1. Tidy(s) /\ Current(s) = Current(r)
  BY ReplyTidy
<1>2. s.end # None
  BY NoneIsNoOther
<1>3. View(r) = Told(r) /\ View(s) = Told(s)
  BY <1>2, ViewOpen, ViewDone DEF SameReply
<1>4. CASE r.mixed
  <2>1. Told(s) = Told(r)
    BY <1>1, <1>4, ToldIs DEF SameReply
  <2> QED
    BY <1>3, <2>1, FollowsSame
<1>5. CASE ~r.mixed
  <2> DEFINE v == Told(r)
             n == r.got[Current(r)]
  <2>1. v.over = "no" /\ v.shown = n
    BY <1>5, ToldIs, NoneIsNoOther
  <2>2. Told(s) = [from |-> v.from, shown |-> v.shown,
                   over |-> IF n = Length THEN "whole" ELSE "cut"]
    BY <1>1, <1>2, <1>5, ToldIs DEF SameReply
  <2> HIDE DEF v
  <2>3. Follows(v, Told(s))
    BY <2>1, <2>2 DEF Follows
  <2> QED
    BY <1>3, <2>3 DEF v
<1> QED
  BY <1>4, <1>5 DEF RequestRecord

\* A reply the handler held back is given in one go, or refused.
LEMMA Gives ==
    ASSUME NEW r \in RequestRecord, NEW s \in RequestRecord, Tidy(s),
           r.kind \notin Direct, s.kind \notin Direct, r.end = None, s.end = "ok"
    PROVE  Follows(View(r), View(s))
<1>1. s.end # None
  BY NoneIsNoOther
<1>2. View(r) = Silent("no")
  BY ViewOpen
<1>3. CASE ~Mixed(s) /\ ~s.refused
  <2> DEFINE m == Current(s)
             n == s.got[m]
  <2>1. View(s) = Told(s)
    BY <1>1, <1>3 DEF View
  <2>2. Told(s) = [from |-> IF n > 0 THEN {m} ELSE {}, shown |-> n,
                   over |-> IF n = Length THEN "whole" ELSE "cut"]
    BY <1>1, <1>3, ToldIs
  <2>3. n \in 0..Length /\ m \in Models /\ Length \in Nat /\ Length > 0
    BY CurrentFacts, ChainFacts
  <2>4. CASE n = 0
    <3>1. Told(s) = Silent("cut")
      BY <2>2, <2>3, <2>4 DEF Silent
    <3> QED
      BY <1>2, <2>1, <3>1, FollowsSilence
  <2>5. CASE n # 0
    <3>1. n \in 1..Length
      BY <2>3, <2>5
    <3>2. Told(s) = [from |-> {m}, shown |-> n,
                     over |-> IF n = Length THEN "whole" ELSE "cut"]
      BY <2>2, <3>1
    <3> HIDE DEF m, n
    <3> QED
      BY <1>2, <2>1, <2>3, <3>1, <3>2 DEF Follows
  <2> QED
    BY <2>4, <2>5
<1>4. CASE Mixed(s) \/ s.refused
  <2>1. View(s) = Silent("cut")
    BY <1>1, <1>4 DEF View
  <2> QED
    BY <1>2, <2>1, FollowsSilence
<1> QED
  BY <1>3, <1>4

-----------------------------------------------------------------------------
(* The steps of a request.                                                   *)

\* A request goes on soundly, and as ModelReply lets it.
Advances(r, s) == s \in RequestRecord /\ Sound(s) /\ Follows(View(r), View(s))

PastRun == {"guard", "charge", "store"}

LEMMA SoundRun ==
    ASSUME NEW s, s.pc = "run", Tidy(s), Running(s)
    PROVE  Sound(s)
  BY DEF Sound

LEMMA SoundPast ==
    ASSUME NEW s, s.pc \in PastRun, Tidy(s), Handling(s)
    PROVE  Sound(s)
  BY DEF Sound, PastRun

LEMMA SoundDone ==
    ASSUME NEW s, s.pc = "done", AccountAgrees(s)
    PROVE  Sound(s)
  BY DEF Sound

LEMMA SoundFacts ==
    ASSUME NEW r, Sound(r)
    PROVE  /\ r.pc = "run" => Tidy(r) /\ Running(r) /\ r.end = None
           /\ r.pc \in PastRun => Tidy(r) /\ Handling(r) /\ r.end = None
  BY DEF Sound, PastRun, Running, Handling

\* A request that ends without an answer is charged nothing.
LEMMA EndsEarly ==
    ASSUME NEW r \in RequestRecord, NEW s \in RequestRecord, Tidy(r), SameReply(r, s),
           r.end = None, s.pc = "done", s.charged = None,
           \/ s.end \in {"error", "left"}
           \/ s.end = "blocked" /\ r.kind \notin Direct
    PROVE  Advances(r, s)
<1>1. AccountAgrees(s)
  BY DEF AccountAgrees
<1> QED
  BY <1>1, SoundDone, Stops DEF Advances

\* The record of an attempt that answers.
LEMMA Answering ==
    ASSUME NEW r \in RequestRecord
    PROVE  LET x == [r EXCEPT !.invoked = Current(r), !.triggered = r.pos > 1] IN
           /\ x \in RequestRecord /\ SameReply(r, x)
           /\ x.invoked = Current(r) /\ x.triggered = (r.pos > 1) /\ x.pc = r.pc
           /\ x.stats = r.stats /\ x.final = r.final /\ x.records = r.records
           /\ x.end = r.end /\ x.refused = r.refused /\ x.charged = r.charged
<1>1. Current(r) \in Models /\ (r.pos > 1) \in BOOLEAN
  BY CurrentFacts
<1> DEFINE m == Current(r)
           b == (r.pos > 1)
<1> HIDE DEF m, b
<1>2. m \in Models /\ b \in BOOLEAN
  BY <1>1 DEF m, b
<1>3. LET x == [r EXCEPT !.invoked = m, !.triggered = b] IN
           /\ x \in RequestRecord /\ SameReply(r, x)
           /\ x.invoked = m /\ x.triggered = b /\ x.pc = r.pc
           /\ x.stats = r.stats /\ x.final = r.final /\ x.records = r.records
           /\ x.end = r.end /\ x.refused = r.refused /\ x.charged = r.charged
  BY <1>2 DEF RequestRecord, SameReply
<1> QED
  BY <1>3 DEF m, b

LEMMA GatheredIs ==
    ASSUME NEW kind \in Kinds, NEW m \in Models, NEW n \in 0..Length, kind # "embed"
    PROVE  /\ n = Length => Gathered(kind, m, n) = Answered(kind, m)
           /\ n # Length /\ kind \notin ChatStreams => Gathered(kind, m, n) = {}
           /\ Gathered(kind, m, n) \in SUBSET All
           /\ Answered(kind, m) \in SUBSET All
           /\ Answered(kind, m) = {} \/ Answered(kind, m) = All
           /\ All # {}
<1>1. 1..n \subseteq 1..Length /\ 1 \in All
  BY ChainFacts DEF All
<1>2. All # {}
  BY <1>1
<1> QED
  BY <1>1, <1>2 DEF Gathered, Answered, All

\* The usage a stream of a chat or of a native model ends with.
LEMMA EndUsage ==
    ASSUME NEW r \in RequestRecord, Running(r), r.kind \in Streams,
           r.got[Current(r)] = Length
    PROVE  /\ r.stats = Answered(r.kind, Current(r))
           /\ r.kind \in ChatStreams /\ ~r.mixed =>
                 r.final = IF r.stats = {} THEN None ELSE LastUsage(Current(r), Length)
<1>1. r.kind \in Kinds /\ r.kind # "embed" /\ Current(r) \in Models /\ Length \in 0..Length
  BY CurrentFacts, ChainFacts DEF RequestRecord, Streams, ChatStreams, NativeStreams
<1>2. r.stats = Gathered(r.kind, Current(r), Length)
  BY DEF Running
<1> QED
  BY <1>1, <1>2, GatheredIs DEF Running

LEMMA StreamEndsAdvances ==
    ASSUME NEW r \in RequestRecord, Sound(r), StreamOver(r), r.kind \in ChatStreams,
           NEW s, s = Continued(Recorded(
               [r EXCEPT !.invoked = Current(r), !.triggered = r.pos > 1]), AfterStream(r))
    PROVE  Advances(r, s)
<1> DEFINE x == [r EXCEPT !.invoked = Current(r), !.triggered = r.pos > 1]
           y == Recorded(x)
           m == Current(r)
<1>1. Tidy(r) /\ Running(r) /\ r.end = None /\ r.got[m] = Length /\ r.kind \in Streams
  BY SoundFacts DEF StreamOver, ChatStreams, NativeStreams, Streams
<1>2. /\ x \in RequestRecord /\ SameReply(r, x) /\ x.invoked = m /\ x.triggered = (r.pos > 1)
      /\ x.stats = r.stats /\ x.final = r.final /\ x.records = 0 /\ x.charged = None
      /\ x.end = None /\ m \in Models
  BY <1>1, Answering, CurrentFacts DEF Running
<1> HIDE DEF x
<1>3. /\ y \in RequestRecord /\ SameReply(r, y) /\ y.final = r.final /\ y.charged = None
      /\ y.end = None
      /\ y.record = [model |-> m, units |-> r.stats, fallback |-> r.pos > 1]
  BY <1>2, RecordedIs DEF SameReply
<1>4. /\ AfterStream(r) \in PastRun
      /\ r.kind = "stream" => AfterStream(r) = IF r.final # None THEN "charge" ELSE "store"
      /\ r.kind = "buffered" => AfterStream(r) = "guard"
  BY DEF AfterStream, ChatStreams, PastRun
<1> HIDE DEF y
<1>5. /\ s \in RequestRecord /\ SameReply(r, s) /\ s.final = r.final /\ s.charged = None
      /\ s.record = y.record /\ s.pc = AfterStream(r) /\ s.end = None
  BY <1>3, <1>4, ContinuedIs DEF x, y, Alike, SameReply, PastRun
<1>6. Tidy(s) /\ Current(s) = m
  BY <1>1, <1>5, ReplyTidy
<1>7. r.kind \in {"stream", "buffered"}
  BY DEF ChatStreams
<1>8. Handling(s)
  BY <1>1, <1>3, <1>4, <1>5, <1>6, <1>7, EndUsage
     DEF Handling, SameReply, Charged, ChatStreams, NativeStreams, Direct
<1>9. Follows(View(r), View(s))
  BY <1>1, <1>5, GoesOn
<1> QED
  BY <1>4, <1>5, <1>6, <1>8, <1>9, SoundPast DEF Advances

LEMMA NativeStreamEndsAdvances ==
    ASSUME NEW r \in RequestRecord, Sound(r), StreamOver(r), r.kind \in NativeStreams,
           NEW s, s = Continued(Recorded(r), AfterStream(r))
    PROVE  Advances(r, s)
<1> DEFINE y == Recorded(r)
           m == Current(r)
           n == r.got[m]
<1>1. Tidy(r) /\ Running(r) /\ r.end = None /\ r.kind \in Streams /\ r.records = 0
      /\ r.charged = None
  BY SoundFacts DEF StreamOver, Streams, Running
<1>2. /\ r.invoked = m /\ m \in Models /\ r.triggered = (r.pos > 1) /\ n \in 0..Length
      /\ r.stats = Gathered(r.kind, m, n)
      /\ r.final = IF n = Length THEN [model |-> m, units |-> r.stats] ELSE None
  BY <1>1, CurrentFacts DEF Running, AlwaysRecorded
<1>3. /\ y \in RequestRecord /\ SameReply(r, y) /\ y.final = r.final /\ y.charged = None
      /\ y.end = None
      /\ y.record = [model |-> m, units |-> r.stats, fallback |-> r.pos > 1]
  BY <1>1, <1>2, RecordedIs DEF SameReply
<1>4. /\ r.kind \in {"live", "held"} /\ r.kind \notin ChatStreams /\ r.kind \in Kinds
      /\ r.kind # "embed"
  BY DEF NativeStreams, ChatStreams, Kinds, Streams
<1>5. AfterStream(r) = IF r.final = None THEN "done"
                       ELSE IF r.kind = "live" THEN "charge" ELSE "guard"
  BY <1>4 DEF AfterStream
<1> HIDE DEF y
<1>6. /\ s \in RequestRecord /\ SameReply(r, s) /\ s.final = r.final /\ s.charged = None
      /\ s.record = y.record /\ s.pc = AfterStream(r)
      /\ s.end = IF AfterStream(r) = "done" THEN "ok" ELSE None
  BY <1>3, <1>5, ContinuedIs DEF y, Alike, SameReply
<1>7. Tidy(s) /\ Current(s) = m
  BY <1>1, <1>6, ReplyTidy
<1>8. CASE n = Length
  <2>1. r.final # None
    <3>1. r.final \in UsageRecord \cup {None} /\ r.stats \in SUBSET All
      BY DEF RequestRecord
    <3>2. [model |-> m, units |-> r.stats] \in UsageRecord
      BY <3>1, <1>2 DEF UsageRecord
    <3> QED
      BY <3>2, <1>2, <1>8, NoneIsNoOther
  <2>2. s.pc \in PastRun /\ s.end = None
    BY <2>1, <1>5, <1>6 DEF PastRun
  <2>3. r.stats = Answered(r.kind, m)
    BY <1>2, <1>4, <1>8, GatheredIs
  <2>4. Handling(s)
    BY <2>1, <2>2, <2>3, <1>2, <1>3, <1>4, <1>5, <1>6, <1>7, <1>8
       DEF Handling, SameReply, Charged, NativeStreams, Direct
  <2>5. Follows(View(r), View(s))
    BY <1>1, <1>6, <2>2, GoesOn
  <2> QED
    BY <1>6, <1>7, <2>2, <2>4, <2>5, SoundPast DEF Advances
<1>9. CASE n # Length
  <2>1. s.pc = "done" /\ s.end = "ok"
    BY <1>2, <1>5, <1>6, <1>9
  <2>2. r.stats = {}
    BY <1>2, <1>4, <1>9, GatheredIs
  <2>3. AccountAgrees(s)
    BY <2>1, <2>2, <1>2, <1>3, <1>4, <1>6, <1>7, <1>9 DEF AccountAgrees, SameReply
  <2>4. Follows(View(r), View(s))
    <3>1. CASE r.kind = "live"
      BY <1>1, <1>6, <2>1, <3>1, Closes DEF Direct
    <3>2. CASE r.kind = "held"
      BY <1>1, <1>6, <1>7, <2>1, <3>2, Gives DEF Direct, SameReply
    <3> QED
      BY <1>4, <3>1, <3>2
  <2> QED
    BY <1>6, <2>1, <2>3, <2>4, SoundDone DEF Advances
<1> QED
  BY <1>8, <1>9

LEMMA TranscriptEndsAdvances ==
    ASSUME NEW r \in RequestRecord, Sound(r), StreamOver(r), r.kind = "transcript",
           NEW s, s = Continued(Recorded(
               [r EXCEPT !.invoked = Current(r), !.triggered = r.pos > 1]), AfterStream(r))
    PROVE  Advances(r, s)
<1> DEFINE x == [r EXCEPT !.invoked = Current(r), !.triggered = r.pos > 1]
           y == Recorded(x)
           m == Current(r)
<1>1. Tidy(r) /\ Running(r) /\ r.end = None /\ r.got[m] = Length /\ r.kind \in Streams
  BY SoundFacts DEF StreamOver, NativeStreams, Streams
<1>2. /\ x \in RequestRecord /\ SameReply(r, x) /\ x.invoked = m /\ x.triggered = (r.pos > 1)
      /\ x.stats = r.stats /\ x.final = r.final /\ x.records = 0 /\ x.charged = None
      /\ x.end = None /\ m \in Models
  BY <1>1, Answering, CurrentFacts DEF Running
<1> HIDE DEF x
<1>3. /\ y \in RequestRecord /\ SameReply(r, y) /\ y.charged = None
      /\ y.record = [model |-> m, units |-> r.stats, fallback |-> r.pos > 1]
  BY <1>2, RecordedIs DEF SameReply
<1>4. AfterStream(r) = "done"
  BY DEF AfterStream
<1> HIDE DEF y
<1>5. /\ s \in RequestRecord /\ SameReply(r, s) /\ s.charged = None
      /\ s.record = y.record /\ s.pc = "done" /\ s.end = "ok"
  BY <1>3, <1>4, ContinuedIs DEF x, y, Alike, SameReply
<1>6. Current(s) = m
  BY <1>1, <1>5, ReplyTidy
<1>7. AccountAgrees(s)
  BY <1>1, <1>3, <1>5, <1>6, EndUsage
     DEF AccountAgrees, SameReply, ApiOf, Kinds, Streams, ChatStreams, NativeStreams
<1>8. Follows(View(r), View(s))
  BY <1>1, <1>5, Closes DEF Direct
<1> QED
  BY <1>5, <1>7, <1>8, SoundDone DEF Advances

\* A call that does not stream has one model's reply, whole.
LEMMA AnswerTidy ==
    ASSUME NEW r \in RequestRecord, Tidy(r), Running(r), r.kind \notin Streams,
           NEW s, s.pos = r.pos, s.mixed = r.mixed, s.kind = r.kind,
           s.got = [r.got EXCEPT ![Current(r)] = Length], s.first = Current(r)
    PROVE  Tidy(s) /\ ~s.mixed /\ Current(s) = Current(r) /\ s.got[Current(r)] = Length
<1> DEFINE m == Current(r)
<1>1. m \in Models /\ r.got \in [Models -> 0..Length] /\ r.got = Nothing /\ m = Chain[r.pos]
      /\ Current(s) = m /\ r.pos \in 1..Len(Chain)
  BY CurrentFacts DEF Running, Current, RequestRecord
<1>2. ~r.mixed
  BY DEF Tidy, Streams
<1>3. s.got[m] = Length /\ \A n \in Models \ {m} : s.got[n] = 0
  BY <1>1 DEF Nothing
<1>4. \A i \in 1..Len(Chain) : i > r.pos => Chain[i] \in Models \ {m}
  BY <1>1, ChainFacts
<1> QED
  BY <1>1, <1>2, <1>3, <1>4, ChainFacts DEF Tidy

LEMMA AnsweredByOK ==
    ASSUME NEW r \in RequestRecord, Tidy(r), Running(r), r.kind \notin Streams
    PROVE  LET s == AnsweredBy(r)
               m == Current(r)
               usage == Answered(r.kind, m)
           IN
           /\ s \in RequestRecord /\ Tidy(s) /\ ~s.mixed /\ Current(s) = m
           /\ s.kind = r.kind /\ s.pos = r.pos /\ s.got[m] = Length /\ s.end = None
           /\ s.final = [model |-> m, units |-> usage] /\ s.stats = usage
           /\ s.charged = None /\ s.records = 0 /\ m \in Models
           /\ Recorded(s) \in RequestRecord /\ SameReply(s, Recorded(s))
           /\ Recorded(s).final = s.final /\ Recorded(s).charged = None
           /\ Recorded(s).end = None
           /\ Recorded(s).record = [model |-> m, units |-> usage, fallback |-> r.pos > 1]
<1> DEFINE s == AnsweredBy(r)
           m == Current(r)
           usage == Answered(r.kind, m)
<1>1. m \in Models /\ r.records = 0 /\ r.charged = None /\ r.end = None
  BY CurrentFacts DEF Running
<1>2. /\ s \in RequestRecord
      /\ s.got = [r.got EXCEPT ![m] = Length] /\ s.first = m /\ s.stats = usage
      /\ s.final = [model |-> m, units |-> usage] /\ s.invoked = m
      /\ s.triggered = (r.pos > 1)
      /\ s.kind = r.kind /\ s.pc = r.pc /\ s.pos = r.pos /\ s.mixed = r.mixed
      /\ s.refused = r.refused /\ s.end = r.end /\ s.charged = r.charged
      /\ s.records = r.records /\ s.record = r.record
  BY AnsweredByIs
<1> HIDE DEF s
<1>3. Tidy(s) /\ ~s.mixed /\ Current(s) = m /\ s.got[m] = Length
  BY <1>2, AnswerTidy
<1>4. /\ Recorded(s) \in RequestRecord /\ SameReply(s, Recorded(s))
      /\ Recorded(s).final = s.final /\ Recorded(s).charged = None
      /\ Recorded(s).end = None
      /\ Recorded(s).record = [model |-> m, units |-> usage, fallback |-> r.pos > 1]
  BY <1>1, <1>2, RecordedIs DEF SameReply
<1> QED
  BY <1>1, <1>2, <1>3, <1>4 DEF s

\* While the handler works on the answer of a call, the client sees nothing.
LEMMA Hidden ==
    ASSUME NEW r \in RequestRecord, NEW s \in RequestRecord, r.kind \notin Direct,
           s.kind = r.kind, r.end = None, s.end = None
    PROVE  Follows(View(r), View(s))
  BY ViewOpen, FollowsSame

LEMMA CompletesAdvances ==
    ASSUME NEW r \in RequestRecord, Sound(r), r.pc = "run", r.kind = "complete",
           NEW s, s = IF AnsweredBy(r).stats = {} THEN Continued(AnsweredBy(r), "guard")
                      ELSE Continued(Recorded(AnsweredBy(r)), "charge")
    PROVE  Advances(r, s)
<1> DEFINE x == AnsweredBy(r)
           y == Recorded(x)
           m == Current(r)
           usage == Answered(r.kind, m)
<1>1. Tidy(r) /\ Running(r) /\ r.end = None
  BY SoundFacts
<1>2. r.kind \notin Streams /\ r.kind \notin Direct
  BY DEF Streams, ChatStreams, NativeStreams, Direct
<1>3. /\ x \in RequestRecord /\ Tidy(x) /\ ~x.mixed /\ Current(x) = m
      /\ x.kind = r.kind /\ x.pos = r.pos /\ x.got[m] = Length /\ x.end = None
      /\ x.final = [model |-> m, units |-> usage] /\ x.stats = usage
      /\ x.charged = None /\ x.records = 0 /\ m \in Models
      /\ y \in RequestRecord /\ SameReply(x, y) /\ y.final = x.final
      /\ y.charged = None /\ y.end = None
      /\ y.record = [model |-> m, units |-> usage, fallback |-> r.pos > 1]
  BY <1>1, <1>2, AnsweredByOK
<1>0. s = IF usage = {} THEN Continued(x, "guard") ELSE Continued(y, "charge")
  BY AnsweredByIs
<1> HIDE DEF x, y, usage
<1>4. /\ s \in RequestRecord /\ SameReply(x, s) /\ s.final = x.final /\ s.charged = None
      /\ s.end = None
      /\ s.pc = IF usage = {} THEN "guard" ELSE "charge"
      /\ usage = {} => s.records = 0
      /\ usage # {} => s.record = y.record
  <2>1. /\ x \in RequestRecord /\ x.end = None /\ x.charged = None /\ x.records = 0
        /\ y \in RequestRecord /\ SameReply(x, y) /\ y.final = x.final
        /\ y.charged = None /\ y.end = None
    BY <1>3
  <2>2. CASE usage = {}
    <3>1. s \in RequestRecord /\ Alike(x, s) /\ s.pc = "guard" /\ s.end = None
      BY <2>1, <2>2, <1>0, ContinuedIs
    <3> QED
      BY <2>1, <2>2, <3>1 DEF Alike, SameReply
  <2>3. CASE usage # {}
    <3>1. s \in RequestRecord /\ Alike(y, s) /\ s.pc = "charge" /\ s.end = None
      BY <2>1, <2>3, <1>0, ContinuedIs
    <3> QED
      BY <2>1, <2>3, <3>1 DEF Alike, SameReply
  <2> QED
    BY <2>2, <2>3
<1>5. Tidy(s) /\ Current(s) = m
  BY <1>3, <1>4, ReplyTidy
<1>6. Handling(s)
  BY ZenonT(60), <1>2, <1>3, <1>4, <1>5
     DEF Handling, SameReply, Charged, Direct, ChatStreams, NativeStreams, usage
<1>7. Follows(View(r), View(s))
  BY <1>1, <1>2, <1>3, <1>4, Hidden DEF SameReply
<1> QED
  BY <1>4, <1>5, <1>6, <1>7, SoundPast DEF Advances, PastRun

LEMMA RespondsAdvances ==
    ASSUME NEW r \in RequestRecord, Sound(r), r.pc = "run", r.kind = "response",
           NEW s, s = Continued(Recorded(AnsweredBy(r)), "guard")
    PROVE  Advances(r, s)
<1> DEFINE x == AnsweredBy(r)
           y == Recorded(x)
           m == Current(r)
           usage == Answered(r.kind, m)
<1>1. Tidy(r) /\ Running(r) /\ r.end = None
  BY SoundFacts
<1>2. r.kind \notin Streams /\ r.kind \notin Direct
  BY DEF Streams, ChatStreams, NativeStreams, Direct
<1>3. /\ x \in RequestRecord /\ Tidy(x) /\ ~x.mixed /\ Current(x) = m
      /\ x.kind = r.kind /\ x.pos = r.pos /\ x.got[m] = Length
      /\ x.final = [model |-> m, units |-> usage] /\ m \in Models
      /\ y \in RequestRecord /\ SameReply(x, y) /\ y.final = x.final
      /\ y.charged = None /\ y.end = None
      /\ y.record = [model |-> m, units |-> usage, fallback |-> r.pos > 1]
  BY <1>1, <1>2, AnsweredByOK
<1>0. s = Continued(y, "guard")
  OBVIOUS
<1> HIDE DEF x, y, usage
<1>4. /\ s \in RequestRecord /\ SameReply(x, s) /\ s.final = x.final /\ s.charged = None
      /\ s.end = None /\ s.pc = "guard" /\ s.record = y.record
  <2>1. /\ y \in RequestRecord /\ SameReply(x, y) /\ y.final = x.final
        /\ y.charged = None /\ y.end = None
    BY <1>3
  <2>2. s \in RequestRecord /\ Alike(y, s) /\ s.pc = "guard" /\ s.end = None
    BY <2>1, <1>0, ContinuedIs
  <2> QED
    BY <2>1, <2>2 DEF Alike, SameReply
<1>5. Tidy(s) /\ Current(s) = m
  BY <1>3, <1>4, ReplyTidy
<1>6. Handling(s)
  BY <1>2, <1>3, <1>4, <1>5
     DEF Handling, SameReply, Charged, Direct, ChatStreams, NativeStreams, usage
<1>7. Follows(View(r), View(s))
  BY <1>1, <1>2, <1>3, <1>4, Hidden DEF SameReply
<1> QED
  BY <1>4, <1>5, <1>6, <1>7, SoundPast DEF Advances, PastRun

\* An embedding and a transcription are not charged by what is modelled here.
LEMMA PlainAdvances ==
    ASSUME NEW r \in RequestRecord, Sound(r), r.pc = "run",
           r.kind \in {"embed", "transcribe"},
           NEW s, s = Ended(Recorded(AnsweredBy(r)), "ok")
    PROVE  Advances(r, s)
<1> DEFINE x == AnsweredBy(r)
           y == Recorded(x)
           m == Current(r)
           usage == Answered(r.kind, m)
<1>1. Tidy(r) /\ Running(r) /\ r.end = None
  BY SoundFacts
<1>2. r.kind \notin Streams /\ r.kind \notin Direct /\ ApiOf[r.kind] = None
  BY DEF Streams, ChatStreams, NativeStreams, Direct, ApiOf, Kinds, Calls
<1>3. /\ x \in RequestRecord /\ Tidy(x) /\ ~x.mixed /\ Current(x) = m
      /\ x.kind = r.kind /\ x.pos = r.pos /\ x.got[m] = Length /\ m \in Models
      /\ y \in RequestRecord /\ SameReply(x, y) /\ y.charged = None
      /\ y.record = [model |-> m, units |-> usage, fallback |-> r.pos > 1]
  BY <1>1, <1>2, AnsweredByOK
<1>0. s = Ended(y, "ok")
  OBVIOUS
<1> HIDE DEF x, y, usage
<1>4. /\ s \in RequestRecord /\ SameReply(x, s) /\ s.charged = None
      /\ s.end = "ok" /\ s.pc = "done" /\ s.record = y.record
  <2>1. y \in RequestRecord /\ SameReply(x, y) /\ y.charged = None
    BY <1>3
  <2>2. /\ s \in RequestRecord /\ Alike(y, s) /\ s.pc = "done" /\ s.end = "ok"
    BY <2>1, <1>0, EndedIs
  <2> QED
    BY <2>1, <2>2 DEF Alike, SameReply
<1>5. Tidy(s) /\ Current(s) = m
  BY <1>3, <1>4, ReplyTidy
<1>6. AccountAgrees(s)
  BY <1>2, <1>3, <1>4, <1>5 DEF AccountAgrees, SameReply, usage
<1>7. Follows(View(r), View(s))
  BY <1>1, <1>2, <1>3, <1>4, <1>5, Gives DEF SameReply
<1> QED
  BY <1>4, <1>6, <1>7, SoundDone DEF Advances

\* The next fallback is a later model of the chain.
LEMMA NextFacts ==
    ASSUME NEW r \in RequestRecord, Later(r) # {}
    PROVE  /\ Soonest(Later(r)) \in 1..Len(Chain)
           /\ Soonest(Later(r)) > r.pos
           /\ Chain[Soonest(Later(r))] \in Models
<1>1. Later(r) \subseteq Nat
  BY ChainFacts DEF Later
<1>2. Soonest(Later(r)) \in Later(r)
  BY <1>1, SoonestIsLeast
<1> QED
  BY <1>2, ChainFacts DEF Later

LEMMA NextAttemptIs ==
    ASSUME NEW r \in RequestRecord, Later(r) # {}
    PROVE  LET s == NextAttempt(r)
               next == Soonest(Later(r))
           IN
           /\ s \in RequestRecord /\ s.pos = next /\ s.stats = {}
           /\ s.final = IF r.kind \in ChatStreams THEN r.final ELSE None
           /\ s.invoked = IF r.kind \in AlwaysRecorded THEN Chain[next] ELSE r.invoked
           /\ s.triggered = (r.triggered \/ r.kind \in NativeStreams)
           /\ s.mixed = (r.mixed \/ r.got # Nothing)
           /\ s.kind = r.kind /\ s.pc = r.pc /\ s.got = r.got /\ s.first = r.first
           /\ s.refused = r.refused /\ s.end = r.end /\ s.records = r.records
           /\ s.charged = r.charged
<1> DEFINE next == Soonest(Later(r))
           final == IF r.kind \in ChatStreams THEN r.final ELSE None
           invoked == IF r.kind \in AlwaysRecorded THEN Chain[next] ELSE r.invoked
           triggered == r.triggered \/ r.kind \in NativeStreams
           mixed == r.mixed \/ r.got # Nothing
<1>1. /\ next \in 1..Len(Chain) /\ final \in UsageRecord \cup {None}
      /\ invoked \in Models \cup {None} /\ triggered \in BOOLEAN /\ mixed \in BOOLEAN
      /\ {} \in SUBSET All
  BY NextFacts DEF RequestRecord
<1>2. NextAttempt(r) = [r EXCEPT !.pos = next, !.stats = {}, !.final = final,
                           !.invoked = invoked, !.triggered = triggered, !.mixed = mixed]
  BY DEF NextAttempt, RequestRecord
<1> HIDE DEF next, final, invoked, triggered, mixed
<1>3. NextAttempt(r) \in RequestRecord
  BY ZenonT(60), <1>1, <1>2 DEF RequestRecord
<1>4. LET s == NextAttempt(r) IN
      /\ s.pos = next /\ s.stats = {} /\ s.final = final /\ s.invoked = invoked
      /\ s.triggered = triggered /\ s.mixed = mixed
      /\ s.kind = r.kind /\ s.pc = r.pc /\ s.got = r.got /\ s.first = r.first
      /\ s.refused = r.refused /\ s.end = r.end /\ s.records = r.records
      /\ s.charged = r.charged
  BY <1>2 DEF RequestRecord
<1> QED
  BY <1>3, <1>4 DEF next, final, invoked, triggered, mixed

\* A later model has given nothing yet.
LEMMA NextTidy ==
    ASSUME NEW r \in RequestRecord, Tidy(r), NEW s, NEW next \in 1..Len(Chain),
           next > r.pos, s.pos = next, s.kind = r.kind, s.got = r.got, s.first = r.first,
           s.mixed = (r.mixed \/ r.got # Nothing),
           s.mixed => r.kind \in ChatStreams \cup {"transcript"}
    PROVE  Tidy(s) /\ Current(s) = Chain[next] /\ s.got[Current(s)] = 0
<1> DEFINE m == Current(r)
           n == Chain[next]
<1>1. /\ r.pos \in 1..Len(Chain) /\ r.got \in [Models -> 0..Length] /\ m = Chain[r.pos]
      /\ m \in Models /\ Current(s) = n /\ n \in Models /\ n # m
      /\ r.mixed \in BOOLEAN /\ Len(Chain) \in Nat
  BY ChainFacts DEF RequestRecord, Current
<1>2. \A i \in 1..Len(Chain) : i > next => r.got[Chain[i]] = 0
  BY <1>1 DEF Tidy
<1>3. r.got[n] = 0
  BY <1>1 DEF Tidy
<1>4. CASE ~s.mixed
  <2>1. r.got = Nothing /\ ~r.mixed
    BY <1>4
  <2>2. r.first = None /\ \A k \in Models : r.got[k] = 0
    BY <2>1, <1>1 DEF Tidy, Nothing
  <2> QED
    BY <1>1, <1>2, <1>3, <1>4, <2>2 DEF Tidy
<1>5. CASE s.mixed
  <2>1. CASE r.mixed
    BY <1>1, <1>2, <1>3, <1>5, <2>1 DEF Tidy
  <2>2. CASE ~r.mixed
    <3>1. r.got # Nothing
      BY <1>5, <2>2
    <3>2. PICK k \in Models : r.got[k] # 0
      BY <3>1, <1>1 DEF Nothing
    <3>3. r.got[m] > 0
      BY <3>2, <2>2, <1>1 DEF Tidy
    <3>4. r.first = m
      BY <3>3, <2>2 DEF Tidy
    <3>5. \A i \in 1..Len(Chain) : i >= next => Chain[i] # m
      BY <1>1, ChainFacts
    <3> QED
      BY <1>1, <1>2, <1>3, <1>5, <3>3, <3>4, <3>5 DEF Tidy
  <2> QED
    BY <2>1, <2>2, <1>1
<1> QED
  BY <1>1, <1>3, <1>4, <1>5

LEMMA NotMixedFirst ==
    ASSUME NEW r \in RequestRecord, Tidy(r), ~r.mixed, r.got # Nothing
    PROVE  r.first = Current(r) /\ r.got[Current(r)] > 0
<1>1. PICK k \in Models : r.got[k] # 0
  BY CurrentFacts DEF Nothing
<1> QED
  BY <1>1, CurrentFacts DEF Tidy

LEMMA FallsBack ==
    ASSUME NEW r \in RequestRecord, Sound(r), r.pc = "run", r.kind # "decide",
           MayFallBack(r), NEW s, s = NextAttempt(r)
    PROVE  Advances(r, s)
<1> DEFINE next == Soonest(Later(r))
           m == Current(r)
<1>1. Tidy(r) /\ Running(r) /\ r.end = None
  BY SoundFacts
<1>2. next \in 1..Len(Chain) /\ next > r.pos /\ Chain[next] \in Models
  BY NextFacts DEF MayFallBack
<1>3. /\ s \in RequestRecord /\ s.pos = next /\ s.stats = {}
      /\ s.final = IF r.kind \in ChatStreams THEN r.final ELSE None
      /\ s.invoked = IF r.kind \in AlwaysRecorded THEN Chain[next] ELSE r.invoked
      /\ s.triggered = (r.triggered \/ r.kind \in NativeStreams)
      /\ s.mixed = (r.mixed \/ r.got # Nothing)
      /\ s.kind = r.kind /\ s.pc = r.pc /\ s.got = r.got /\ s.first = r.first
      /\ s.refused = r.refused /\ s.end = r.end /\ s.records = r.records
      /\ s.charged = r.charged
  BY NextAttemptIs DEF MayFallBack
<1>4. /\ r.mixed => r.kind \in ChatStreams \cup {"transcript"}
      /\ r.kind \notin ChatStreams \cup {"transcript"} => r.got = Nothing
      /\ r.kind \in Kinds /\ r.pos >= 1 /\ r.pos \in Nat
  BY <1>1, CurrentFacts
     DEF Tidy, Running, MayFallBack, Streams, ChatStreams, NativeStreams, RequestRecord
<1> HIDE DEF next
<1>5. Tidy(s) /\ Current(s) = Chain[next] /\ s.got[Current(s)] = 0
  BY ZenonT(60), <1>1, <1>2, <1>3, <1>4, NextTidy
<1>6. Running(s)
  <2> DEFINE k == Chain[next]
  <2>1. Gathered(r.kind, k, 0) = {}
    BY ChainFacts DEF Gathered
  <2>2. ~s.mixed => \/ r.stats = {} /\ r.got = Nothing /\ ~r.mixed
                    \/ r.kind \notin ChatStreams
    <3> SUFFICES ASSUME ~s.mixed, r.kind \in ChatStreams
                 PROVE  r.stats = {} /\ r.got = Nothing /\ ~r.mixed
      OBVIOUS
    <3>1. r.got = Nothing /\ ~r.mixed
      BY <1>3
    <3>2. r.got[m] = 0
      BY <3>1, CurrentFacts DEF Nothing
    <3>3. r.stats = Gathered(r.kind, m, 0)
      BY <1>1, <3>2 DEF Running, Streams
    <3>4. r.stats = {}
      BY <3>3, ChainFacts DEF Gathered
    <3> QED
      BY <3>1, <3>4
  <2>3. s.end = None /\ s.records = 0 /\ s.charged = None /\ ~s.refused
    BY <1>1, <1>3 DEF Running
  <2>4. r.kind \notin Streams => s.got = Nothing
    BY <1>1, <1>3 DEF Running
  <2>5. r.kind \in NativeStreams => s.final = None /\ s.triggered = (next > 1)
    BY <1>2, <1>3, <1>4 DEF ChatStreams, NativeStreams
  <2>6. r.kind \in ChatStreams /\ ~s.mixed => s.final = None
    BY <2>2, <1>1, <1>3 DEF Running
  <2>7. r.kind \in AlwaysRecorded => s.invoked = k
    BY <1>3
  <2> QED
    BY <1>3, <1>5, <2>1, <2>3, <2>4, <2>5, <2>6, <2>7, ChainFacts DEF Running
<1>7. Follows(View(r), View(s))
  <2>1. View(r) = IF r.kind \in Direct THEN Told(r) ELSE Silent("no")
    BY <1>1, ViewOpen
  <2>2. View(s) = IF r.kind \in Direct THEN Told(s) ELSE Silent("no")
    BY <1>1, <1>3, ViewOpen
  <2>3. CASE r.mixed
    <3>1. s.mixed
      BY <1>3, <2>3
    <3>2. Told(s) = Told(r)
      BY <1>1, <1>3, <1>5, <2>3, <3>1, ToldIs
    <3> QED
      BY <2>1, <2>2, <3>2, FollowsSame
  <2>4. CASE ~r.mixed /\ r.got = Nothing
    <3>1. ~s.mixed /\ r.got[m] = 0
      BY <1>3, <2>4, CurrentFacts DEF Nothing
    <3>2. Told(s) = Told(r)
      BY <1>1, <1>3, <1>5, <2>4, <3>1, ToldIs
    <3> QED
      BY <2>1, <2>2, <3>2, FollowsSame
  <2>5. CASE ~r.mixed /\ r.got # Nothing
    <3> DEFINE v == Told(r)
    <3>1. s.mixed /\ r.first = m /\ r.got[m] > 0
      BY <1>1, <1>3, <2>5, NotMixedFirst
    <3>2. v = [from |-> {m}, shown |-> r.got[m], over |-> "no"]
      BY <1>1, <2>5, <3>1, ToldIs, NoneIsNoOther
    <3>3. Told(s) = [from |-> {m}, shown |-> r.got[m], over |-> "cut"]
      BY <1>3, <1>5, <3>1, ToldIs
    <3>4. v.over = "no" /\ Told(s) = [from |-> v.from, shown |-> v.shown, over |-> "cut"]
      BY <3>2, <3>3
    <3> HIDE DEF v
    <3>5. Follows(v, Told(s))
      BY <3>4, FollowsStop
    <3> QED
      BY <2>1, <2>2, <3>5, FollowsSame DEF v
  <2> QED
    BY <2>3, <2>4, <2>5 DEF RequestRecord
<1> QED
  BY <1>3, <1>5, <1>6, <1>7, SoundRun DEF Advances

\* Recorded or not, a request that breaks ends.
LEMMA FailsAdvances ==
    ASSUME NEW r \in RequestRecord, Sound(r), r.pc = "run", NEW how \in {"error", "left"},
           NEW s, \/ s = Ended(r, how)
                  \/ r.kind \in AlwaysRecorded /\ s = Ended(Recorded(r), how)
    PROVE  Advances(r, s)
<1>1. Tidy(r) /\ Running(r) /\ r.end = None /\ r.charged = None
  BY SoundFacts DEF Running
<1>2. CASE s = Ended(r, how)
  <2>1. s \in RequestRecord /\ Alike(r, s) /\ s.pc = "done" /\ s.end = how
    BY <1>2, EndedIs
  <2>2. SameReply(r, s) /\ s.charged = None
    BY <2>1, <1>1 DEF Alike, SameReply
  <2> QED
    BY <1>1, <2>1, <2>2, EndsEarly
<1>3. CASE r.kind \in AlwaysRecorded /\ s = Ended(Recorded(r), how)
  <2> DEFINE y == Recorded(r)
  <2>1. r.records = 0 /\ r.invoked \in Models
    BY <1>1, <1>3, CurrentFacts DEF Running
  <2>2. y \in RequestRecord /\ SameReply(r, y) /\ y.charged = None
    BY <1>1, <2>1, RecordedIs DEF SameReply
  <2> HIDE DEF y
  <2>3. s = Ended(y, how)
    BY <1>3 DEF y
  <2>4. s \in RequestRecord /\ Alike(y, s) /\ s.pc = "done" /\ s.end = how
    BY <2>2, <2>3, EndedIs
  <2>5. SameReply(r, s) /\ s.charged = None
    BY <2>2, <2>4 DEF Alike, SameReply
  <2> QED
    BY <1>1, <2>4, <2>5, EndsEarly
<1> QED
  BY <1>2, <1>3

\* A decision model was asked; what it said is not told yet.
Asked(r, seen) ==
    /\ seen \in RequestRecord /\ SameReply(r, seen) /\ seen.pc = "run"
    /\ seen.triggered = (r.pos > 1) /\ seen.charged = None /\ seen.records = 0
    /\ seen.end = None /\ seen.refused = r.refused

LEMMA DecisionFacts ==
    ASSUME NEW r \in RequestRecord, Sound(r), r.pc = "run", r.kind = "decide"
    PROVE  /\ Tidy(r) /\ Running(r) /\ r.end = None /\ r.charged = None /\ r.records = 0
           /\ r.got = Nothing /\ ~r.refused
           /\ r.kind \notin Streams /\ r.kind \notin Direct /\ ApiOf[r.kind] = None
           /\ ~r.mixed /\ r.kind \notin AlwaysRecorded
<1>1. Tidy(r) /\ Running(r) /\ r.end = None /\ r.charged = None /\ r.records = 0
      /\ r.got = Nothing /\ ~r.refused
  BY SoundFacts DEF Running, Streams, ChatStreams, NativeStreams
<1> QED
  BY <1>1 DEF Tidy, Streams, ChatStreams, NativeStreams, Direct, ApiOf, Kinds, Calls,
              AlwaysRecorded

LEMMA AskedIs ==
    ASSUME NEW r \in RequestRecord, Sound(r), r.pc = "run", r.kind = "decide", NEW outcome,
           NEW seen, seen = [r EXCEPT !.invoked = IF outcome = "none" THEN @ ELSE Current(r),
                                      !.triggered = r.pos > 1]
    PROVE  Asked(r, seen) /\ (outcome = "success" => seen.invoked = Current(r))
<1> DEFINE m == Current(r)
           invoked == IF outcome = "none" THEN r.invoked ELSE m
           b == (r.pos > 1)
<1>1. r.end = None /\ r.charged = None /\ r.records = 0 /\ m \in Models /\ b \in BOOLEAN
  BY DecisionFacts, CurrentFacts
<1>2. invoked \in Models \cup {None}
  BY <1>1 DEF RequestRecord
<1>3. seen = [r EXCEPT !.invoked = invoked, !.triggered = b]
  OBVIOUS
<1>4. outcome = "success" => invoked = m
  OBVIOUS
<1> HIDE DEF invoked, b
<1>5. /\ seen \in RequestRecord /\ SameReply(r, seen) /\ seen.pc = "run"
      /\ seen.invoked = invoked /\ seen.triggered = b /\ seen.charged = None
      /\ seen.records = 0 /\ seen.end = None /\ seen.refused = r.refused
  BY ZenonT(60), <1>1, <1>2, <1>3 DEF RequestRecord, SameReply
<1> QED
  BY <1>4, <1>5 DEF Asked, b

\* What a success leaves of a request, before it is recorded.
Success(r, seen) ==
    [seen EXCEPT !.got[Current(r)] = Length, !.first = Current(r),
                 !.stats = Answered(r.kind, Current(r))]

Given(r, got, m, usage) == [r EXCEPT !.got = got, !.first = m, !.stats = usage]

LEMMA GivenFields ==
    ASSUME NEW r \in RequestRecord, NEW got \in [Models -> 0..Length],
           NEW m \in Models, NEW usage \in SUBSET All,
           NEW x, x = Given(r, got, m, usage)
    PROVE  /\ x \in RequestRecord /\ x.got = got /\ x.first = m /\ x.stats = usage
           /\ x.pos = r.pos /\ x.kind = r.kind /\ x.mixed = r.mixed
           /\ x.charged = r.charged /\ x.records = r.records
           /\ x.invoked = r.invoked /\ x.triggered = r.triggered
<1>1. x \in RequestRecord
  BY DEF RequestRecord, Given
<1> QED
  BY <1>1 DEF RequestRecord, Given

LEMMA DecisionIs ==
    ASSUME NEW r \in RequestRecord, NEW seen, Asked(r, seen), seen.invoked = Current(r),
           NEW x, x = Success(r, seen)
    PROVE  /\ x \in RequestRecord
           /\ x.got = [r.got EXCEPT ![Current(r)] = Length]
           /\ x.first = Current(r) /\ x.stats = Answered(r.kind, Current(r))
           /\ x.pos = r.pos /\ x.kind = r.kind /\ x.mixed = r.mixed /\ x.charged = None
           /\ x.records = 0 /\ x.invoked = Current(r) /\ x.triggered = (r.pos > 1)
<1> DEFINE m == Current(r)
           got == [r.got EXCEPT ![m] = Length]
           usage == Answered(r.kind, m)
           b == (r.pos > 1)
<1>1. got \in [Models -> 0..Length] /\ usage \in SUBSET All /\ m \in Models
  BY CurrentFacts, ChainFacts DEF Answered
<1>2. seen.got = r.got /\ seen.pos = r.pos /\ seen.kind = r.kind /\ seen.mixed = r.mixed
      /\ seen \in RequestRecord /\ seen.charged = None /\ seen.records = 0
      /\ seen.invoked = m /\ seen.triggered = b
  BY DEF Asked, SameReply
<1>3. x = Given(seen, got, m, usage)
  BY <1>2 DEF Success, Given
<1> HIDE DEF m, got, usage, b
<1>4. /\ x \in RequestRecord /\ x.got = got /\ x.first = m /\ x.stats = usage
      /\ x.pos = r.pos /\ x.kind = r.kind /\ x.mixed = r.mixed /\ x.charged = None
      /\ x.records = 0 /\ x.invoked = m /\ x.triggered = b
  <2>1. seen \in RequestRecord
    BY <1>2
  <2>2. /\ x \in RequestRecord /\ x.got = got /\ x.first = m /\ x.stats = usage
        /\ x.pos = seen.pos /\ x.kind = seen.kind /\ x.mixed = seen.mixed
        /\ x.charged = seen.charged /\ x.records = seen.records
        /\ x.invoked = seen.invoked /\ x.triggered = seen.triggered
    BY <1>1, <1>3, <2>1, GivenFields
  <2> QED
    BY <1>2, <2>2
<1> QED
  BY <1>4 DEF m, got, usage, b

LEMMA DecidesWell ==
    ASSUME NEW r \in RequestRecord, Sound(r), r.pc = "run", r.kind = "decide",
           NEW seen, Asked(r, seen), seen.invoked = Current(r),
           NEW s, s = Ended(Recorded(Success(r, seen)), "ok")
    PROVE  Advances(r, s)
<1> DEFINE m == Current(r)
           usage == Answered(r.kind, m)
           x == Success(r, seen)
           y == Recorded(x)
<1>1. /\ x \in RequestRecord
      /\ x.got = [r.got EXCEPT ![Current(r)] = Length]
      /\ x.first = Current(r) /\ x.stats = Answered(r.kind, Current(r))
      /\ x.pos = r.pos /\ x.kind = r.kind /\ x.mixed = r.mixed /\ x.charged = None
      /\ x.records = 0 /\ x.invoked = Current(r) /\ x.triggered = (r.pos > 1)
  BY DecisionIs
<1>2. s = Ended(y, "ok")
  OBVIOUS
<1>3. /\ Tidy(r) /\ Running(r) /\ r.end = None /\ ~r.mixed
      /\ r.kind \notin Streams /\ r.kind \notin Direct /\ ApiOf[r.kind] = None
  BY DecisionFacts
<1> HIDE DEF x
<1>4. Tidy(x) /\ Current(x) = m /\ x.got[m] = Length /\ m \in Models
  BY <1>1, <1>3, AnswerTidy, CurrentFacts
<1>5. /\ y \in RequestRecord /\ SameReply(x, y) /\ y.charged = None
      /\ y.record = [model |-> m, units |-> usage, fallback |-> r.pos > 1]
  BY <1>1, <1>4, RecordedIs DEF SameReply
<1> HIDE DEF y
<1>6. s \in RequestRecord /\ Alike(y, s) /\ s.pc = "done" /\ s.end = "ok"
  BY <1>2, <1>5, EndedIs
<1>7. SameReply(x, s) /\ s.charged = None /\ s.record = y.record
  BY <1>5, <1>6 DEF Alike, SameReply
<1>8. Tidy(s) /\ Current(s) = m
  BY <1>4, <1>7, ReplyTidy
<1>9. AccountAgrees(s)
  <2>1. /\ s.got[m] = Length /\ s.kind = "decide" /\ s.pos = r.pos /\ Current(s) = m
        /\ s.record = [model |-> m, units |-> usage, fallback |-> r.pos > 1]
    BY <1>1, <1>4, <1>5, <1>7, <1>8 DEF SameReply
  <2>2. ApiOf[s.kind] = None
    BY <1>3, <2>1
  <2> HIDE DEF m
  <2> QED
    BY <1>6, <1>7, <2>1, <2>2 DEF AccountAgrees
<1>10. Follows(View(r), View(s))
  BY <1>1, <1>3, <1>6, <1>7, <1>8, Gives DEF SameReply
<1> QED
  BY <1>6, <1>9, <1>10, SoundDone DEF Advances

LEMMA DecidesBadly ==
    ASSUME NEW r \in RequestRecord, Sound(r), r.pc = "run", r.kind = "decide",
           NEW seen, Asked(r, seen), NEW s, s = Ended(seen, "error")
    PROVE  Advances(r, s)
<1>1. Tidy(r) /\ r.end = None
  BY DecisionFacts
<1>2. s \in RequestRecord /\ Alike(seen, s) /\ s.pc = "done" /\ s.end = "error"
  BY EndedIs DEF Asked
<1>3. SameReply(r, s) /\ s.charged = None
  BY <1>2 DEF Asked, Alike, SameReply
<1> QED
  BY <1>1, <1>2, <1>3, EndsEarly

LEMMA DecidesLater ==
    ASSUME NEW r \in RequestRecord, Sound(r), r.pc = "run", r.kind = "decide",
           NEW seen, Asked(r, seen), Later(r) # {},
           NEW s, s = [seen EXCEPT !.pos = Soonest(Later(r))]
    PROVE  Advances(r, s)
<1> DEFINE next == Soonest(Later(r))
<1>1. /\ Tidy(r) /\ Running(r) /\ r.end = None /\ r.charged = None /\ r.records = 0
      /\ r.got = Nothing /\ ~r.refused
      /\ r.kind \notin Streams /\ r.kind \notin Direct
      /\ ~r.mixed /\ r.kind \notin AlwaysRecorded
  BY DecisionFacts
<1>2. next \in 1..Len(Chain) /\ next > r.pos
  BY NextFacts
<1>3. s = [seen EXCEPT !.pos = next]
  OBVIOUS
<1> HIDE DEF next
<1>4. /\ s \in RequestRecord /\ s.pos = next /\ s.pc = seen.pc /\ s.kind = seen.kind
      /\ s.got = seen.got /\ s.first = seen.first /\ s.mixed = seen.mixed
      /\ s.end = seen.end /\ s.records = seen.records /\ s.charged = seen.charged
      /\ s.refused = seen.refused
  <2>1. seen \in RequestRecord
    BY DEF Asked
  <2> QED
    BY <1>2, <1>3, <2>1 DEF RequestRecord
<1>5. /\ s.pc = "run" /\ s.kind = r.kind
      /\ s.got = r.got /\ s.first = r.first /\ s.mixed = r.mixed /\ s.end = None
      /\ s.records = 0 /\ s.charged = None /\ ~s.refused
  BY <1>1, <1>4 DEF Asked, SameReply
<1>6. Tidy(s)
  <2>0. r.mixed = FALSE
    BY <1>1 DEF RequestRecord
  <2>1. s.mixed = (r.mixed \/ r.got # Nothing) /\ ~s.mixed
    BY <1>1, <1>5, <2>0
  <2> QED
    BY <1>1, <1>2, <1>4, <1>5, <2>1, NextTidy
<1>7. Running(s)
  BY <1>1, <1>5 DEF Running, AlwaysRecorded, Streams
<1>8. Follows(View(r), View(s))
  BY <1>1, <1>4, <1>5, Hidden
<1> QED
  BY <1>4, <1>5, <1>6, <1>7, <1>8, SoundRun DEF Advances

\* The client of a stream leaves after the last piece.
LEMMA LeavesLate ==
    ASSUME NEW r \in RequestRecord, Sound(r), r.pc \in {"charge", "store"}, r.kind \in Direct,
           NEW s, s = Ended(r, "left")
    PROVE  Advances(r, s)
<1> DEFINE m == Current(r)
           usage == Answered(r.kind, m)
<1>1. Tidy(r) /\ Handling(r) /\ r.end = None
  BY SoundFacts DEF PastRun
<1>2. s \in RequestRecord /\ Alike(r, s) /\ s.pc = "done" /\ s.end = "left"
  BY EndedIs
<1>3. SameReply(r, s) /\ s.charged = r.charged /\ s.record = r.record
  BY <1>2 DEF Alike, SameReply
<1>4. r.charged # None /\ ~r.mixed => r.charged.units \subseteq r.record.units
  <2> SUFFICES ASSUME r.charged # None, ~r.mixed
               PROVE  r.charged.units \subseteq r.record.units
    OBVIOUS
  <2>1. r.charged = r.final /\ r.kind # "complete" /\ r.record.units = usage
    BY <1>1 DEF Handling, Direct
  <2>2. CASE r.kind \in ChatStreams
    <3>1. usage # {} /\ r.final = LastUsage(m, Length)
      BY <1>1, <2>1, <2>2 DEF Handling
    <3>2. usage = All
      BY <3>1 DEF Answered
    <3> QED
      BY <2>1, <3>1, <3>2, ChainFacts DEF LastUsage
  <2>3. CASE r.kind \notin ChatStreams
    BY <1>1, <2>1, <2>3 DEF Handling
  <2> QED
    BY <2>2, <2>3
<1>5. AccountAgrees(s)
  BY <1>2, <1>3, <1>4 DEF AccountAgrees, SameReply
<1>6. Follows(View(r), View(s))
  BY <1>1, <1>2, <1>3, Stops
<1> QED
  BY <1>2, <1>5, <1>6, SoundDone DEF Advances

\* One more piece, and the usage it comes with.
Yielded(r) ==
    LET m == Current(r)
        i == r.got[m] + 1
        usage == Carried(r.kind, m, i)
    IN  [r EXCEPT !.got[m] = i,
             !.first = IF @ = None THEN m ELSE @,
             !.stats = @ \cup usage,
             !.final = IF usage # {} \/ (r.kind \in NativeStreams /\ i = Length)
                       THEN [model |-> m, units |-> usage] ELSE @]

LEMMA YieldIs ==
    ASSUME NEW r \in RequestRecord, r.got[Current(r)] + 1 <= Length,
           NEW s, s = Yielded(r)
    PROVE  LET m == Current(r)
               i == r.got[m] + 1
               usage == Carried(r.kind, m, i)
           IN
           /\ s \in RequestRecord
           /\ s.got = [r.got EXCEPT ![m] = i]
           /\ s.first = IF r.first = None THEN m ELSE r.first
           /\ s.stats = r.stats \cup usage
           /\ s.final = IF usage # {} \/ (r.kind \in NativeStreams /\ i = Length)
                        THEN [model |-> m, units |-> usage] ELSE r.final
           /\ s.kind = r.kind /\ s.pc = r.pc /\ s.pos = r.pos /\ s.mixed = r.mixed
           /\ s.invoked = r.invoked /\ s.triggered = r.triggered /\ s.end = r.end
           /\ s.refused = r.refused /\ s.records = r.records /\ s.charged = r.charged
<1> DEFINE m == Current(r)
           i == r.got[m] + 1
           usage == Carried(r.kind, m, i)
           got == [r.got EXCEPT ![m] = i]
           first == IF r.first = None THEN m ELSE r.first
           stats == r.stats \cup usage
           last == [model |-> m, units |-> usage]
           final == IF usage # {} \/ (r.kind \in NativeStreams /\ i = Length)
                    THEN last ELSE r.final
<1>1. m \in Models /\ i \in 1..Length /\ i \in 0..Length /\ r.got \in [Models -> 0..Length]
  BY CurrentFacts, ChainFacts
<1>2. usage \in SUBSET All
  <2> HIDE DEF i, m
  <2> QED
    BY <1>1 DEF Carried, All
<1>3. last \in UsageRecord
  BY <1>1, <1>2 DEF UsageRecord
<1>4. /\ got \in [Models -> 0..Length] /\ first \in Models \cup {None}
      /\ stats \in SUBSET All
  BY <1>1, <1>2 DEF RequestRecord
<1>5. final \in UsageRecord \cup {None}
  BY <1>3 DEF RequestRecord
<1>6. s = [r EXCEPT !.got = got, !.first = first, !.stats = stats, !.final = final]
  BY DEF Yielded
<1> HIDE DEF got, first, stats, final
<1>7. /\ s \in RequestRecord /\ s.got = got /\ s.first = first /\ s.stats = stats
      /\ s.final = final
      /\ s.kind = r.kind /\ s.pc = r.pc /\ s.pos = r.pos /\ s.mixed = r.mixed
      /\ s.invoked = r.invoked /\ s.triggered = r.triggered /\ s.end = r.end
      /\ s.refused = r.refused /\ s.records = r.records /\ s.charged = r.charged
  BY ZenonT(60), <1>4, <1>5, <1>6 DEF RequestRecord
<1> QED
  BY <1>7 DEF got, first, stats, final

\* The usage of one more piece.
LEMMA Gathers ==
    ASSUME NEW kind \in Streams, NEW m \in Models, NEW n \in 0..Length, n + 1 <= Length
    PROVE  /\ Gathered(kind, m, n) \cup Carried(kind, m, n + 1) = Gathered(kind, m, n + 1)
           /\ kind \notin ChatStreams => Gathered(kind, m, n) = {}
           /\ kind \in ChatStreams /\ Carried(kind, m, n + 1) # {} =>
                 [model |-> m, units |-> Carried(kind, m, n + 1)] = LastUsage(m, n + 1)
           /\ kind \in ChatStreams /\ Carried(kind, m, n + 1) = {} =>
                 Gathered(kind, m, n) = {}
<1>1. n # Length /\ n \in Nat /\ Length \in Nat
  BY ChainFacts
<1>2. 1..(n + 1) = (1..n) \cup {n + 1}
  BY <1>1
<1>3. {n + 1} # {} /\ All # {}
  BY ChainFacts
<1> DEFINE j == n + 1
<1> HIDE DEF j
<1>4. /\ Gathered(kind, m, n) = IF m \in Unmetered THEN {}
                               ELSE IF kind \in ChatStreams /\ m \in Deltas THEN 1..n
                               ELSE {}
      /\ Gathered(kind, m, j) = IF m \in Unmetered THEN {}
                               ELSE IF kind \in ChatStreams /\ m \in Deltas THEN 1..j
                               ELSE IF j = Length THEN All ELSE {}
      /\ Carried(kind, m, j) = IF m \in Unmetered THEN {}
                               ELSE IF kind \in ChatStreams /\ m \in Deltas THEN {j}
                               ELSE IF j = Length THEN All ELSE {}
  BY <1>1 DEF Gathered, Carried
<1>5. 1..j = (1..n) \cup {j} /\ {j} # {}
  BY <1>2, <1>3 DEF j
<1>6. /\ Gathered(kind, m, n) \cup Carried(kind, m, j) = Gathered(kind, m, j)
      /\ kind \notin ChatStreams => Gathered(kind, m, n) = {}
      /\ kind \in ChatStreams /\ Carried(kind, m, j) = {} => Gathered(kind, m, n) = {}
  BY <1>3, <1>4, <1>5
<1>7. kind \in ChatStreams /\ Carried(kind, m, j) # {} =>
          Carried(kind, m, j) = IF m \in Deltas THEN {j} ELSE All
  BY <1>4
<1> QED
  BY <1>6, <1>7 DEF j, LastUsage

\* One more piece is told, unless the reply counts as stopped.
LEMMA YieldTold ==
    ASSUME NEW r \in RequestRecord, NEW s \in RequestRecord, Tidy(r), Tidy(s),
           r.end = None, s.end = None, s.kind = r.kind, s.mixed = r.mixed,
           Current(s) = Current(r), s.got[Current(r)] = r.got[Current(r)] + 1,
           r.got[Current(r)] < Length,
           r.mixed => s.first = r.first /\ s.got[r.first] = r.got[r.first]
    PROVE  Follows(View(r), View(s))
<1> DEFINE m == Current(r)
           n == r.got[m]
<1>1. m \in Models /\ n \in Nat /\ n + 1 > 0 /\ r.mixed \in BOOLEAN
  <2>1. m \in Models /\ n \in 0..Length
    BY CurrentFacts
  <2>2. n \in Nat /\ n + 1 > 0
    BY <2>1, ChainFacts
  <2> QED
    BY <2>1, <2>2 DEF RequestRecord
<1>2. CASE r.kind \notin Direct
  BY <1>2, Hidden
<1>3. CASE r.kind \in Direct /\ r.mixed
  <2>1. Told(s) = Told(r)
    BY <1>3, ToldIs
  <2> QED
    BY <1>3, <2>1, ViewOpen, FollowsSame
<1>4. CASE r.kind \in Direct /\ ~r.mixed
  <2> DEFINE v == Told(r)
             w == Told(s)
  <2>1. v = [from |-> IF n > 0 THEN {m} ELSE {}, shown |-> n, over |-> "no"]
    BY <1>4, ToldIs, NoneIsNoOther
  <2>2. w = [from |-> {m}, shown |-> n + 1, over |-> "no"]
    <3>1. w = [from |-> IF s.got[m] > 0 THEN {m} ELSE {}, shown |-> s.got[m], over |-> "no"]
      BY <1>4, ToldIs, NoneIsNoOther
    <3> QED
      BY <1>1, <3>1
  <2>3. v.over = "no" /\ v.from \subseteq {m} /\ v.shown = n
    BY <2>1
  <2> HIDE DEF v, w, m
  <2>4. Follows(v, w)
    BY <1>1, <2>2, <2>3 DEF Follows, m
  <2> QED
    BY <1>4, <2>4, ViewOpen DEF v, w
<1> QED
  BY <1>1, <1>2, <1>3, <1>4

\* The step of a stream that yields, by what it does to the request.
LEMMA YieldsAdvances ==
    ASSUME NEW r \in RequestRecord, Sound(r), r.pc = "run", r.kind \in Streams,
           NEW m, m = Current(r), NEW i, i = r.got[m] + 1, i <= Length,
           NEW usage, usage = Carried(r.kind, m, i),
           NEW s \in RequestRecord,
           s.got = [r.got EXCEPT ![m] = i],
           s.first = IF r.first = None THEN m ELSE r.first,
           s.stats = r.stats \cup usage,
           s.final = IF usage # {} \/ (r.kind \in NativeStreams /\ i = Length)
                     THEN [model |-> m, units |-> usage] ELSE r.final,
           s.kind = r.kind, s.pc = r.pc, s.pos = r.pos, s.mixed = r.mixed,
           s.invoked = r.invoked, s.triggered = r.triggered, s.end = r.end,
           s.refused = r.refused, s.records = r.records, s.charged = r.charged
    PROVE  Advances(r, s)
<1> DEFINE n == r.got[m]
<1>1. Tidy(r) /\ Running(r) /\ r.end = None
  BY SoundFacts
<1>2. /\ m \in Models /\ r.got \in [Models -> 0..Length] /\ n \in 0..Length
      /\ m = Chain[r.pos] /\ r.pos \in 1..Len(Chain) /\ Length \in Nat
      /\ r.mixed \in BOOLEAN /\ None \notin Models /\ r.kind \in Kinds
  BY CurrentFacts, ChainFacts DEF RequestRecord
<1>3. /\ Current(s) = m /\ s.got[m] = i /\ i > 0
      /\ \A k \in Models \ {m} : s.got[k] = r.got[k]
  BY <1>2 DEF Current
<1>4. Tidy(s)
  <2>1. \A j \in 1..Len(Chain) : j > r.pos => Chain[j] \in Models \ {m}
    BY <1>2, ChainFacts
  <2>2. \A j \in 1..Len(Chain) : j > s.pos => s.got[Chain[j]] = 0
    BY <2>1, <1>1, <1>3 DEF Tidy
  <2>3. CASE ~r.mixed
    <3>1. s.first = m
      BY <1>1, <1>2, <2>3 DEF Tidy
    <3> QED
      BY <1>1, <1>3, <2>2, <2>3, <3>1 DEF Tidy
  <2>4. CASE r.mixed
    <3>1. /\ r.first \in Models /\ r.got[r.first] > 0 /\ r.first # m
          /\ \A j \in 1..Len(Chain) : j >= r.pos => Chain[j] # r.first
          /\ r.kind \in ChatStreams \cup {"transcript"}
      BY <1>1, <1>2, <2>4 DEF Tidy
    <3>2. s.first = r.first /\ s.got[s.first] > 0
      BY <1>2, <1>3, <3>1
    <3> QED
      BY <1>1, <1>3, <2>2, <2>4, <3>1, <3>2 DEF Tidy
  <2> QED
    BY <1>2, <2>3, <2>4
<1>5. Running(s)
  <2>1. /\ r.stats = Gathered(r.kind, m, n)
        /\ Gathered(r.kind, m, n) \cup usage = Gathered(r.kind, m, i)
        /\ r.kind \notin ChatStreams => Gathered(r.kind, m, n) = {}
        /\ r.kind \in ChatStreams /\ usage # {} =>
              [model |-> m, units |-> usage] = LastUsage(m, i)
        /\ r.kind \in ChatStreams /\ usage = {} => Gathered(r.kind, m, n) = {}
    <3>1. r.stats = Gathered(r.kind, m, n)
      BY <1>1 DEF Running
    <3>2. m \in Models /\ n \in 0..Length /\ n + 1 <= Length /\ i = n + 1
      BY <1>2
    <3> HIDE DEF n
    <3>3. /\ Gathered(r.kind, m, n) \cup usage = Gathered(r.kind, m, n + 1)
          /\ r.kind \notin ChatStreams => Gathered(r.kind, m, n) = {}
          /\ r.kind \in ChatStreams /\ usage # {} =>
                [model |-> m, units |-> usage] = LastUsage(m, n + 1)
          /\ r.kind \in ChatStreams /\ usage = {} => Gathered(r.kind, m, n) = {}
      BY <3>2, Gathers
    <3> QED
      BY <3>1, <3>2, <3>3
  <2>2. s.stats = Gathered(r.kind, m, i)
    BY <2>1
  <2>3. CASE r.kind \in NativeStreams
    <3>1. r.kind \notin ChatStreams /\ s.stats = usage
      BY <2>1, <2>3 DEF NativeStreams, ChatStreams
    <3>2. r.final = None /\ r.triggered = (r.pos > 1) /\ r.invoked = m
      BY <1>1, <1>2, <2>3 DEF Running, AlwaysRecorded
    <3>3. i # Length => usage = {}
      BY <3>1 DEF Carried
    <3>4. s.final = IF i = Length THEN [model |-> m, units |-> s.stats] ELSE None
      BY <2>3, <3>1, <3>2, <3>3
    <3> QED
      BY <1>1, <1>3, <2>2, <2>3, <3>1, <3>2, <3>4 DEF Running
  <2>4. CASE r.kind \in ChatStreams
    <3>1. r.kind \notin NativeStreams /\ r.invoked = m
      BY <1>1, <2>4 DEF Running, AlwaysRecorded, ChatStreams, NativeStreams
    <3>2. CASE usage # {}
      <4>1. s.final = LastUsage(m, i) /\ s.stats # {}
        BY <2>1, <2>4, <3>2
      <4> QED
        BY <1>1, <1>3, <2>2, <2>4, <3>1, <4>1 DEF Running
    <3>3. CASE usage = {}
      <4>1. s.final = r.final /\ s.stats = {} /\ r.stats = {}
        BY <2>1, <2>4, <3>1, <3>3
      <4>2. ~r.mixed => r.final = None
        BY <1>1, <2>4, <4>1 DEF Running
      <4> QED
        BY <1>1, <1>3, <2>2, <2>4, <3>1, <4>1, <4>2 DEF Running
    <3> QED
      BY <3>2, <3>3
  <2>5. CASE r.kind \notin NativeStreams \cup ChatStreams
    BY <1>1, <1>3, <2>2, <2>5 DEF Running, AlwaysRecorded
  <2> QED
    BY <2>3, <2>4, <2>5
<1>6. Follows(View(r), View(s))
  <2>1. r.mixed => s.first = r.first /\ s.got[r.first] = r.got[r.first]
    BY SMTT(30), <1>1, <1>2, <1>3 DEF Tidy
  <2>2. s.got[m] = r.got[m] + 1 /\ r.got[m] < Length
    BY SMTT(30), <1>2, <1>3
  <2>3. s.end = None
    BY <1>1
  <2> QED
    BY <1>1, <1>3, <1>4, <2>1, <2>2, <2>3, YieldTold
<1> QED
  BY <1>4, <1>5, <1>6, SoundRun DEF Advances

-----------------------------------------------------------------------------
(* The handlers.                                                             *)

LEMMA HandlingFacts ==
    ASSUME NEW r \in RequestRecord, Sound(r), r.pc \in PastRun
    PROVE  /\ Tidy(r) /\ Handling(r) /\ r.end = None
           /\ r.kind \in {"stream", "buffered", "live", "held", "complete", "response"}
           /\ ApiOf[r.kind] \in Apis /\ ApiOf[r.kind] # None
           /\ r.kind \in ChatStreams \cup {"complete"} => ApiOf[r.kind] = "chat"
<1>1. Tidy(r) /\ Handling(r) /\ r.end = None
  BY SoundFacts
<1>2. r.kind \in {"stream", "buffered", "live", "held", "complete", "response"}
  BY <1>1 DEF Handling, ChatStreams, NativeStreams
<1> QED
  BY <1>1, <1>2, NoneIsNoOther
     DEF ApiOf, Apis, Kinds, Streams, Calls, ChatStreams, NativeStreams

\* The guardrails let the reply, or a refusal in its place, go on.
LEMMA PassesAdvances ==
    ASSUME NEW r \in RequestRecord, Sound(r), r.pc = "guard",
           NEW s \in RequestRecord, SameReply(r, s), s.pc = AfterGuard[r.kind],
           s.final = r.final, s.end = r.end, s.records = r.records, s.record = r.record,
           s.charged = r.charged
    PROVE  Advances(r, s)
<1>1. Tidy(r) /\ Handling(r) /\ r.end = None
  BY SoundFacts DEF PastRun
<1>2. r.kind \in {"buffered", "held", "complete", "response"}
  BY <1>1 DEF Handling, ChatStreams, NativeStreams, Direct
<1>3. s.pc = IF r.kind \in {"complete", "buffered"} THEN "store" ELSE "charge"
  BY <1>2 DEF AfterGuard
<1>4. Tidy(s) /\ Current(s) = Current(r)
  BY <1>1, ReplyTidy
<1>5. Handling(s)
  BY <1>1, <1>2, <1>3, <1>4 DEF Handling, SameReply, Charged
<1>6. Follows(View(r), View(s))
  BY <1>1, GoesOn
<1> QED
  BY <1>3, <1>4, <1>5, <1>6, SoundPast DEF Advances, PastRun

LEMMA BlocksAdvances ==
    ASSUME NEW r \in RequestRecord, Sound(r), r.pc = "guard",
           NEW s, s = Ended(r, "blocked")
    PROVE  Advances(r, s)
<1> DEFINE m == Current(r)
           usage == Answered(r.kind, m)
<1>1. Tidy(r) /\ Handling(r) /\ r.end = None
  BY SoundFacts DEF PastRun
<1>2. r.kind \notin Direct
  BY <1>1 DEF Handling
<1>3. s \in RequestRecord /\ Alike(r, s) /\ s.pc = "done" /\ s.end = "blocked"
  BY EndedIs
<1>4. SameReply(r, s) /\ s.charged = r.charged /\ s.record = r.record
  BY <1>3 DEF Alike, SameReply
<1>5. r.charged # None => /\ r.kind = "complete"
                          /\ r.charged = [model |-> m, units |-> usage]
                          /\ r.record.units = usage
  BY <1>1 DEF Handling, Charged, ChatStreams
<1>6. AccountAgrees(s)
  BY <1>3, <1>4, <1>5 DEF AccountAgrees, SameReply
<1>7. Follows(View(r), View(s))
  BY <1>1, <1>2, <1>3, <1>4, Stops
<1> QED
  BY <1>3, <1>6, <1>7, SoundDone DEF Advances

\* A request that was handled to the end, charged with the usage it had.
LEMMA HandledWell ==
    ASSUME NEW r \in RequestRecord, Sound(r), r.pc \in PastRun,
           NEW s \in RequestRecord, SameReply(r, s), s.pc = "done", s.end = "ok",
           s.final = r.final, s.records = r.records, s.record = r.record,
           s.charged = IF r.kind = "complete" /\ Answered(r.kind, Current(r)) = {}
                       THEN None ELSE r.final
    PROVE  Advances(r, s)
<1> DEFINE m == Current(r)
           usage == Answered(r.kind, m)
<1>1. /\ Tidy(r) /\ Handling(r) /\ r.end = None
      /\ r.kind \in {"stream", "buffered", "live", "held", "complete", "response"}
      /\ ApiOf[r.kind] \in Apis /\ ApiOf[r.kind] # None
  BY HandlingFacts
<1>2. Tidy(s) /\ Current(s) = m /\ s.got[m] = Length /\ s.kind = r.kind /\ s.pos = r.pos
      /\ s.mixed = r.mixed
  BY <1>1, ReplyTidy DEF SameReply, Handling
<1>3. usage = {} \/ usage = All
  BY DEF Answered
<1>4. ASSUME r.kind = "complete" /\ usage = {}
      PROVE  AccountAgrees(s)
  <2>1. s.records = 0 /\ s.charged = None
    BY <1>1, <1>4 DEF Handling
  <2> HIDE DEF m, usage
  <2> QED
    BY <1>1, <1>2, <1>4, <2>1 DEF AccountAgrees, usage
<1>5. ASSUME ~(r.kind = "complete" /\ usage = {})
      PROVE  AccountAgrees(s)
  <2>1. s.record = [model |-> m, units |-> usage, fallback |-> s.pos > 1]
        /\ s.charged = r.final
    BY <1>1, <1>2, <1>5 DEF Handling
  <2>2. CASE r.kind \notin ChatStreams
    <3>1. s.charged = [model |-> m, units |-> usage]
      BY <1>1, <2>1, <2>2 DEF Handling
    <3>2. usage # {} => s.charged # None
      <4>1. m \in Models /\ usage \in SUBSET All
        BY CurrentFacts DEF Answered
      <4>2. s.charged \in UsageRecord
        BY <3>1, <4>1 DEF UsageRecord
      <4> QED
        BY <4>2, NoneIsNoOther
    <3> HIDE DEF m, usage
    <3>3. AccountAgrees(s)
      BY <1>1, <1>2, <1>5, <2>1, <2>2, <3>1, <3>2 DEF AccountAgrees, usage
    <3> QED
      BY <3>3
  <2>3. CASE r.kind \in ChatStreams
    <3>1. ~r.mixed => s.charged = IF usage = {} THEN None ELSE LastUsage(m, Length)
      BY <1>1, <2>1, <2>3 DEF Handling
    <3>2. LastUsage(m, Length) # None
      <4>1. m \in Models /\ Length \in All
        BY CurrentFacts, ChainFacts
      <4>2. LastUsage(m, Length) \in UsageRecord
        BY <4>1 DEF UsageRecord, LastUsage
      <4> QED
        BY <4>2, NoneIsNoOther
    <3>3. /\ LastUsage(m, Length).model = m
          /\ LastUsage(m, Length).units \subseteq All
          /\ m \notin Deltas => LastUsage(m, Length).units = All
      BY ChainFacts DEF LastUsage
    <3> HIDE DEF m, usage
    <3>4. AccountAgrees(s)
      BY <1>1, <1>2, <1>3, <1>5, <2>1, <2>3, <3>1, <3>2, <3>3 DEF AccountAgrees, usage
    <3> QED
      BY <3>4
  <2> QED
    BY <2>2, <2>3
<1>6. AccountAgrees(s)
  BY <1>4, <1>5
<1>7. Follows(View(r), View(s))
  <2>1. CASE r.kind \in Direct
    BY <1>1, <2>1, Closes
  <2>2. CASE r.kind \notin Direct
    BY <1>1, <1>2, <2>2, Gives
  <2> QED
    BY <2>1, <2>2
<1> QED
  BY <1>6, <1>7, SoundDone DEF Advances

LEMMA ChargeAdvances ==
    ASSUME NEW r \in RequestRecord, Sound(r), r.pc = "charge",
           NEW s, s = Continued([r EXCEPT !.charged = r.final], AfterCharge[r.kind])
    PROVE  Advances(r, s)
<1> DEFINE x == [r EXCEPT !.charged = r.final]
           pc == AfterCharge[r.kind]
           final == r.final
<1>1. /\ Tidy(r) /\ Handling(r) /\ r.end = None
      /\ r.kind \in {"stream", "buffered", "live", "held", "complete", "response"}
  BY HandlingFacts DEF PastRun
<1>2. pc = IF r.kind = "complete" THEN "guard"
           ELSE IF r.kind = "buffered" THEN "done" ELSE "store"
  BY <1>1 DEF AfterCharge
<1>3. x \in RequestRecord /\ SameReply(r, x) /\ x.final = final /\ x.charged = final
      /\ x.records = r.records /\ x.record = r.record /\ x.end = None
  <2>1. final \in UsageRecord \cup {None}
    BY DEF RequestRecord
  <2>2. x = [r EXCEPT !.charged = final]
    OBVIOUS
  <2> HIDE DEF x, final
  <2> QED
    BY <1>1, <2>1, <2>2 DEF RequestRecord, SameReply, final
<1>4. s = Continued(x, pc)
  OBVIOUS
<1> HIDE DEF x, pc
<1>5. s \in RequestRecord /\ Alike(x, s) /\ s.pc = pc
      /\ s.end = IF pc = "done" THEN "ok" ELSE None
  BY <1>2, <1>3, <1>4, ContinuedIs
<1>6. SameReply(r, s) /\ s.final = r.final /\ s.charged = r.final /\ s.records = r.records
      /\ s.record = r.record
  BY <1>3, <1>5 DEF Alike, SameReply
<1>7. ~(r.kind = "complete" /\ Answered(r.kind, Current(r)) = {})
  BY <1>1 DEF Handling
<1>8. CASE r.kind = "buffered"
  BY <1>2, <1>5, <1>6, <1>7, <1>8, HandledWell DEF PastRun
<1>9. CASE r.kind # "buffered"
  <2>1. s.pc \in PastRun /\ s.end = None
        /\ s.pc = IF r.kind = "complete" THEN "guard" ELSE "store"
    BY <1>2, <1>5, <1>9 DEF PastRun
  <2>2. Tidy(s) /\ Current(s) = Current(r)
    BY <1>1, <1>6, ReplyTidy
  <2>3. Handling(s)
    BY <1>1, <1>6, <1>7, <1>9, <2>1, <2>2 DEF Handling, SameReply, Charged, Direct
  <2>4. Follows(View(r), View(s))
    BY <1>1, <1>5, <1>6, <2>1, GoesOn
  <2> QED
    BY <1>5, <2>1, <2>2, <2>3, <2>4, SoundPast DEF Advances
<1> QED
  BY <1>8, <1>9

LEMMA StoreAdvances ==
    ASSUME NEW r \in RequestRecord, Sound(r), r.pc = "store",
           NEW s, s = Continued(r, IF r.kind = "buffered" /\ r.final # None
                                   THEN "charge" ELSE "done")
    PROVE  Advances(r, s)
<1>1. /\ Tidy(r) /\ Handling(r) /\ r.end = None
      /\ r.kind \in {"stream", "buffered", "live", "held", "complete", "response"}
  BY HandlingFacts DEF PastRun
<1>2. s \in RequestRecord /\ Alike(r, s)
      /\ s.pc = (IF r.kind = "buffered" /\ r.final # None THEN "charge" ELSE "done")
      /\ s.end = IF s.pc = "done" THEN "ok" ELSE None
  BY <1>1, ContinuedIs
<1>3. SameReply(r, s) /\ s.final = r.final /\ s.charged = r.charged
      /\ s.records = r.records /\ s.record = r.record
  BY <1>2 DEF Alike, SameReply
<1>4. CASE r.kind = "buffered" /\ r.final # None
  <2>1. s.pc = "charge" /\ s.end = None
    BY <1>2, <1>4
  <2>2. Tidy(s) /\ Current(s) = Current(r)
    BY <1>1, <1>3, ReplyTidy
  <2>3. Handling(s)
    BY <1>1, <1>3, <1>4, <2>1, <2>2 DEF Handling, SameReply, Charged
  <2>4. Follows(View(r), View(s))
    BY <1>1, <1>2, <1>3, <2>1, GoesOn
  <2> QED
    BY <1>2, <2>1, <2>2, <2>3, <2>4, SoundPast DEF Advances, PastRun
<1>5. CASE ~(r.kind = "buffered" /\ r.final # None)
  <2>1. s.pc = "done" /\ s.end = "ok"
    BY <1>2, <1>5
  <2>2. s.charged = IF r.kind = "complete" /\ Answered(r.kind, Current(r)) = {}
                    THEN None ELSE r.final
    BY <1>1, <1>3, <1>5 DEF Handling, Charged
  <2> QED
    BY <1>2, <1>3, <2>1, <2>2, HandledWell DEF PastRun
<1> QED
  BY <1>4, <1>5

-----------------------------------------------------------------------------
(* The cache.                                                                *)

\* An entry is the whole reply of one model, but for the tool call of a chat stream.
Good(api, entry) ==
    ~entry.refused /\ (api = "chat" => ~entry.mixed) =>
        \E m \in Models :
            \/ entry.got = Whole(m)
            \/ api = "chat" /\ m \in ToolCallers /\ entry.got = Text(Whole(m))

LEMMA CacheIs == CacheWhole <=> \A api \in Apis : cache[api] # None => Good(api, cache[api])
  BY DEF CacheWhole, Good

\* What a handler stores is one.
LEMMA StoredGood ==
    ASSUME NEW r \in RequestRecord, Sound(r), r.pc = "store"
    PROVE  Entry(r) \in EntryRecord /\ Good(ApiOf[r.kind], Entry(r))
<1> DEFINE m == Current(r)
           e == Entry(r)
<1>1. /\ Tidy(r) /\ Handling(r)
      /\ r.kind \in {"stream", "buffered", "live", "held", "complete", "response"}
      /\ r.kind \in ChatStreams \cup {"complete"} => ApiOf[r.kind] = "chat"
      /\ r.got \in [Models -> 0..Length] /\ m \in Models /\ r.got[m] = Length
  BY HandlingFacts, CurrentFacts DEF PastRun, Handling
<1>2. Text(r.got) \in [Models -> 0..Length]
  <2>1. Length - 1 \in 0..Length
    BY ChainFacts
  <2> QED
    BY <1>1, <2>1 DEF Text
<1>3. e.got = (IF r.kind \in ChatStreams THEN Text(r.got) ELSE r.got)
      /\ e.mixed = r.mixed /\ e.refused = r.refused
  BY DEF Entry
<1>4. e \in EntryRecord
  BY <1>1, <1>2 DEF Entry, EntryRecord, RequestRecord
<1>5. ASSUME ApiOf[r.kind] = "chat" => ~r.mixed
      PROVE  r.got = Whole(m)
  <2>1. ~r.mixed
    BY <1>1, <1>5 DEF Tidy, ChatStreams
  <2>2. \A n \in Models \ {m} : r.got[n] = 0
    BY <1>1, <2>1 DEF Tidy
  <2>3. \A n \in Models : r.got[n] = Whole(m)[n]
    BY <1>1, <2>2 DEF Whole, Nothing
  <2>4. Whole(m) = [n \in Models |-> Whole(m)[n]]
    BY DEF Whole, Nothing
  <2> QED
    BY <1>1, <2>3, <2>4
<1>6. m \notin ToolCallers => Text(Whole(m)) = Whole(m)
  <2> SUFFICES ASSUME m \notin ToolCallers PROVE Text(Whole(m)) = Whole(m)
    OBVIOUS
  <2>1. \A n \in Models : Text(Whole(m))[n] = Whole(m)[n]
    BY <1>1, ChainFacts DEF Text, Whole, Nothing
  <2>2. Whole(m) = [n \in Models |-> Whole(m)[n]]
    BY DEF Whole, Nothing
  <2>3. Text(Whole(m)) = [n \in Models |-> Text(Whole(m))[n]]
    BY DEF Text
  <2> QED
    BY <2>1, <2>2, <2>3
<1> HIDE DEF e, m
<1>7. Good(ApiOf[r.kind], e)
  <2> SUFFICES ASSUME ApiOf[r.kind] = "chat" => ~r.mixed
               PROVE  \E n \in Models :
                         \/ e.got = Whole(n)
                         \/ ApiOf[r.kind] = "chat" /\ n \in ToolCallers
                            /\ e.got = Text(Whole(n))
    BY <1>3 DEF Good
  <2>1. r.got = Whole(m)
    BY <1>5
  <2>2. CASE r.kind \in ChatStreams /\ m \in ToolCallers
    BY <1>1, <1>3, <2>1, <2>2
  <2>3. CASE ~(r.kind \in ChatStreams /\ m \in ToolCallers)
    BY <1>1, <1>3, <1>6, <2>1, <2>3
  <2> QED
    BY <2>2, <2>3
<1> QED
  BY <1>4, <1>7 DEF e

\* What the client of a request that found an entry is told.
LEMMA HitTold ==
    ASSUME NEW kind \in Kinds, ApiOf[kind] \in Apis, NEW entry \in EntryRecord,
           Good(ApiOf[kind], entry),
           NEW s \in RequestRecord, s.kind = kind, s.got = entry.got, s.mixed = entry.mixed,
           s.refused \/ s.refused = entry.refused, s.end \in {"hit", "blocked"}
    PROVE  Follows(Silent("no"), View(s))
<1>1. s.end # None /\ ApiOf[kind] \in {"chat", "responses"}
  BY NoneIsNoOther DEF Apis
<1>2. CASE s.end = "blocked" \/ Mixed(s) \/ s.refused
  <2>1. View(s) = Silent("cut")
    BY <1>1, <1>2 DEF View
  <2> QED
    BY <2>1, FollowsSilence
<1>3. CASE s.end = "hit" /\ ~Mixed(s) /\ ~s.refused
  <2>1. View(s) = Told(s)
    BY <1>1, <1>3 DEF View
  <2>2. ~entry.refused /\ (ApiOf[kind] = "chat" => ~entry.mixed)
    BY <1>3 DEF Mixed
  <2>3. PICK m \in Models : s.got = Whole(m) \/ s.got = Text(Whole(m))
    BY <2>2 DEF Good
  <2>4. s.got[m] \in 0..Length /\ \A n \in Models \ {m} : s.got[n] = 0
    <3>1. \A n \in Models \ {m} : Whole(m)[n] = 0
      BY DEF Whole, Nothing
    <3>2. \A n \in Models \ {m} : Text(Whole(m))[n] = 0
      BY <3>1, ChainFacts DEF Text
    <3> QED
      BY <2>3, <3>1, <3>2 DEF RequestRecord
  <2> DEFINE n == s.got[m]
  <2>5. Givers(s) = IF n > 0 THEN {m} ELSE {}
    BY <1>3, <2>4 DEF Givers
  <2>6. Shown(s) = n
    BY <2>4, <2>5, ChainFacts DEF Shown
  <2>7. Over(s) = IF n = Length THEN "whole" ELSE "cut"
    BY <1>1, <1>3, <2>6 DEF Over
  <2>8. CASE n = 0
    <3> HIDE DEF n
    <3>1. Givers(s) = {} /\ Shown(s) = 0 /\ Over(s) = "cut"
      BY <2>5, <2>6, <2>7, <2>8, ChainFacts
    <3>2. Told(s) = Silent("cut")
      BY <3>1 DEF Told, Silent
    <3> QED
      BY <2>1, <3>2, FollowsSilence
  <2>9. CASE n # 0
    <3>1. n \in 1..Length
      BY <2>4, <2>9, ChainFacts
    <3>2. Told(s) = [from |-> {m}, shown |-> n,
                     over |-> IF n = Length THEN "whole" ELSE "cut"]
      BY <2>5, <2>6, <2>7, <3>1 DEF Told
    <3> HIDE DEF n
    <3> QED
      BY <2>1, <3>1, <3>2 DEF Follows
  <2> QED
    BY <2>8, <2>9
<1> QED
  BY <1>2, <1>3

-----------------------------------------------------------------------------
(* A request begins.                                                         *)

LEMMA ViewNew == View(New) = Silent("no")
<1>1. New.kind \notin Direct
  BY NewFacts DEF Direct, Kinds, Streams, ChatStreams, NativeStreams
<1> QED
  BY <1>1, NewFacts DEF View

LEMMA MissAdvances ==
    ASSUME NEW kind \in Kinds, NEW fallbacks \in BOOLEAN,
           NEW s, s = [New EXCEPT !.kind = kind, !.pc = "run", !.fallbacks = fallbacks,
                                  !.invoked = Chain[1]]
    PROVE  Advances(New, s)
<1> DEFINE m == Chain[1]
<1>1. m \in Models /\ 1 \in 1..Len(Chain) /\ Nothing \in [Models -> 0..Length]
      /\ 0 \in 0..1 /\ {} \in SUBSET All
  BY ChainFacts
<1>2. \A n \in Models : Nothing[n] = 0
  BY DEF Nothing
<1> HIDE DEF m
<1>3. /\ s.kind = kind /\ s.pc = "run" /\ s.pos = 1 /\ s.fallbacks = fallbacks
      /\ s.got = Nothing /\ s.first = None /\ s.stats = {} /\ s.final = None
      /\ s.invoked = m /\ s.triggered = FALSE /\ s.mixed = FALSE /\ s.refused = FALSE
      /\ s.end = None /\ s.records = 0 /\ s.record = None /\ s.charged = None
  BY DEF New, m
<1>4. s \in RequestRecord
  BY <1>1 DEF RequestRecord, New, m
<1>5. Current(s) = m /\ s.got[m] = 0
  BY <1>1, <1>2, <1>3 DEF Current, m
<1>6. Tidy(s)
  BY <1>1, <1>2, <1>3, <1>5, ChainFacts DEF Tidy
<1>7. Gathered(kind, m, 0) = {}
  BY ChainFacts DEF Gathered
<1>8. Running(s)
  <2>1. s.got[Current(s)] = 0 /\ 0 # Length
    BY <1>5, ChainFacts
  <2>2. s.triggered = (s.pos > 1)
    <3>1. s.triggered = FALSE /\ s.pos = 1
      BY <1>3
    <3>2. (1 > 1) = FALSE
      OBVIOUS
    <3> QED
      BY <3>1, <3>2, Zenon
  <2>3. s.stats = Gathered(s.kind, Current(s), 0) /\ s.invoked = Current(s)
    BY <1>3, <1>5, <1>7
  <2> QED
    BY <1>3, <2>1, <2>2, <2>3 DEF Running
<1>9. View(s) = Silent("no")
  <2>1. ~s.mixed /\ s.got[Current(s)] = 0 /\ s.end = None
        /\ s.end \notin {"error", "left"}
    BY <1>3, <1>5, NoneIsNoOther
  <2>2. Told(s) = [from |-> IF s.got[Current(s)] > 0 THEN {Current(s)} ELSE {},
                   shown |-> s.got[Current(s)], over |-> "no"]
    BY <1>4, <1>6, <2>1, ToldIs
  <2>3. Told(s) = Silent("no")
    BY <2>1, <2>2 DEF Silent
  <2> QED
    BY <2>1, <2>3, <1>4, ViewOpen
<1> QED
  BY <1>3, <1>4, <1>6, <1>8, <1>9, ViewNew, SoundRun, FollowsSame DEF Advances

LEMMA HitAdvances ==
    ASSUME NEW kind \in Kinds, ApiOf[kind] \in Apis, NEW entry \in EntryRecord,
           Good(ApiOf[kind], entry), NEW how \in {"hit", "blocked"},
           NEW s, \/ s = Ended(Served(kind, entry), how)
                  \/ s = Ended([Served(kind, entry) EXCEPT !.refused = TRUE], how)
    PROVE  Advances(New, s)
<1> DEFINE got == entry.got
           mixed == entry.mixed
<1>1. got \in [Models -> 0..Length] /\ mixed \in BOOLEAN /\ entry.refused \in BOOLEAN
      /\ 1 \in 1..Len(Chain) /\ 0 \in 0..1 /\ {} \in SUBSET All
  BY ChainFacts DEF EntryRecord
<1> HIDE DEF got, mixed
<1>2. PICK refused \in BOOLEAN : /\ refused \/ refused = entry.refused
                                 /\ s = [New EXCEPT !.kind = kind, !.got = got,
                                           !.mixed = mixed, !.refused = refused,
                                           !.pc = "done", !.end = how]
  <2>1. CASE s = Ended(Served(kind, entry), how)
    <3>1. s = [New EXCEPT !.kind = kind, !.got = got,
                          !.mixed = mixed, !.refused = entry.refused,
                          !.pc = "done", !.end = how]
      BY <2>1 DEF Ended, Served, New, got, mixed
    <3> QED
      BY <1>1, <3>1
  <2>2. CASE s = Ended([Served(kind, entry) EXCEPT !.refused = TRUE], how)
    <3>1. s = [New EXCEPT !.kind = kind, !.got = got,
                          !.mixed = mixed, !.refused = TRUE,
                          !.pc = "done", !.end = how]
      BY ZenonT(60), <2>2 DEF Ended, Served, New, got, mixed
    <3> QED
      BY <3>1
  <2> QED
    BY <2>1, <2>2
<1>3. s \in RequestRecord
  BY ZenonT(60), <1>1, <1>2 DEF RequestRecord, New
<1>4. /\ s.kind = kind /\ s.got = got /\ s.mixed = mixed /\ s.refused = refused
      /\ s.pc = "done" /\ s.end = how /\ s.charged = None
  BY <1>2 DEF New
<1>5. AccountAgrees(s)
  BY <1>4 DEF AccountAgrees
<1>6. Follows(Silent("no"), View(s))
  <2>1. s.got = entry.got /\ s.mixed = entry.mixed
    BY <1>4 DEF got, mixed
  <2>2. s.refused \/ s.refused = entry.refused
    BY <1>2, <1>4
  <2> QED
    BY <1>3, <1>4, <2>1, <2>2, HitTold
<1> QED
  BY <1>3, <1>4, <1>5, <1>6, ViewNew, SoundDone DEF Advances

-----------------------------------------------------------------------------
(* Every step.                                                               *)

\* Request q takes a sound step, and the cache keeps what it has or gets an entry
\* that is whole.
Moves(q) ==
    /\ \E s : Advances(request[q], s) /\ Update(q, s)
    /\ cache' \in [Apis -> EntryRecord \cup {None}]
    /\ \A api \in Apis : cache'[api] = cache[api] \/ Good(api, cache'[api])

LEMMA Known ==
    ASSUME IInv, NEW q \in Requests
    PROVE  /\ request[q] = New \/ (request[q] \in RequestRecord /\ request[q] # New)
           /\ request[q].pc \in {"run", "guard", "charge", "store", "done"} =>
                 request[q] \in RequestRecord
           /\ Sound(request[q])
  BY NewFacts DEF IInv, Typed

LEMMA Kept ==
    ASSUME IInv, NEW q \in Requests, NEW s, Advances(request[q], s), Update(q, s),
           UNCHANGED cache
    PROVE  Moves(q)
  BY DEF IInv, Typed, Moves

LEMMA Begins ==
    ASSUME IInv, NEW q \in Requests, NEW kind \in Kinds,
           \/ \E fallbacks \in BOOLEAN : Miss(q, kind, fallbacks)
           \/ HitStreamed(q, kind)
           \/ HitScreened(q, kind)
    PROVE  Moves(q)
<1>1. CASE \E fallbacks \in BOOLEAN : Miss(q, kind, fallbacks)
  <2>1. PICK fallbacks \in BOOLEAN : Miss(q, kind, fallbacks)
    BY <1>1
  <2> DEFINE s == [New EXCEPT !.kind = kind, !.pc = "run", !.fallbacks = fallbacks,
                              !.invoked = Chain[1]]
  <2>2. request[q] = New /\ Update(q, s) /\ UNCHANGED cache
    BY <2>1 DEF Miss
  <2>3. Advances(New, s)
    BY MissAdvances
  <2> HIDE DEF s
  <2> QED
    BY <2>2, <2>3, Kept
<1>2. ASSUME HasEntry(q, kind)
      PROVE  /\ request[q] = New /\ ApiOf[kind] \in Apis
             /\ cache[ApiOf[kind]] \in EntryRecord
             /\ Good(ApiOf[kind], cache[ApiOf[kind]])
  <2>1. request[q] = New /\ ApiOf[kind] # None /\ cache[ApiOf[kind]] # None
    BY <1>2 DEF HasEntry
  <2>2. ApiOf[kind] \in Apis
    BY <2>1 DEF ApiOf, Apis
  <2> QED
    BY <2>1, <2>2, CacheIs DEF IInv, Typed
<1>3. CASE HitStreamed(q, kind)
  <2> DEFINE entry == cache["chat"]
             s == Ended(Served(kind, entry), "hit")
  <2>1. HasEntry(q, kind) /\ kind \in ChatStreams /\ Update(q, s) /\ UNCHANGED cache
    BY <1>3 DEF HitStreamed
  <2>2. ApiOf[kind] = "chat"
    BY <2>1 DEF ApiOf
  <2>3. Advances(New, s)
    <3>1. request[q] = New /\ "chat" \in Apis /\ entry \in EntryRecord /\ Good("chat", entry)
      BY <1>2, <2>1, <2>2
    <3> HIDE DEF entry
    <3> QED
      BY <2>2, <3>1, HitAdvances
  <2> HIDE DEF s
  <2> QED
    BY <1>2, <2>1, <2>3, Kept
<1>4. CASE HitScreened(q, kind)
  <2> DEFINE entry == cache[ApiOf[kind]]
  <2>1. PICK s : /\ HasEntry(q, kind) /\ Update(q, s) /\ UNCHANGED cache
                 /\ \/ s = Ended(Served(kind, entry), "hit")
                    \/ s = Ended(Served(kind, entry), "blocked")
                    \/ s = Ended([Served(kind, entry) EXCEPT !.refused = TRUE], "hit")
    BY <1>4 DEF HitScreened
  <2>2. request[q] = New /\ ApiOf[kind] \in Apis /\ entry \in EntryRecord
        /\ Good(ApiOf[kind], entry)
    BY <1>2, <2>1
  <2> HIDE DEF entry
  <2>3. Advances(New, s)
    BY <2>1, <2>2, HitAdvances
  <2> QED
    BY <2>1, <2>2, <2>3, Kept
<1> QED
  BY <1>1, <1>3, <1>4

LEMMA Invokes ==
    ASSUME IInv, NEW q \in Requests,
           \/ Yields(q) \/ StreamEnds(q) \/ NativeStreamEnds(q) \/ TranscriptEnds(q)
           \/ Completes(q) \/ Responds(q) \/ Embeds(q) \/ Transcribes(q)
    PROVE  Moves(q)
<1> DEFINE r == request[q]
<1>1. r.pc = "run" /\ UNCHANGED cache
  BY DEF Yields, StreamEnds, NativeStreamEnds, TranscriptEnds, StreamOver,
         Completes, Responds, Embeds, Transcribes
<1>2. r \in RequestRecord /\ Sound(r)
  BY <1>1, Known
<1>3. CASE Yields(q)
  <2> DEFINE m == Current(r)
             i == r.got[m] + 1
             usage == Carried(r.kind, m, i)
             s == Yielded(r)
  <2>1. r.kind \in Streams /\ i <= Length /\ Update(q, s)
    BY <1>3 DEF Yields, Yielded
  <2> HIDE DEF r
  <2>2. /\ s \in RequestRecord
        /\ s.got = [r.got EXCEPT ![m] = i]
        /\ s.first = IF r.first = None THEN m ELSE r.first
        /\ s.stats = r.stats \cup usage
        /\ s.final = IF usage # {} \/ (r.kind \in NativeStreams /\ i = Length)
                     THEN [model |-> m, units |-> usage] ELSE r.final
        /\ s.kind = r.kind /\ s.pc = r.pc /\ s.pos = r.pos /\ s.mixed = r.mixed
        /\ s.invoked = r.invoked /\ s.triggered = r.triggered /\ s.end = r.end
        /\ s.refused = r.refused /\ s.records = r.records /\ s.charged = r.charged
    BY <1>2, <2>1, YieldIs
  <2> HIDE DEF s
  <2>3. Advances(r, s)
    BY <1>1, <1>2, <2>1, <2>2, YieldsAdvances
  <2> QED
    BY <1>1, <2>1, <2>3, Kept DEF r
<1>4. CASE StreamEnds(q)
  <2> DEFINE s == Continued(Recorded(
                 [r EXCEPT !.invoked = Current(r), !.triggered = r.pos > 1]), AfterStream(r))
  <2>1. StreamOver(r) /\ r.kind \in ChatStreams /\ Update(q, s)
    BY <1>4 DEF StreamEnds
  <2>2. Advances(r, s)
    BY <1>2, <2>1, StreamEndsAdvances
  <2> HIDE DEF s
  <2> QED
    BY <1>1, <2>1, <2>2, Kept
<1>5. CASE NativeStreamEnds(q)
  <2> DEFINE s == Continued(Recorded(r), AfterStream(r))
  <2>1. StreamOver(r) /\ r.kind \in NativeStreams /\ Update(q, s)
    BY <1>5 DEF NativeStreamEnds
  <2>2. Advances(r, s)
    BY <1>2, <2>1, NativeStreamEndsAdvances
  <2> HIDE DEF s
  <2> QED
    BY <1>1, <2>1, <2>2, Kept
<1>6. CASE TranscriptEnds(q)
  <2> DEFINE s == Continued(Recorded(
                 [r EXCEPT !.invoked = Current(r), !.triggered = r.pos > 1]), AfterStream(r))
  <2>1. StreamOver(r) /\ r.kind = "transcript" /\ Update(q, s)
    BY <1>6 DEF TranscriptEnds
  <2>2. Advances(r, s)
    BY <1>2, <2>1, TranscriptEndsAdvances
  <2> HIDE DEF s
  <2> QED
    BY <1>1, <2>1, <2>2, Kept
<1>7. CASE Completes(q)
  <2> DEFINE s == IF AnsweredBy(r).stats = {} THEN Continued(AnsweredBy(r), "guard")
                  ELSE Continued(Recorded(AnsweredBy(r)), "charge")
  <2>1. r.kind = "complete" /\ Update(q, s)
    BY <1>7 DEF Completes
  <2>2. Advances(r, s)
    BY <1>1, <1>2, <2>1, CompletesAdvances
  <2> HIDE DEF s
  <2> QED
    BY <1>1, <2>1, <2>2, Kept
<1>8. CASE Responds(q)
  <2> DEFINE s == Continued(Recorded(AnsweredBy(r)), "guard")
  <2>1. r.kind = "response" /\ Update(q, s)
    BY <1>8 DEF Responds
  <2>2. Advances(r, s)
    BY <1>1, <1>2, <2>1, RespondsAdvances
  <2> HIDE DEF s
  <2> QED
    BY <1>1, <2>1, <2>2, Kept
<1>9. CASE Embeds(q) \/ Transcribes(q)
  <2> DEFINE s == Ended(Recorded(AnsweredBy(r)), "ok")
  <2>1. r.kind \in {"embed", "transcribe"} /\ Update(q, s)
    BY <1>9 DEF Embeds, Transcribes
  <2>2. Advances(r, s)
    BY <1>1, <1>2, <2>1, PlainAdvances
  <2> HIDE DEF s
  <2> QED
    BY <1>1, <2>1, <2>2, Kept
<1> QED
  BY <1>3, <1>4, <1>5, <1>6, <1>7, <1>8, <1>9

LEMMA Fails ==
    ASSUME IInv, NEW q \in Requests, Breaks(q) \/ Refuses(q) \/ Leaves(q)
    PROVE  Moves(q)
<1> DEFINE r == request[q]
<1>1. r.pc \in {"run", "charge", "store"} /\ UNCHANGED cache
  BY DEF Breaks, Refuses, Leaves
<1>2. r \in RequestRecord /\ Sound(r)
  BY <1>1, Known
<1>3. PICK s : /\ Update(q, s)
               /\ \/ r.pc = "run" /\ r.kind # "decide" /\ MayFallBack(r) /\ s = NextAttempt(r)
                  \/ r.pc = "run" /\ \E how \in {"error", "left"} :
                        \/ s = Ended(r, how)
                        \/ r.kind \in AlwaysRecorded /\ s = Ended(Recorded(r), how)
                  \/ r.pc \in {"charge", "store"} /\ r.kind \in Direct /\ s = Ended(r, "left")
  <2>1. CASE Breaks(q)
    BY <2>1 DEF Breaks
  <2>2. CASE Refuses(q)
    BY <2>2 DEF Refuses
  <2>3. CASE Leaves(q)
    BY <2>3 DEF Leaves
  <2> QED
    BY <2>1, <2>2, <2>3
<1> HIDE DEF r
<1>4. Advances(r, s)
  BY <1>2, <1>3, FallsBack, FailsAdvances, LeavesLate
<1> QED
  BY <1>1, <1>3, <1>4, Kept DEF r

LEMMA Decided ==
    ASSUME IInv, NEW q \in Requests,
           NEW outcome \in {"success", "refused", "transient", "none"}, Decides(q, outcome)
    PROVE  Moves(q)
<1> DEFINE r == request[q]
           seen == [r EXCEPT !.invoked = IF outcome = "none" THEN @ ELSE Current(r),
                             !.triggered = r.pos > 1]
<1>1. r.pc = "run" /\ r.kind = "decide" /\ UNCHANGED cache
  BY DEF Decides
<1>2. r \in RequestRecord /\ Sound(r)
  BY <1>1, Known
<1>3. PICK s : /\ Update(q, s)
               /\ \/ /\ outcome = "success"
                     /\ s = Ended(Recorded(Success(r, seen)), "ok")
                  \/ s = Ended(seen, "error")
                  \/ Later(r) # {} /\ s = [seen EXCEPT !.pos = Soonest(Later(r))]
  BY DEF Decides, Success
<1>4. Asked(r, seen) /\ (outcome = "success" => seen.invoked = Current(r))
  BY <1>1, <1>2, AskedIs
<1> HIDE DEF seen, r
<1>5. Advances(r, s)
  BY <1>1, <1>2, <1>3, <1>4, DecidesWell, DecidesBadly, DecidesLater
<1> QED
  BY <1>1, <1>3, <1>5, Kept DEF r

LEMMA Handles ==
    ASSUME IInv, NEW q \in Requests,
           Passes(q) \/ Blocks(q) \/ BlocksSoftly(q) \/ Charge(q)
    PROVE  Moves(q)
<1> DEFINE r == request[q]
<1>1. r.pc \in {"guard", "charge"} /\ UNCHANGED cache
  BY DEF Passes, Blocks, BlocksSoftly, Charge
<1>2. r \in RequestRecord /\ Sound(r)
  BY <1>1, Known
<1>3. r.pc = "guard" => AfterGuard[r.kind] \in {"store", "charge"}
  <2>1. r.pc = "guard" => r.kind \in {"buffered", "held", "complete", "response"}
    BY <1>2, SoundFacts DEF PastRun, Handling, ChatStreams, NativeStreams, Direct
  <2> QED
    BY <2>1 DEF AfterGuard
<1>4. CASE Passes(q)
  <2> DEFINE pc == AfterGuard[r.kind]
             s == [r EXCEPT !.pc = pc]
  <2>1. r.pc = "guard" /\ Update(q, s)
    BY <1>4 DEF Passes
  <2> HIDE DEF r, pc
  <2>2. /\ s \in RequestRecord /\ SameReply(r, s) /\ s.pc = pc
        /\ s.final = r.final /\ s.end = r.end /\ s.records = r.records
        /\ s.record = r.record /\ s.charged = r.charged
    <3>1. pc \in {"store", "charge"}
      BY <1>3, <2>1 DEF pc
    <3> QED
      BY <1>2, <3>1 DEF RequestRecord, SameReply
  <2> HIDE DEF s
  <2>3. Advances(r, s)
    BY <1>2, <2>1, <2>2, PassesAdvances DEF pc
  <2> QED
    BY <1>1, <2>1, <2>3, Kept DEF r
<1>5. CASE BlocksSoftly(q)
  <2> DEFINE pc == AfterGuard[r.kind]
             s == [r EXCEPT !.pc = pc, !.refused = TRUE]
  <2>1. r.pc = "guard" /\ Update(q, s)
    BY <1>5 DEF BlocksSoftly
  <2> HIDE DEF r, pc
  <2>2. /\ s \in RequestRecord /\ SameReply(r, s) /\ s.pc = pc
        /\ s.final = r.final /\ s.end = r.end /\ s.records = r.records
        /\ s.record = r.record /\ s.charged = r.charged
    <3>1. pc \in {"store", "charge"}
      BY <1>3, <2>1 DEF pc
    <3> QED
      BY ZenonT(60), <1>2, <3>1 DEF RequestRecord, SameReply
  <2> HIDE DEF s
  <2>3. Advances(r, s)
    BY <1>2, <2>1, <2>2, PassesAdvances DEF pc
  <2> QED
    BY <1>1, <2>1, <2>3, Kept DEF r
<1>6. CASE Blocks(q)
  <2> DEFINE s == Ended(r, "blocked")
  <2>1. r.pc = "guard" /\ Update(q, s)
    BY <1>6 DEF Blocks
  <2>2. Advances(r, s)
    BY <1>2, <2>1, BlocksAdvances
  <2> HIDE DEF s
  <2> QED
    BY <1>1, <2>1, <2>2, Kept
<1>7. CASE Charge(q)
  <2> DEFINE s == Continued([r EXCEPT !.charged = r.final], AfterCharge[r.kind])
  <2>1. r.pc = "charge" /\ Update(q, s)
    BY <1>7 DEF Charge
  <2>2. Advances(r, s)
    BY <1>2, <2>1, ChargeAdvances
  <2> HIDE DEF s
  <2> QED
    BY <1>1, <2>1, <2>2, Kept
<1> QED
  BY <1>4, <1>5, <1>6, <1>7

LEMMA Stores ==
    ASSUME IInv, NEW q \in Requests, Store(q)
    PROVE  Moves(q)
<1> DEFINE r == request[q]
           api == ApiOf[r.kind]
           s == Continued(r, IF r.kind = "buffered" /\ r.final # None THEN "charge" ELSE "done")
<1>1. r.pc = "store" /\ Update(q, s)
      /\ (cache' = [cache EXCEPT ![api] = Entry(r)] \/ UNCHANGED cache)
  BY DEF Store
<1>2. r \in RequestRecord /\ Sound(r)
  BY <1>1, Known
<1>3. Advances(r, s)
  BY <1>1, <1>2, StoreAdvances
<1> HIDE DEF s
<1>4. CASE UNCHANGED cache
  BY <1>1, <1>3, <1>4, Kept
<1>5. CASE cache' = [cache EXCEPT ![api] = Entry(r)]
  <2>1. api \in Apis /\ Entry(r) \in EntryRecord /\ Good(api, Entry(r))
    BY <1>1, <1>2, HandlingFacts, StoredGood DEF PastRun
  <2> HIDE DEF api
  <2>2. /\ cache' \in [Apis -> EntryRecord \cup {None}]
        /\ \A a \in Apis : cache'[a] = cache[a] \/ Good(a, cache'[a])
    BY <1>5, <2>1 DEF IInv, Typed
  <2> QED
    BY <1>1, <1>3, <2>2 DEF Moves
<1> QED
  BY <1>1, <1>4, <1>5

LEMMA StepMoves ==
    ASSUME IInv, NEW q \in Requests, Step(q)
    PROVE  Moves(q)
<1>1. ASSUME NEW kind \in Kinds,
             \/ Miss(q, kind, TRUE)
             \/ kind \in NativeStreams \cup {"response"} /\ Miss(q, kind, FALSE)
             \/ HitStreamed(q, kind) \/ HitScreened(q, kind)
      PROVE  Moves(q)
  BY <1>1, Begins
<1> QED
  BY <1>1, Invokes, Fails, Decided, Handles, Stores DEF Step

LEMMA MoveHolds ==
    ASSUME IInv, NEW q \in Requests, Moves(q)
    PROVE  IInv' /\ [Reply!Next]_([p \in Requests |-> View(request[p])])
<1>1. PICK s : Advances(request[q], s) /\ Update(q, s)
  BY DEF Moves
<1>2. /\ request' \in [Requests -> RequestRecord \cup {New}]
      /\ request'[q] = s /\ \A p \in Requests \ {q} : request'[p] = request[p]
  BY <1>1 DEF Advances, Update, IInv, Typed
<1>3. Typed'
  BY <1>2 DEF Moves, Typed
<1>4. ASSUME NEW p \in Requests PROVE Sound(request'[p])
  <2>1. CASE p = q
    BY <1>1, <1>2, <2>1 DEF Advances
  <2>2. CASE p # q
    BY <1>2, <2>2, Known
  <2> QED
    BY <2>1, <2>2
<1>5. CacheWhole'
  <2>1. ASSUME NEW api \in Apis, cache'[api] # None PROVE Good(api, cache'[api])
    BY <2>1, CacheIs DEF IInv, Moves
  <2> QED
    BY <2>1 DEF CacheWhole, Good
<1>6. (\A p \in Requests : Sound(request[p]))'
  BY <1>4
<1>7. [Reply!Next]_([p \in Requests |-> View(request[p])])
  BY <1>1, Lift DEF Advances, IInv, Typed
<1> QED
  BY <1>3, <1>5, <1>6, <1>7 DEF IInv

LEMMA ExpireHolds ==
    ASSUME IInv, NEW api \in Apis, Expire(api)
    PROVE  IInv' /\ UNCHANGED [p \in Requests |-> View(request[p])]
<1>1. request' = request /\ cache' = [cache EXCEPT ![api] = None]
  BY DEF Expire
<1>2. Typed'
  BY <1>1 DEF IInv, Typed
<1>3. CacheWhole'
  BY <1>1 DEF IInv, Typed, CacheWhole
<1>4. (\A p \in Requests : Sound(request[p]))'
  BY <1>1 DEF IInv
<1> QED
  BY <1>1, <1>2, <1>3, <1>4 DEF IInv

LEMMA NextHolds ==
    ASSUME IInv, [Next]_vars
    PROVE  IInv' /\ [Reply!Next]_([p \in Requests |-> View(request[p])])
<1>1. ASSUME NEW q \in Requests, Step(q)
      PROVE  IInv' /\ [Reply!Next]_([p \in Requests |-> View(request[p])])
  BY <1>1, StepMoves, MoveHolds
<1>2. ASSUME NEW api \in Apis, Expire(api)
      PROVE  IInv' /\ [Reply!Next]_([p \in Requests |-> View(request[p])])
  BY <1>2, ExpireHolds
<1>3. CASE UNCHANGED vars
  <2>1. request' = request /\ cache' = cache
    BY <1>3 DEF vars
  <2>2. Typed' /\ CacheWhole' /\ (\A p \in Requests : Sound(request[p]))'
    BY <2>1 DEF IInv, Typed, CacheWhole
  <2> QED
    BY <2>1, <2>2 DEF IInv
<1> QED
  BY <1>1, <1>2, <1>3 DEF Next

LEMMA InitHolds ==
    ASSUME Init
    PROVE  IInv
<1>1. Typed
  BY DEF Init, Typed
<1>2. \A q \in Requests : Sound(request[q])
  BY NewFacts DEF Init, Sound
<1>3. CacheWhole
  BY DEF Init, CacheWhole
<1> QED
  BY <1>1, <1>2, <1>3 DEF IInv

-----------------------------------------------------------------------------
(* The theorems.                                                             *)

\* The inductive invariant: types, how the pieces, the usage and the record of every
\* request fit together where its handler is, and what the cache holds.
THEOREM Inductive == Spec => []IInv
<1>1. Init => IInv
  BY InitHolds
<1>2. IInv /\ [Next]_vars => IInv'
  BY NextHolds
<1> QED
  BY <1>1, <1>2, PTL DEF Spec

\* Every request and every cache entry is of its type.
THEOREM TypeCorrect == Spec => []Typed
<1>1. IInv => Typed
  BY DEF IInv
<1> QED
  BY <1>1, Inductive, PTL

\* A request that ended is recorded under the model that answered it, with that model's
\* usage, and the limits are charged what was recorded (_record_metrics, _count_usage).
THEOREM AccountsAgreeHolds == Spec => []AccountsAgree
<1>1. IInv => AccountsAgree
  BY DEF IInv, AccountsAgree, Sound
<1> QED
  BY <1>1, Inductive, PTL

\* The cache holds whole replies of one model (the cache of the chat and Responses API).
THEOREM CacheWholeHolds == Spec => []CacheWhole
<1>1. IInv => CacheWhole
  BY DEF IInv
<1> QED
  BY <1>1, Inductive, PTL

\* Whatever breaks, falls back or comes from the cache, a client is given the pieces of
\* one model, in order, and a whole reply only once that model gave all of it.
THEOREM RepliesRefined == Spec => ReplySpec
<1>1. Init => Reply!Init
  <2> SUFFICES ASSUME Init PROVE Reply!Init
    OBVIOUS
  <2>1. \A q \in Requests : View(request[q]) = Reply!Unanswered
    BY ViewNew DEF Init, Reply!Unanswered, Silent
  <2> QED
    BY <2>1 DEF Reply!Init
<1>2. IInv /\ [Next]_vars => [Reply!Next]_([q \in Requests |-> View(request[q])])
  BY NextHolds
<1> QED
  BY <1>1, <1>2, Inductive, PTL DEF Spec, ReplySpec, Reply!Spec
=============================================================================
