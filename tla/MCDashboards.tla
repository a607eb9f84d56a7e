---------------------------- MODULE MCDashboards ----------------------------
(* Dashboards with three rows: money of every kind on two routes, calls and *)
(* spending of two keys of one name at the edges of hours, days, weeks and  *)
(* months, and MCP calls of a key that moves between two groups.  An hour    *)
(* has two units, a day two hours, a week two days, a month two or three    *)
(* days; a period is charted in months when it is longer than three weeks.  *)
EXTENDS Dashboards

Arrival(k, rt, key, grp, t) == [kind |-> k, route |-> rt, key |-> key, group |-> grp, at |-> t]

MCArrivals ==
  {Arrival(k, rt, 1, 11, 13) : k \in {x \in AllKinds : x.type \notin {"mcp", "saved in", "failed"} \cup Metrics}, rt \in {"a"}}
    \cup {Arrival(Kind("in", "chat", "", FALSE, FALSE), rt, key, 11, t) :
            rt \in {"b"}, key \in {1, 2}, t \in {13, 20, 24}}
    \cup {Arrival(Kind("mcp", "", "", FALSE, FALSE), "b", e[1], e[2], t) :
            e \in {<<1, 11>>, <<1, 12>>, <<2, 11>>}, t \in {13, 24}}
    \cup {Arrival(Kind("failed", "", "", FALSE, FALSE), rt, 1, 11, 24) : rt \in {"a", "b"}}
    \cup {Arrival(Kind("fallback", "", "", FALSE, FALSE), rt, 1, 11, 20) : rt \in {"a", "b"}}

MCTimes == {13, 20, 24, 38}
MCLengths == [hours |-> 2, days |-> 4, weeks |-> 8]
MCMonthStarts == {0, 12, 20, 32, 40, 52, 60}
MCSpans == [hours |-> 8, days |-> 16, weeks |-> 24]
MCOffsets == {2}
MCNameOf == [e \in {1, 2, 11, 12} |-> "name"]
MCServed ==
  {[rt \in {"a", "b"} |-> IF rt = "a" THEN {"chat", "exact", "fallback"} ELSE {"chat", "embeddings", "transcription"}],
   [rt \in {"a"} |-> {"chat", "decision", "semantic", "transcription", "fallback"}]}
=============================================================================
