---------------------------- MODULE EventDelivery ----------------------------
(***************************************************************************)
(* What a caller of the gateway's event buffers may rely on, with no timer,*)
(* thread or batch in it: an item that is offered is either refused or     *)
(* becomes pending; pending items reach the broker some at a time; an item *)
(* leaves `pending` only by being delivered or by the process ending.      *)
(* CeleryBuffer implements this specification.                             *)
(***************************************************************************)
CONSTANT Items              \* the metrics, request and alert records emitted

VARIABLES
    fresh,                  \* items no caller has finished offering yet
    pending,                \* accepted and not yet known to be delivered
    delivered,              \* items the broker holds
    refused,                \* offered to a closed buffer
    lost                    \* still pending when the process ended

vars == <<fresh, pending, delivered, refused, lost>>

Init ==
    /\ fresh = Items
    /\ pending = {}
    /\ delivered = {}
    /\ refused = {}
    /\ lost = {}

Accept(i) ==
    /\ i \in fresh
    /\ fresh' = fresh \ {i}
    /\ pending' = pending \cup {i}
    /\ UNCHANGED <<delivered, refused, lost>>

Refuse(i) ==
    /\ i \in fresh
    /\ fresh' = fresh \ {i}
    /\ refused' = refused \cup {i}
    /\ UNCHANGED <<pending, delivered, lost>>

\* The broker takes a batch and says so.
Deliver(S) ==
    /\ S \subseteq pending
    /\ pending' = pending \ S
    /\ delivered' = delivered \cup S
    /\ UNCHANGED <<fresh, refused, lost>>

\* The broker takes a batch and the confirmation is lost: the items stay
\* pending and will be delivered again (at-least-once).
DeliverUnconfirmed(S) ==
    /\ S \subseteq pending
    /\ delivered' = delivered \cup S
    /\ UNCHANGED <<fresh, pending, refused, lost>>

End ==
    /\ lost' = lost \cup pending
    /\ pending' = {}
    /\ UNCHANGED <<fresh, delivered, refused>>

Next ==
    \/ \E i \in Items : Accept(i) \/ Refuse(i)
    \/ \E S \in SUBSET Items : Deliver(S) \/ DeliverUnconfirmed(S)
    \/ End

Spec == Init /\ [][Next]_vars
=============================================================================
