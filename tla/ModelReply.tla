----------------------------- MODULE ModelReply -----------------------------
(***************************************************************************)
(* What a client is promised of a reply: every piece of it comes from one  *)
(* model, in that model's order, and it is whole only once that model gave *)
(* all of it.  Which models are tried, what is buffered and what comes out *)
(* of a cache does not show.                                               *)
(***************************************************************************)
EXTENDS Naturals

CONSTANTS Requests, Models, Length

VARIABLE reply  \* reply[q]: which models gave it, how much was shown, its end

Unanswered == [from |-> {}, shown |-> 0, over |-> "no"]

Init == reply = [q \in Requests |-> Unanswered]

Piece(q, m) ==
    /\ reply[q].over = "no"
    /\ reply[q].from \subseteq {m}
    /\ reply[q].shown < Length
    /\ reply' = [reply EXCEPT ![q].from = {m}, ![q].shown = @ + 1]

(* What is shown in one go, when no more will come.                        *)
AtOnce(q, m, n) ==
    /\ reply[q] = Unanswered
    /\ reply' = [reply EXCEPT ![q] =
            [from |-> {m}, shown |-> n, over |-> IF n = Length THEN "whole" ELSE "cut"]]

Finish(q) ==
    /\ reply[q].over = "no"
    /\ reply[q].shown = Length
    /\ reply' = [reply EXCEPT ![q].over = "whole"]

(* An error, a block, or a client that leaves.                             *)
Stop(q) ==
    /\ reply[q].over = "no"
    /\ reply' = [reply EXCEPT ![q].over = "cut"]

Next == \E q \in Requests :
            \/ \E m \in Models :
                  Piece(q, m) \/ \E n \in 1..Length : AtOnce(q, m, n)
            \/ Finish(q) \/ Stop(q)

Spec == Init /\ [][Next]_reply

=============================================================================
