--------------------------- MODULE MCModelGateway ---------------------------
(* Model values for ModelGateway. *)
EXTENDS ModelGateway

CONSTANTS q1, q2

TwoRequests == {q1, q2}

\* The second request is there for the slot, the budget and the count that
\* requests share: it is presented once, not canceled and not reported.
SecondIsPlain ==
    /\ \A k \in Calls : k > 1 => call[q2][k].at = "none"
    /\ q2 \notin canceled
    /\ \A e \in queue : e.req = q1

=============================================================================
