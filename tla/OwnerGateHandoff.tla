-------------------------- MODULE OwnerGateHandoff --------------------------
(* The owner gate implements the handoff it promises to computers.  A       *)
(* summary is a projection of the row: dispatchSummary shows its state,     *)
(* placement and executor and none of its deadlines.                        *)
EXTENDS OwnerGate

\* The presence session means nothing once the executor column is NULL.
Summary(r) ==
    [state |-> r.state, placement |-> r.placement, exec |-> r.exec,
     sess |-> IF r.exec = NoDevice THEN 0 ELSE r.sess]

Handoff ==
    INSTANCE DispatchHandoff
    WITH summary <- [d \in Dispatch |-> Summary(row[d])],
         presence <- [p \in Device |-> [connected |-> presence[p].connected,
                                        sess |-> presence[p].sess]]

\* The gate implements DispatchHandoff: whatever its alarm, late answers and
\* evictions do, a computer sees accepted work stay with the session that
\* acknowledged it until that session ends it or the user stops it.
ImplementsHandoff == Handoff!Spec

=============================================================================
