---------------------------- MODULE MCOwnerGate ----------------------------
(* The owner gate for TLC: model values for dispatches and computers, and   *)
(* the bounds of the runs with two dispatches.                              *)
EXTENDS OwnerGateHandoff, TLC

CONSTANTS d1, d2, pc

OneDispatch == {d1}
TwoDispatches == {d1, d2}
OneComputer == {pc}
DispatchSymmetry == Permutations(Dispatch)

\* Bound: the first quarter of an hour, in which offers (4 s), claims (30 s),
\* leases (2 min) and retries expire and payloads (15 min) and slots do not.
FirstMinutes ==
    \A d \in Dispatch : row[d].payload # "lapsed" /\ running[d] # "lapsed"

\* Bound: a computer that has connected stays connected and available.
SteadyComputer ==
    \A p \in Device : presence[p].sess > 0 => presence[p].connected /\ presence[p].ready

\* Bound: nobody stops a dispatch.
NobodyStops == \A d \in Dispatch : ~row[d].stop

\* Bound: the work needs nothing the cloud lacks.
PortableWork == \A d \in Dispatch : row[d].cloudable

=============================================================================
