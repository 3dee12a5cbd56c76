---------------------------- MODULE MCPlacement ----------------------------
(* Execution placement for TLC. *)
EXTENDS Placement

CONSTANT d1

OneDispatch == {d1}

\* Bound: frames in flight in each direction.
FewFrames == Len(toGate) <= 2 /\ Len(toDevice) <= 2

\* Bound: work that went to the cloud stays as it was committed there.
CloudIsQuiet ==
    \A d \in Dispatch :
        summary[d].placement = "cloud" => summary[d].state = "cloud_committed"

=============================================================================
