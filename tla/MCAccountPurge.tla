--------------------------- MODULE MCAccountPurge ---------------------------
(* Instances of AccountPurge for TLC. *)
EXTENDS AccountPurge

CONSTANTS turn, build, activity

OneTurn == {turn}
OneActivity == {activity}
TurnAndActivity == {turn, activity}
BuildAndActivity == {build, activity}
Nobody == {}
Both == {"reset", "delete"}

\* A reset or a deletion, not a deletion after a reset: then it may be undone
\* (v_reopened), and the reset owes nothing more.  A build takes part in a
\* deletion that is called once and fails at most once.
ResetOrDeletion ==
    /\ owner.gen = 0 \/ ~owner.closed
    /\ \/ holder[build].step = "new"
       \/ owner.gen = 0 /\ closes <= 1 /\ faults <= 1

\* A second closeOwner call meets an activity, not a turn.
SecondCloseWithoutTurn == closes <= 1 \/ holder[turn].step = "new"
=============================================================================
