--------------------------- MODULE MCDeviceTools ---------------------------
(* Tool calls on a computer for TLC. *)
EXTENDS DeviceTools, TLC

CONSTANTS c1, c2

OneCall == {c1}
TwoCalls == {c1, c2}

Alike == Permutations({c1, c2})

=============================================================================
