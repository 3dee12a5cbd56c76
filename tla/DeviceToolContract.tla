------------------------- MODULE DeviceToolContract -------------------------
(***************************************************************************)
(* What the gate and a computer share of a tool call                       *)
(* (contracts/turn-plane/device-tools.ts).  A request id is the same on    *)
(* every attempt of one call.                                              *)
(***************************************************************************)
EXTENDS Naturals

CONSTANTS
    Request,                \* tool calls, by request id
    ConcurrentPerDevice     \* DEVICE_TOOL_LIMITS.concurrentPerDevice

\* The outcomes an agent sees.  `refused` stands for the codes that leave every
\* side as it was (bad_request, not_enabled, not_ready, too_large); `no_record`
\* is the `failed` a computer answers to a resent call it never had.
Code == {"ok", "canceled", "timeout", "device_offline", "device_busy", "unsupported",
         "refused", "failed", "no_record"}

DownFrame == [conn : Nat, type : {"connected", "call", "resume", "cancel"}, r : Request]

UpFrameType == [conn : Nat, type : {"accepted", "answer"}, r : Request, code : Code]

=============================================================================
