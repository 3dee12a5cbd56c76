--------------------------- MODULE DispatchPolicy ---------------------------
(***************************************************************************)
(* The vocabulary and the pure placement policy of execution dispatches:   *)
(* packages/contracts/turn-plane/placement.ts and                          *)
(* workers/cloud-builder/src/dispatch-policy.ts.                           *)
(*                                                                         *)
(* A dispatch is "run this prompt somewhere".  The policy decides, from    *)
(* who asked (ingress), what the work is about (subject) and the executor  *)
(* the user picked (target mode), whether the work is committed to a       *)
(* place at once, offered to computers with a fallback, or blocked.        *)
(***************************************************************************)

Kind == {"chat", "agent"}

Subject == {"computer", "portable", "cloud"}

TargetMode == {"automatic", "device", "cloud"}

\* "browser" stands for every ingress that is neither a desktop nor a phone
\* and reaches the gate through the public route (browser, schedule, Slack).
\* "cloud" is the cloud agent that spawns work onto one of the computers.
Ingress == {"desktop", "mobile", "browser", "cloud"}

TerminalDispatchState == {"completed", "failed", "canceled", "blocked"}

DispatchState ==
    TerminalDispatchState \cup
    {"offering", "computer_claimed", "computer_accepted", "computer_running",
     "cloud_committed", "cloud_running", "cancel_pending",
     "reconciliation_required"}

IsTerminalDispatchState(state) == state \in TerminalDispatchState

\* The states in which no computer has durably accepted the work.
MayFallbackToCloud(state) == state \in {"offering", "computer_claimed"}

Commit(place) == [kind |-> "commit", place |-> place]
Offer(onNo) == [kind |-> "offer", place |-> onNo]
Blocked == [kind |-> "blocked", place |-> "none"]

\* The clauses of decideDispatchPlacement, first match wins.
DecideDispatchPlacement(ingress, subject, target) ==
    CASE target = "cloud"     -> Commit("cloud")
      [] target = "device"    -> Offer(IF subject = "computer"
                                       THEN "blocked" ELSE "cloud")
      [] target = "automatic" ->
            CASE subject = "cloud" -> Commit("cloud")
              [] subject # "cloud" /\ ingress = "desktop" -> Commit("computer")
              [] subject # "cloud" /\ ingress = "mobile"  -> Offer("cloud")
              [] subject = "computer" /\ ingress \notin {"desktop", "mobile"} -> Blocked
              [] subject = "portable" /\ ingress \notin {"desktop", "mobile"} -> Commit("cloud")

\* What reaches the gate.  The public route lets only an ingress with a device
\* behind it claim local work; the cloud agents and the handoff of a cloud
\* conversation call the gate directly and always name the device they want.
Submittable(ingress, subject, target) ==
    \/ ingress \in {"desktop", "mobile"}
    \/ subject = "cloud"
    \/ ingress = "cloud" /\ target = "device"

=============================================================================
