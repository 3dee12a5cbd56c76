-------------------------- MODULE DispatchHandoff --------------------------
(***************************************************************************)
(* What the owner gate promises a computer about a dispatch: the columns   *)
(* of its summary (state, placement, executor and the executor's presence  *)
(* session) and how they may move.  Deadlines, payloads, admissions, cloud *)
(* starts and the alarm are internal to the gate; here a fallback or a     *)
(* lapsed lease simply happens.  OwnerGate implements this specification;  *)
(* Placement composes it with the desktop bridge.                          *)
(***************************************************************************)
EXTENDS Naturals, DispatchPolicy

CONSTANTS Dispatch, Device, NoDevice, MaxSession

VARIABLES
    summary,    \* what a status read or a dispatch frame says
    presence    \* the proven socket of each computer

vars == <<summary, presence>>

SummaryType ==
    [state     : DispatchState \cup {"absent"},
     placement : {"none", "computer", "cloud"},
     exec      : Device \cup {NoDevice},
     sess      : Nat]

TypeOK ==
    /\ summary \in [Dispatch -> SummaryType]
    /\ presence \in [Device -> [connected : BOOLEAN, sess : Nat]]

Unplaced(state) == [state |-> state, placement |-> "none", exec |-> NoDevice, sess |-> 0]
OnCloud(state)  == [state |-> state, placement |-> "cloud", exec |-> NoDevice, sess |-> 0]

CloudState == {"cloud_committed", "cloud_running", "cancel_pending",
               "reconciliation_required", "blocked"} \cup {"completed", "failed", "canceled"}

Init ==
    /\ summary = [d \in Dispatch |-> Unplaced("absent")]
    /\ presence = [p \in Device |-> [connected |-> FALSE, sess |-> 0]]

Put(d, s) == summary' = [summary EXCEPT ![d] = s]

Move(d, state) == summary' = [summary EXCEPT ![d].state = state]

-----------------------------------------------------------------------------

SubmitOffered(d) ==
    /\ summary[d].state = "absent"
    /\ Put(d, Unplaced("offering"))
    /\ UNCHANGED presence

SubmitOwn(d, p) ==
    /\ summary[d].state = "absent"
    /\ Put(d, [state |-> "computer_accepted", placement |-> "computer",
               exec |-> p, sess |-> presence[p].sess])
    /\ UNCHANGED presence

\* Work that never reaches a computer.
SubmitElsewhere(d) ==
    /\ summary[d].state = "absent"
    /\ \/ Put(d, Unplaced("blocked"))
       \/ \E state \in {"cloud_committed", "failed"} : Put(d, OnCloud(state))
    /\ UNCHANGED presence

Claim(p, d) ==
    /\ summary[d].state = "offering" /\ presence[p].connected
    /\ Put(d, [state |-> "computer_claimed", placement |-> "none",
               exec |-> p, sess |-> presence[p].sess])
    /\ UNCHANGED presence

\* Nobody took it, its claim lapsed or was released.  An alarm that acts on a
\* row it read earlier may give work to the cloud that has ended unplaced.
Fallback(d) ==
    /\ summary[d].state # "absent" /\ summary[d].placement = "none"
    /\ \/ \E state \in {"cloud_committed", "failed"} : Put(d, OnCloud(state))
       \/ Put(d, Unplaced("blocked"))
    /\ UNCHANGED presence

\* The cloud side goes its own way: it starts, retries, ends, and never comes
\* back to a computer.
CloudMoves(d) ==
    /\ summary[d].placement = "cloud"
    /\ \E state \in CloudState : Put(d, OnCloud(state))
    /\ UNCHANGED presence

\* A frame counts only from the session that holds the claim.
Owns(p, d) ==
    presence[p].connected /\ summary[d].exec = p /\ summary[d].sess = presence[p].sess

Ack(p, d) ==
    /\ Owns(p, d) /\ summary[d].state = "computer_claimed"
    /\ summary' = [summary EXCEPT ![d].state = "computer_accepted",
                                  ![d].placement = "computer"]
    /\ UNCHANGED presence

Running(p, d) ==
    /\ Owns(p, d)
    /\ summary[d].state \in {"computer_accepted", "computer_running", "reconciliation_required"}
    /\ Move(d, "computer_running")
    /\ UNCHANGED presence

AcceptedState == {"computer_accepted", "computer_running", "cancel_pending",
                  "reconciliation_required"}

\* A renewed lease also brings a dispatch back from reconciliation.
Renew(p, d) ==
    /\ Owns(p, d) /\ summary[d].state \in AcceptedState
    /\ \E state \in {"computer_accepted", "computer_running"} :
         Move(d, IF summary[d].state = "reconciliation_required"
                 THEN state ELSE summary[d].state)
    /\ UNCHANGED presence

Complete(p, d, outcome) ==
    /\ Owns(p, d) /\ summary[d].state \in AcceptedState
    /\ Move(d, outcome)
    /\ UNCHANGED presence

\* Unaccepted work is canceled outright, accepted work asks its computer.
Stop(d) ==
    /\ ~IsTerminalDispatchState(summary[d].state)
    /\ \/ /\ MayFallbackToCloud(summary[d].state)
          /\ Put(d, Unplaced("canceled"))
       \/ /\ summary[d].placement = "computer"
          /\ Move(d, "cancel_pending")
    /\ UNCHANGED presence

\* The lease lapsed.  The alarm may notice late, after the computer's terminal.
LeaseLapses(d) ==
    /\ summary[d].placement = "computer"
    /\ Move(d, "reconciliation_required")
    /\ UNCHANGED presence

\* A socket is proven under the computer's session, or is gone.
Connect(p, sess) ==
    /\ sess \in 1 .. MaxSession /\ sess >= presence[p].sess
    /\ presence' = [presence EXCEPT ![p] = [connected |-> TRUE, sess |-> sess]]
    /\ UNCHANGED summary

Disconnect(p) ==
    /\ presence[p].connected
    /\ presence' = [presence EXCEPT ![p].connected = FALSE]
    /\ UNCHANGED summary

-----------------------------------------------------------------------------

Next ==
    \/ \E d \in Dispatch :
         \/ SubmitOffered(d) \/ SubmitElsewhere(d)
         \/ Fallback(d) \/ CloudMoves(d) \/ Stop(d) \/ LeaseLapses(d)
         \/ \E p \in Device :
              \/ SubmitOwn(d, p) \/ Claim(p, d)
              \/ Ack(p, d) \/ Running(p, d) \/ Renew(p, d)
              \/ \E outcome \in {"completed", "failed", "canceled"} : Complete(p, d, outcome)
    \/ \E p \in Device : Disconnect(p) \/ \E sess \in 1 .. MaxSession : Connect(p, sess)

Spec == Init /\ [][Next]_vars

=============================================================================
