------------------------- MODULE OwnerGateRefinement -------------------------
(***************************************************************************)
(* The owner gate implements DispatchHandoff, for any number of            *)
(* dispatches, computers, presence sessions and evictions: every step of   *)
(* the gate is a step of the handoff on the summaries it shows, or changes *)
(* none of them.                                                           *)
(***************************************************************************)
EXTENDS OwnerGatePlacement, OwnerGateHandoff

Shown == [d \in Dispatch |-> Summary(row[d])]

Sessions == [p \in Device |-> [connected |-> presence[p].connected,
                               sess |-> presence[p].sess]]

\* The summary of a dispatch follows its row, and no other summary moves.
LEMMA ShownMoves ==
    ASSUME NEW d \in Dispatch, \A e \in Dispatch \ {d} : row'[e] = row[e]
    PROVE  Shown' = [Shown EXCEPT ![d] = Summary(row'[d])]
  BY DEF Shown

LEMMA SummaryFields ==
    ASSUME NEW r
    PROVE  /\ Summary(r).state = r.state /\ Summary(r).placement = r.placement
           /\ Summary(r).exec = r.exec
           /\ Summary(r).sess = IF r.exec = NoDevice THEN 0 ELSE r.sess
  BY DEF Summary

\* What an acknowledgement changes of a summary.
LEMMA SummaryUpdates ==
    ASSUME NEW r, NEW s, s.exec = r.exec, s.sess = r.sess
    PROVE  Summary(s) = [Summary(r) EXCEPT !.state = s.state, !.placement = s.placement]
  <1> DEFINE n == IF r.exec = NoDevice THEN 0 ELSE r.sess
             y == [state |-> s.state, placement |-> s.placement, exec |-> r.exec, sess |-> n]
  <1>1. /\ Summary(r) \in [state : {r.state}, placement : {r.placement}, exec : {r.exec},
                           sess : {n}]
        /\ Summary(s) = y
    BY DEF Summary
  <1> HIDE DEF n
  <1>2. ASSUME NEW x \in [state : {r.state}, placement : {r.placement}, exec : {r.exec},
                          sess : {n}]
        PROVE  [x EXCEPT !.state = s.state, !.placement = s.placement] = y
    <2>1. [x EXCEPT !.state = s.state, !.placement = s.placement]
            \in [state : {s.state}, placement : {s.placement}, exec : {r.exec}, sess : {n}]
      OBVIOUS
    <2>2. \A z \in [state : {s.state}, placement : {s.placement}, exec : {r.exec},
                    sess : {n}] : z = y
      OBVIOUS
    <2> QED
      BY <2>1, <2>2
  <1> HIDE DEF y
  <1> QED
    BY <1>1, <1>2

\* A step that leaves the columns of the summary alone is a stutter.
LEMMA Stutter ==
    ASSUME TypeOK, NEW d \in Dispatch, \A e \in Dispatch \ {d} : row'[e] = row[e],
           row'[d].state = row[d].state, row'[d].placement = row[d].placement,
           row'[d].exec = row[d].exec, row'[d].sess = row[d].sess, presence' = presence
    PROVE  UNCHANGED Handoff!vars
  <1>1. \A e \in Dispatch : Summary(row'[e]) = Summary(row[e])
    BY DEF Summary
  <1>2. Shown' = Shown /\ Sessions' = Sessions
    BY <1>1 DEF Shown, Sessions
  <1> QED
    BY <1>2 DEF Handoff!vars, Shown, Sessions

\* A step of the handoff about one dispatch.
HandoffStep(d) ==
    \/ Handoff!SubmitOffered(d) \/ Handoff!SubmitElsewhere(d)
    \/ Handoff!Fallback(d) \/ Handoff!CloudMoves(d) \/ Handoff!Stop(d) \/ Handoff!LeaseLapses(d)
    \/ \E p \in Device :
         \/ Handoff!SubmitOwn(d, p) \/ Handoff!Claim(p, d)
         \/ Handoff!Ack(p, d) \/ Handoff!Running(p, d) \/ Handoff!Renew(p, d)
         \/ \E outcome \in {"completed", "failed", "canceled"} : Handoff!Complete(p, d, outcome)

LEMMA StepIsNext ==
    ASSUME NEW d \in Dispatch, HandoffStep(d)
    PROVE  Handoff!Next
  BY DEF HandoffStep, Handoff!Next

\* A row on the cloud side shows its state and nothing of a computer.
LEMMA CloudShows ==
    ASSUME NEW r \in RowType, CloudRow(r)
    PROVE  Summary(r) = Handoff!OnCloud(r.state) /\ r.state \in Handoff!CloudState
  BY DEF Summary, Handoff!OnCloud, Handoff!CloudState, CloudRow, RowType, DispatchState,
         TerminalDispatchState

\* Whatever the cloud side does to its row is a move of the cloud side.
LEMMA CloudSideMoves ==
    ASSUME TypeOK, TypeOK', NEW d \in Dispatch, row[d].placement = "cloud", CloudRow(row'[d]),
           \A e \in Dispatch \ {d} : row'[e] = row[e], presence' = presence
    PROVE  Handoff!CloudMoves(d)
  <1>1. row'[d] \in RowType
    BY DEF TypeOK
  <1>2. /\ Summary(row'[d]) = Handoff!OnCloud(row'[d].state)
        /\ row'[d].state \in Handoff!CloudState
    BY <1>1, CloudShows
  <1>3. Shown' = [Shown EXCEPT ![d] = Handoff!OnCloud(row'[d].state)]
    BY <1>2, ShownMoves
  <1>4. Shown[d].placement = "cloud"
    BY SummaryFields DEF Shown
  <1>5. Sessions' = Sessions
    BY DEF Sessions
  <1> QED
    BY <1>2, <1>3, <1>4, <1>5 DEF Handoff!CloudMoves, Handoff!Put, Shown, Sessions

-----------------------------------------------------------------------------
(* What the cloud branch shows: the state it was entered in, or a failure. *)

LEMMA BranchStates ==
    ASSUME NEW r \in RowType
    PROVE  /\ [r EXCEPT !.retry = "live", !.lease = "live"].state = r.state
           /\ [r EXCEPT !.cloudTurn = TRUE].state = r.state
           /\ [r EXCEPT !.gateHeld = FALSE].state = r.state
           /\ [r EXCEPT !.attempts = @ + 1, !.retry = "none"].state = r.state
           /\ [Failed(r) EXCEPT !.gateHeld = FALSE].state = "failed"
           /\ [[r EXCEPT !.state = "failed", !.lease = "none"]
                  EXCEPT !.gateHeld = FALSE].state = "failed"
  <1>1. /\ [r EXCEPT !.retry = "live", !.lease = "live"].state = r.state
        /\ [r EXCEPT !.cloudTurn = TRUE].state = r.state
        /\ [r EXCEPT !.gateHeld = FALSE].state = r.state
    BY DEF RowType
  <1>2. [r EXCEPT !.attempts = @ + 1, !.retry = "none"].state = r.state
    BY DEF RowType
  <1>3. [Failed(r) EXCEPT !.gateHeld = FALSE].state = "failed"
    BY DEF RowType, Failed
  <1>4. [[r EXCEPT !.state = "failed", !.lease = "none"] EXCEPT !.gateHeld = FALSE].state = "failed"
    BY DEF RowType
  <1> QED
    BY <1>1, <1>2, <1>3, <1>4

LEMMA RefusalState ==
    ASSUME TypeOK, NEW d \in Dispatch, NEW r \in RowType, NEW n, NEW status, NEW slots,
           CloudRefusal(d, r, n, status, slots)
    PROVE  row'[d].state \in {r.state, "failed"}
  <1>1. CASE Put(d, [r EXCEPT !.retry = "live", !.lease = "live"])
    <2>1. row'[d] = [r EXCEPT !.retry = "live", !.lease = "live"]
      BY <1>1, PutRow
    <2> QED
      BY <2>1, BranchStates
  <1>2. CASE PutAndReleaseGate(d, Failed(r), slots)
    <2>1. row'[d] = [Failed(r) EXCEPT !.gateHeld = FALSE]
      BY <1>2, ReleaseRow
    <2> QED
      BY <2>1, BranchStates
  <1> QED
    BY <1>1, <1>2 DEF CloudRefusal

LEMMA SendState ==
    ASSUME TypeOK, NEW d \in Dispatch, NEW c \in Caller, NEW r \in RowType, NEW n,
           SendAdmittedChat(d, c, r, n)
    PROVE  row'[d].state = r.state
  <1>1. CASE Put(d, [r EXCEPT !.cloudTurn = TRUE])
    <2>1. row'[d] = [r EXCEPT !.cloudTurn = TRUE]
      BY <1>1, PutRow
    <2> QED
      BY <2>1, BranchStates
  <1>2. CASE PutAndReleaseGate(d, r, running)
    <2>1. row'[d] = [r EXCEPT !.gateHeld = FALSE]
      BY <1>2, ReleaseRow
    <2> QED
      BY <2>1, BranchStates
  <1> QED
    BY <1>1, <1>2 DEF SendAdmittedChat

LEMMA BranchState ==
    ASSUME TypeOK, NEW d \in Dispatch, NEW c \in Caller, NEW r \in RowType,
           NEW payload, NEW slots, RunCloudBranch(d, c, r, payload, slots)
    PROVE  row'[d].state \in {r.state, "failed"}
  <1> DEFINE attempting == [r EXCEPT !.attempts = @ + 1, !.retry = "none"]
  <1>1. attempting \in RowType /\ attempting.state = r.state
    BY RowUpdates, BranchStates
  <1>2. CASE PutAndReleaseGate(d, Failed(r), slots)
    <2>1. row'[d] = [Failed(r) EXCEPT !.gateHeld = FALSE]
      BY <1>2, ReleaseRow
    <2> QED
      BY <2>1, BranchStates
  <1>3. CASE PutAndReleaseGate(d, [r EXCEPT !.state = "failed", !.lease = "none"], slots)
    <2>1. row'[d] = [[r EXCEPT !.state = "failed", !.lease = "none"] EXCEPT !.gateHeld = FALSE]
      BY <1>3, ReleaseRow
    <2> QED
      BY <2>1, BranchStates
  <1>4. CASE StartCloudAgent(d, c, attempting, slots)
    BY <1>1, <1>4, PutRow DEF StartCloudAgent
  <1>5. CASE StartCloudChat(d, c, attempting)
    <2>1. CASE \E n, status : CloudRefusal(d, attempting, n, status, running)
      BY <1>1, <2>1, RefusalState
    <2>2. CASE Put(d, attempting)
      BY <1>1, <2>2, PutRow
    <2>3. CASE \E n : SendAdmittedChat(d, c, attempting, n)
      BY <1>1, <2>3, SendState
    <2> QED
      BY <1>5, <2>1, <2>2, <2>3 DEF StartCloudChat
  <1> QED
    BY <1>2, <1>3, <1>4, <1>5 DEF RunCloudBranch

-----------------------------------------------------------------------------
(* The actions.                                                            *)

\* A fallback of work that no computer accepted.
LEMMA ResolveShows ==
    ASSUME TypeOK, TypeOK', NEW d \in Dispatch, Placed(d), NEW c \in Caller, NEW r \in RowType,
           row[d].placement # "computer", r.placement = row[d].placement,
           row[d].state # "absent", ResolveUnaccepted(d, c, r), presence' = presence
    PROVE  HandoffStep(d)
  <1>1. \/ /\ CloudRow(row'[d]) /\ row'[d].state \in {"cloud_committed", "failed"}
           /\ \A e \in Dispatch \ {d} : row'[e] = row[e]
        \/ /\ row'[d].state = "blocked" /\ row'[d].exec = NoDevice
           /\ row'[d].placement = row[d].placement
           /\ \A e \in Dispatch \ {d} : row'[e] = row[e]
    <2>1. CASE RunCloudBranch(d, c, CloudCommitted(r), r.payload # "none", running)
      <3>1. CloudCommitted(r) \in RowType /\ CloudRow(CloudCommitted(r))
        BY CommittedRow
      <3>2. CloudCommitted(r).state = "cloud_committed"
        BY DEF CloudCommitted, RowType
      <3> QED
        BY <2>1, <3>1, <3>2, BranchRow, BranchState DEF CloudStep
    <2>2. CASE PutAndReleaseGate(d, BlockedRow(r), running)
      <3>1. /\ row'[d] = [BlockedRow(r) EXCEPT !.gateHeld = FALSE]
            /\ \A e \in Dispatch \ {d} : row'[e] = row[e]
        BY <2>2, ReleaseRow
      <3> QED
        BY <3>1 DEF BlockedRow, RowType
    <2> QED
      BY <2>1, <2>2 DEF ResolveUnaccepted
  <1>2. row[d] \in RowType /\ row'[d] \in RowType
    BY DEF TypeOK
  <1>3. CASE row[d].placement = "cloud"
    <2>1. CloudRow(row'[d])
      BY <1>1, <1>3 DEF CloudRow
    <2> QED
      BY <1>1, <1>3, <2>1, CloudSideMoves DEF HandoffStep
  <1>4. CASE row[d].placement = "none"
    <2>1. Shown' = [Shown EXCEPT ![d] = Summary(row'[d])] /\ Sessions' = Sessions
      BY <1>1, ShownMoves DEF Sessions
    <2>2. Shown[d].state # "absent" /\ Shown[d].placement = "none"
      BY <1>4, SummaryFields DEF Shown
    <2>3. \/ \E state \in {"cloud_committed", "failed"} :
               Summary(row'[d]) = Handoff!OnCloud(state)
          \/ Summary(row'[d]) = Handoff!Unplaced("blocked")
      <3>1. CASE CloudRow(row'[d]) /\ row'[d].state \in {"cloud_committed", "failed"}
        BY <1>2, <3>1, CloudShows
      <3>2. CASE /\ row'[d].state = "blocked" /\ row'[d].exec = NoDevice
                 /\ row'[d].placement = row[d].placement
        BY <1>4, <3>2 DEF Summary, Handoff!Unplaced
      <3> QED
        BY <1>1, <3>1, <3>2
    <2>4. Handoff!Fallback(d)
      BY <2>1, <2>2, <2>3 DEF Handoff!Fallback, Handoff!Put, Shown, Sessions
    <2> QED
      BY <2>4 DEF HandoffStep
  <1> QED
    BY <1>2, <1>3, <1>4 DEF RowType

LEMMA NewRowShows ==
    ASSUME NEW kind, NEW subject, NEW decision, NEW cloudable
    PROVE  LET r == NewRow(kind, subject, decision, cloudable)
           IN  r.placement = "none" /\ r.exec = NoDevice /\ r.sess = 0
  BY DEF NewRow, NoRow

LEMMA SubmitShows ==
    ASSUME TypeOK, TypeOK', PlacementInv, NEW d \in Dispatch, Submit(d)
    PROVE  HandoffStep(d)
  <1>1. PICK r, p, decision :
          /\ r \in RowType /\ p \in Device \cup {NoDevice}
          /\ r.placement = "none" /\ r.exec = NoDevice /\ r.sess = 0
          /\ SubmitPlaced(d, decision, r, p)
    BY NewRowType, NewRowShows, OwnerGateAssumption DEF Submit, NamedDevice
  <1>2. /\ Shown[d].state = "absent" /\ row[d].state = "absent"
        /\ Sessions' = Sessions /\ presence' = presence
    BY SummaryFields DEF Submit, Shown, Sessions
  <1>3. ASSUME NEW s, Put(d, s)
        PROVE  Shown' = [Shown EXCEPT ![d] = Summary(s)]
    BY <1>3, PutRow, ShownMoves
  <1>4. CASE p # NoDevice /\ SubmitToRequester(d, r, p)
    <2> DEFINE s == [r EXCEPT !.state = "computer_accepted", !.placement = "computer",
                              !.exec = p, !.sess = presence[p].sess, !.lease = "live",
                              !.gateHeld = (r.kind = "agent")]
    <2>1. /\ s.state = "computer_accepted" /\ s.placement = "computer"
          /\ s.exec = p /\ s.sess = presence[p].sess
      BY DEF RowType
    <2>2. Put(d, s)
      BY <1>4 DEF SubmitToRequester
    <2> HIDE DEF s
    <2>3. p \in Device /\ Sessions[p].sess = presence[p].sess
      BY <1>1, <1>4 DEF Sessions
    <2>4. Summary(s) = [state |-> "computer_accepted", placement |-> "computer",
                        exec |-> p, sess |-> Sessions[p].sess]
      BY <1>4, <2>1, <2>3 DEF Summary
    <2>5. Handoff!SubmitOwn(d, p)
      BY <1>2, <1>3, <2>2, <2>4 DEF Handoff!SubmitOwn, Handoff!Put, Shown, Sessions
    <2> QED
      BY <2>3, <2>5 DEF HandoffStep
  <1>5. CASE SubmitOffer(d, r, p)
    <2> DEFINE s == [r EXCEPT !.state = "offering", !.payload = "live",
                              !.offerDl = "live", !.gateHeld = (r.kind = "agent")]
    <2>1. /\ s.state = "offering" /\ s.placement = "none" /\ s.exec = NoDevice
      BY <1>1 DEF RowType
    <2>2. Put(d, s)
      BY <1>5 DEF SubmitOffer
    <2> HIDE DEF s
    <2>3. Summary(s) = Handoff!Unplaced("offering")
      BY <2>1 DEF Summary, Handoff!Unplaced
    <2>4. Handoff!SubmitOffered(d)
      BY <1>2, <1>3, <2>2, <2>3 DEF Handoff!SubmitOffered, Handoff!Put, Shown, Sessions
    <2> QED
      BY <2>4 DEF HandoffStep
  <1>6. CASE SubmitBlocked(d, r)
    <2> DEFINE s == [r EXCEPT !.state = "blocked"]
    <2>1. /\ s.state = "blocked" /\ s.placement = "none" /\ s.exec = NoDevice
      BY <1>1 DEF RowType
    <2>2. Put(d, s)
      BY <1>6 DEF SubmitBlocked
    <2> HIDE DEF s
    <2>3. Summary(s) = Handoff!Unplaced("blocked")
      BY <2>1 DEF Summary, Handoff!Unplaced
    <2>4. Handoff!SubmitElsewhere(d)
      BY <1>2, <1>3, <2>2, <2>3 DEF Handoff!SubmitElsewhere, Handoff!Put, Shown, Sessions
    <2> QED
      BY <2>4 DEF HandoffStep
  <1>7. CASE SubmitToCloud(d, r)
    <2> DEFINE s == [r EXCEPT !.state = "cloud_committed", !.placement = "cloud",
                              !.lease = "live", !.payload = "live",
                              !.gateHeld = (r.kind = "agent")]
    <2>1. CloudRow(s) /\ s.state = "cloud_committed"
      BY <1>1 DEF RowType, CloudRow
    <2>2. s \in RowType
      <3>1. \A b \in BOOLEAN :
              [r EXCEPT !.state = "cloud_committed", !.placement = "cloud",
                        !.lease = "live", !.payload = "live", !.gateHeld = b] \in RowType
        BY <1>1, NamedValues DEF RowType
      <3> QED
        BY <3>1
    <2>3. RunCloudBranch(d, "submit", s, TRUE, SubmitSlots(d, r))
      BY <1>7 DEF SubmitToCloud
    <2> HIDE DEF s
    <2>4. /\ CloudRow(row'[d]) /\ row'[d].state \in {"cloud_committed", "failed"}
          /\ \A e \in Dispatch \ {d} : row'[e] = row[e]
      BY <2>1, <2>2, <2>3, BranchRow, BranchState DEF Caller, CloudStep
    <2>5. Summary(row'[d]) = Handoff!OnCloud(row'[d].state)
      BY <2>4, CloudShows DEF TypeOK
    <2>6. Shown' = [Shown EXCEPT ![d] = Handoff!OnCloud(row'[d].state)]
      BY <2>4, <2>5, ShownMoves
    <2>7. Handoff!SubmitElsewhere(d)
      BY <1>2, <2>4, <2>6 DEF Handoff!SubmitElsewhere, Handoff!Put, Shown, Sessions
    <2> QED
      BY <2>7 DEF HandoffStep
  <1> QED
    BY <1>1, <1>4, <1>5, <1>6, <1>7 DEF SubmitPlaced

\* The frames of the computer that holds the dispatch.
LEMMA FrameShows ==
    ASSUME TypeOK, TypeOK', PlacementInv, NEW d \in Dispatch, NEW p \in Device, Frame(p, d)
    PROVE  HandoffStep(d)
  <1>1. Placed(d) /\ row[d] \in RowType /\ p # NoDevice /\ presence' = presence
    BY OwnerGateAssumption
       DEF PlacementInv, TypeOK, Frame, HandleClaim, HandleRelease, HandleAck, HandleRunning,
           HandleRenew, HandleComplete
  <1>2. /\ Sessions' = Sessions
        /\ Sessions[p].connected = presence[p].connected /\ Sessions[p].sess = presence[p].sess
    BY <1>1 DEF Sessions
  <1>3. /\ Shown[d] = Summary(row[d])
        /\ Shown[d].state = row[d].state /\ Shown[d].placement = row[d].placement
    BY SummaryFields DEF Shown
  <1>4. Owns(p, d) => Handoff!Owns(p, d)
    BY <1>1, <1>2, SummaryFields DEF Owns, Handoff!Owns, Shown, Sessions
  <1>5. ASSUME NEW s, Put(d, s)
        PROVE  Shown' = [Shown EXCEPT ![d] = Summary(s)]
    BY <1>5, PutRow, ShownMoves
  <1>6. CASE HandleClaim(p, d)
    <2> DEFINE s == [row[d] EXCEPT !.state = "computer_claimed", !.exec = p,
                                   !.sess = presence[p].sess, !.lease = "live"]
    <2>1. row[d].placement = "none" /\ row[d].state = "offering" /\ presence[p].connected
      BY <1>1, <1>6 DEF HandleClaim, Placed, StateMatchesPlacement, Eligible
    <2>2. /\ s.state = "computer_claimed" /\ s.placement = "none" /\ s.exec = p
          /\ s.sess = presence[p].sess
      BY <1>1, <2>1 DEF RowType
    <2>3. Put(d, s)
      BY <1>6 DEF HandleClaim
    <2> HIDE DEF s
    <2>4. Summary(s) = [state |-> "computer_claimed", placement |-> "none",
                        exec |-> p, sess |-> Sessions[p].sess]
      BY <1>1, <1>2, <2>2 DEF Summary
    <2>5. Handoff!Claim(p, d)
      BY <1>2, <1>3, <1>5, <2>1, <2>3, <2>4 DEF Handoff!Claim, Handoff!Put, Shown, Sessions
    <2> QED
      BY <2>5 DEF HandoffStep
  <1>7. CASE HandleRelease(p, d)
    <2> DEFINE r == [row[d] EXCEPT !.state = "offering", !.exec = NoDevice, !.sess = 0,
                                   !.lease = "none"]
    <2>1. row[d].state = "computer_claimed" /\ row[d].placement = "none"
      BY <1>1, <1>7 DEF HandleRelease, Placed, StateMatchesPlacement
    <2>2. r \in RowType /\ r.placement = row[d].placement
      BY <1>1, NamedValues DEF RowType
    <2>3. ResolveUnaccepted(d, "frame", r)
      BY <1>7 DEF HandleRelease
    <2> HIDE DEF r
    <2> QED
      BY <1>1, <2>1, <2>2, <2>3, ResolveShows DEF Caller
  <1>8. CASE HandleAck(p, d)
    <2> DEFINE s == [row[d] EXCEPT !.state = "computer_accepted",
                                   !.placement = "computer", !.payload = "none",
                                   !.lease = "live"]
    <2>1. Put(d, s) /\ Owns(p, d) /\ row[d].state = "computer_claimed"
      BY <1>8 DEF HandleAck
    <2>2. /\ s.state = "computer_accepted" /\ s.placement = "computer"
          /\ s.exec = row[d].exec /\ s.sess = row[d].sess
      BY <1>1 DEF RowType
    <2> HIDE DEF s
    <2>3. Summary(s) = [Summary(row[d]) EXCEPT !.state = "computer_accepted",
                                               !.placement = "computer"]
      <3>1. Summary(s) = [Summary(row[d]) EXCEPT !.state = s.state, !.placement = s.placement]
        BY <2>2, SummaryUpdates
      <3> QED
        BY <2>2, <3>1
    <2>4. Shown' = [Shown EXCEPT ![d].state = "computer_accepted", ![d].placement = "computer"]
      BY <1>3, <1>5, <2>1, <2>3 DEF Shown
    <2>5. Handoff!Ack(p, d)
      BY <1>2, <1>3, <1>4, <2>1, <2>4 DEF Handoff!Ack, Shown, Sessions
    <2> QED
      BY <2>5 DEF HandoffStep
  <1>9. ASSUME NEW s, Put(d, s), s.placement = row[d].placement, s.exec = row[d].exec,
               s.sess = row[d].sess
        PROVE  Handoff!Move(d, s.state)
    <2>1. Summary(s) = [Summary(row[d]) EXCEPT !.state = s.state]
      BY <1>9 DEF Summary
    <2>2. Shown' = [Shown EXCEPT ![d].state = s.state]
      BY <1>3, <1>5, <1>9, <2>1 DEF Shown
    <2> QED
      BY <2>2 DEF Handoff!Move, Shown
  <1>10. CASE HandleRunning(p, d)
    <2> DEFINE s == [row[d] EXCEPT !.state = "computer_running", !.started = TRUE,
                                   !.lease = "live"]
    <2>1. /\ Put(d, s) /\ Owns(p, d)
          /\ row[d].state \in {"computer_accepted", "computer_running",
                               "reconciliation_required"}
      BY <1>10 DEF HandleRunning
    <2>2. /\ s.state = "computer_running" /\ s.placement = row[d].placement
          /\ s.exec = row[d].exec /\ s.sess = row[d].sess
      BY <1>1 DEF RowType
    <2> HIDE DEF s
    <2>3. Handoff!Running(p, d)
      BY <1>2, <1>3, <1>4, <1>9, <2>1, <2>2 DEF Handoff!Running, Shown, Sessions
    <2> QED
      BY <2>3 DEF HandoffStep
  <1>11. CASE HandleRenew(p, d)
    <2> DEFINE st == IF row[d].state # "reconciliation_required" THEN row[d].state
                     ELSE IF row[d].started THEN "computer_running"
                     ELSE "computer_accepted"
               s == [row[d] EXCEPT !.state = st, !.lease = "live"]
    <2>1. Put(d, s) /\ Owns(p, d) /\ row[d].state \in Handoff!AcceptedState
      BY <1>1, <1>11 DEF HandleRenew, RowType, AcceptedState, Handoff!AcceptedState
    <2>2. \E state \in {"computer_accepted", "computer_running"} :
            st = IF row[d].state = "reconciliation_required" THEN state ELSE row[d].state
      OBVIOUS
    <2> HIDE DEF st
    <2>3. /\ s.state = st /\ s.placement = row[d].placement
          /\ s.exec = row[d].exec /\ s.sess = row[d].sess
      BY <1>1 DEF RowType
    <2> HIDE DEF s
    <2>4. Handoff!Move(d, st)
      BY <1>9, <2>1, <2>3
    <2>5. Handoff!Renew(p, d)
      BY <1>2, <1>3, <1>4, <2>1, <2>2, <2>4 DEF Handoff!Renew, Shown, Sessions
    <2> QED
      BY <2>5 DEF HandoffStep
  <1>12. CASE HandleComplete(p, d)
    <2>1. PICK outcome \in Outcome : PutAndReleaseGate(d, Settled(row[d], outcome), running)
      BY <1>12 DEF HandleComplete
    <2> DEFINE s == [Settled(row[d], outcome) EXCEPT !.gateHeld = FALSE]
    <2>2. /\ Put(d, s) /\ Owns(p, d) /\ row[d].state \in Handoff!AcceptedState
          /\ outcome \in {"completed", "failed", "canceled"}
      BY <1>12, <2>1
         DEF HandleComplete, PutAndReleaseGate, Outcome, AcceptedState, Handoff!AcceptedState
    <2>3. /\ s.state = outcome /\ s.placement = row[d].placement
          /\ s.exec = row[d].exec /\ s.sess = row[d].sess
      BY <1>1 DEF Settled, RowType
    <2> HIDE DEF s
    <2>4. Handoff!Complete(p, d, outcome)
      BY <1>2, <1>3, <1>4, <1>9, <2>2, <2>3 DEF Handoff!Complete, Shown, Sessions
    <2> QED
      BY <2>2, <2>4 DEF HandoffStep
  <1> QED
    BY <1>6, <1>7, <1>8, <1>10, <1>11, <1>12 DEF Frame

\* Steps of the cloud side: continuations of a start, receipts and status reads.
LEMMA CloudShowsMoves ==
    ASSUME TypeOK, TypeOK', PlacementInv, NEW d \in Dispatch, row[d].placement = "cloud",
           StepOK(d), CloudRow(row'[d]), presence' = presence
    PROVE  HandoffStep(d)
  BY CloudSideMoves DEF StepOK, OthersKept, HandoffStep

LEMMA ContinueShows ==
    ASSUME TypeOK, TypeOK', PlacementInv, NEW d \in Dispatch, NEW c \in Caller, Continue(d, c)
    PROVE  HandoffStep(d)
  <1>1. StepOK(d) /\ presence' = presence
    BY ContinueStep
       DEF Continue, ChatHold, ChatRegister, CloudAnswers, StartReplyOk, StartReplyRefused,
           StartLost
  <1>2. CloudRow(row'[d]) /\ row[d].placement = "cloud"
    BY ContinueCloud DEF CloudStep
  <1> QED
    BY <1>1, <1>2, CloudShowsMoves

\* The outcome of cloud work, read from its receipt.
LEMMA SettleShows ==
    ASSUME TypeOK, TypeOK', PlacementInv, NEW d \in Dispatch,
           \/ FenceUnregister(d) \/ Release(d)
           \/ RecordCloudDispatchTerminal(d) \/ DispatchStatus(d)
    PROVE  HandoffStep(d) \/ UNCHANGED Handoff!vars
  <1>1. /\ Placed(d) /\ row[d] \in RowType /\ StepOK(d) /\ presence' = presence
        /\ \A e \in Dispatch \ {d} : row'[e] = row[e]
    BY SettleStep
       DEF PlacementInv, TypeOK, FenceUnregister, Release, RecordCloudDispatchTerminal,
           DispatchStatus, StepOK, OthersKept
  <1>2. CASE FenceUnregister(d)
    <2>1. row'[d] = [row[d] EXCEPT !.gateHeld = FALSE]
      BY <1>2, PutRow DEF FenceUnregister
    <2>2. /\ row'[d].state = row[d].state /\ row'[d].placement = row[d].placement
          /\ row'[d].exec = row[d].exec /\ row'[d].sess = row[d].sess
      BY <1>1, <2>1 DEF RowType
    <2> QED
      BY <1>1, <2>2, Stutter
  <1>3. CASE row' = row
    BY <1>1, <1>3, Stutter
  <1>4. ASSUME Receivable(d), NEW o \in Outcome,
               PutAndReleaseGate(d, Settled(row[d], o), running)
        PROVE  HandoffStep(d)
    <2>1. row[d].placement = "cloud"
      BY <1>4 DEF Receivable
    <2>2. CloudRow(row[d])
      BY <1>1, <2>1, OnCloudSide
    <2>3. row'[d] = [Settled(row[d], o) EXCEPT !.gateHeld = FALSE]
      BY <1>4, ReleaseRow
    <2>4. CloudRow(row'[d])
      BY <1>1, <2>2, <2>3 DEF CloudRow, Settled, RowType, Outcome
    <2> QED
      BY <1>1, <2>1, <2>4, CloudShowsMoves
  <1>5. CASE RecordCloudDispatchTerminal(d)
    BY <1>3, <1>4, <1>5 DEF RecordCloudDispatchTerminal
  <1>6. CASE DispatchStatus(d)
    <2>1. receipt[d] \in Outcome
      BY <1>6 DEF DispatchStatus, TypeOK
    <2> QED
      BY <1>4, <1>6, <2>1 DEF DispatchStatus
  <1> QED
    BY <1>2, <1>3, <1>5, <1>6 DEF Release

\* A stop: of unaccepted work, of the cloud's, and of a computer's.
LEMMA CancelShows ==
    ASSUME TypeOK, TypeOK', PlacementInv, NEW d \in Dispatch, CancelDispatch(d)
    PROVE  HandoffStep(d)
  <1>1. /\ Placed(d) /\ row[d] \in RowType /\ StepOK(d) /\ presence' = presence
        /\ Sessions' = Sessions
        /\ \A e \in Dispatch \ {d} : row'[e] = row[e]
    BY CancelStep DEF PlacementInv, TypeOK, CancelDispatch, StepOK, OthersKept, Sessions
  <1>2. /\ Shown[d] = Summary(row[d]) /\ Shown' = [Shown EXCEPT ![d] = Summary(row'[d])]
        /\ Shown[d].state = row[d].state /\ Shown[d].placement = row[d].placement
    BY <1>1, SummaryFields, ShownMoves DEF Shown
  <1>3. ~IsTerminalDispatchState(row[d].state) /\ row[d].state # "absent"
    BY DEF CancelDispatch
  <1> DEFINE stopped == [row[d] EXCEPT !.stop = TRUE]
             ended == [stopped EXCEPT !.state = "canceled", !.payload = "none",
                                      !.offerDl = "none", !.lease = "none",
                                      !.exec = NoDevice, !.sess = 0]
  <1>4. CASE /\ \/ MayFallbackToCloud(row[d].state)
                \/ row[d].state = "cloud_committed" /\ ~row[d].cloudTurn
             /\ PutAndReleaseGate(d, ended, running)
    <2>1. row'[d] = [ended EXCEPT !.gateHeld = FALSE]
      BY <1>4, ReleaseRow
    <2>2. /\ row'[d].state = "canceled" /\ row'[d].placement = row[d].placement
          /\ row'[d].exec = NoDevice
      BY <1>1, <2>1 DEF RowType
    <2>3. CASE MayFallbackToCloud(row[d].state)
      <3>1. row[d].placement = "none"
        BY <1>1, <2>3 DEF Placed, StateMatchesPlacement, MayFallbackToCloud
      <3>2. Summary(row'[d]) = Handoff!Unplaced("canceled")
        BY <2>2, <3>1 DEF Summary, Handoff!Unplaced
      <3>3. Handoff!Stop(d)
        BY <1>1, <1>2, <1>3, <2>3, <3>2
           DEF Handoff!Stop, Handoff!Put, Shown, Sessions, MayFallbackToCloud,
               IsTerminalDispatchState, TerminalDispatchState,
               Handoff!MayFallbackToCloud, Handoff!IsTerminalDispatchState,
               Handoff!TerminalDispatchState
      <3> QED
        BY <3>3 DEF HandoffStep
    <2>4. CASE row[d].state = "cloud_committed"
      <3>1. row[d].placement = "cloud"
        BY <1>1, <2>4 DEF Placed, StateMatchesPlacement
      <3>2. CloudRow(row'[d])
        BY <2>2, <3>1 DEF CloudRow
      <3> QED
        BY <1>1, <3>1, <3>2, CloudShowsMoves
    <2> QED
      BY <1>4, <2>3, <2>4
  <1>5. CASE /\ ~MayFallbackToCloud(row[d].state)
             /\ Put(d, [stopped EXCEPT !.state = "cancel_pending"])
    <2>1. row'[d] = [stopped EXCEPT !.state = "cancel_pending"]
      BY <1>5, PutRow
    <2>2. /\ row'[d].state = "cancel_pending" /\ row'[d].placement = row[d].placement
          /\ row'[d].exec = row[d].exec /\ row'[d].sess = row[d].sess
      BY <1>1, <2>1 DEF RowType
    <2>3. row[d].placement \in {"cloud", "computer"}
      BY <1>1, <1>3, <1>5
         DEF Placed, StateMatchesPlacement, MayFallbackToCloud, IsTerminalDispatchState,
             RowType, DispatchState
    <2>4. CASE row[d].placement = "cloud"
      <3>1. CloudRow(row'[d])
        BY <1>1, <2>2, <2>4, OnCloudSide DEF CloudRow
      <3> QED
        BY <1>1, <2>4, <3>1, CloudShowsMoves
    <2>5. CASE row[d].placement = "computer"
      <3>1. Summary(row'[d]) = [Summary(row[d]) EXCEPT !.state = "cancel_pending"]
        BY <2>2 DEF Summary
      <3>2. Shown' = [Shown EXCEPT ![d].state = "cancel_pending"]
        BY <1>2, <3>1 DEF Shown
      <3>3. Handoff!Stop(d)
        BY <1>1, <1>2, <1>3, <2>5, <3>2
           DEF Handoff!Stop, Handoff!Move, Shown, Sessions,
               IsTerminalDispatchState, TerminalDispatchState,
               Handoff!IsTerminalDispatchState, Handoff!TerminalDispatchState
      <3> QED
        BY <3>3 DEF HandoffStep
    <2> QED
      BY <2>3, <2>4, <2>5
  <1> QED
    BY <1>4, <1>5 DEF CancelDispatch

\* The alarm: a fallback, a retry, a lapsed lease, or a payload nobody sees.
LEMMA AlarmShows ==
    ASSUME TypeOK, TypeOK', PlacementInv, NEW d \in Dispatch, AlarmStep(d)
    PROVE  HandoffStep(d) \/ UNCHANGED Handoff!vars
  <1>1. /\ Placed(d) /\ row[d] \in RowType /\ StepOK(d) /\ presence' = presence
        /\ Sessions' = Sessions
        /\ \A e \in Dispatch \ {d} : row'[e] = row[e]
    BY AlarmStepOK DEF PlacementInv, TypeOK, AlarmStep, StepOK, OthersKept, Sessions
  <1>2. CASE AlarmUnaccepted(d)
    <2>1. row[d].placement # "computer" /\ row[d].state # "absent"
      BY <1>1, <1>2 DEF AlarmUnaccepted, Placed, StaleAlarmIsHarmless
    <2> QED
      BY <1>1, <1>2, <2>1, ResolveShows DEF AlarmUnaccepted, Caller
  <1>3. CASE AlarmRetry(d)
    <2>1. row[d].placement = "cloud"
      BY <1>1, <1>3 DEF AlarmRetry, Placed, StaleAlarmIsHarmless
    <2>2. CloudStep(d)
      BY <1>1, <1>3, <2>1, OnCloudSide, BranchRow DEF AlarmRetry, Caller
    <2> QED
      BY <1>1, <2>1, <2>2, CloudShowsMoves DEF CloudStep
  <1>4. CASE AlarmLease(d)
    <2>1. row[d].placement \in {"cloud", "computer"}
      BY <1>1, <1>4 DEF AlarmLease, Placed, StaleAlarmIsHarmless, RowType
    <2>2. row'[d] = [row[d] EXCEPT !.state = "reconciliation_required", !.lease = "none"]
      BY <1>4, PutRow DEF AlarmLease
    <2>3. /\ row'[d].state = "reconciliation_required" /\ row'[d].placement = row[d].placement
          /\ row'[d].exec = row[d].exec /\ row'[d].sess = row[d].sess
      BY <1>1, <2>2 DEF RowType
    <2>4. CASE row[d].placement = "cloud"
      <3>1. CloudRow(row'[d])
        BY <1>1, <2>3, <2>4, OnCloudSide DEF CloudRow
      <3> QED
        BY <1>1, <2>4, <3>1, CloudShowsMoves
    <2>5. CASE row[d].placement = "computer"
      <3>1. Summary(row'[d]) = [Summary(row[d]) EXCEPT !.state = "reconciliation_required"]
        BY <2>3 DEF Summary
      <3>2. /\ Shown' = [Shown EXCEPT ![d].state = "reconciliation_required"]
            /\ Shown[d].placement = "computer"
        BY <1>1, <2>5, <3>1, ShownMoves, SummaryFields DEF Shown
      <3>3. Handoff!LeaseLapses(d)
        BY <1>1, <3>2 DEF Handoff!LeaseLapses, Handoff!Move, Shown, Sessions
      <3> QED
        BY <3>3 DEF HandoffStep
    <2> QED
      BY <2>1, <2>4, <2>5
  <1>5. CASE AlarmPayload(d)
    <2>1. row'[d] = [row[d] EXCEPT !.payload = "none"]
      BY <1>5, PutRow DEF AlarmPayload
    <2>2. /\ row'[d].state = row[d].state /\ row'[d].placement = row[d].placement
          /\ row'[d].exec = row[d].exec /\ row'[d].sess = row[d].sess
      BY <1>1, <2>1 DEF RowType
    <2> QED
      BY <1>1, <2>2, Stutter
  <1> QED
    BY <1>2, <1>3, <1>4, <1>5 DEF AlarmStep

\* Time shows nothing.
LEMMA LapseShows ==
    ASSUME TypeOK, PlacementInv, NEW d \in Dispatch, Lapse(d)
    PROVE  UNCHANGED Handoff!vars
  <1>1. /\ row[d] \in RowType /\ presence' = presence
        /\ \A e \in Dispatch \ {d} : row'[e] = row[e]
    BY LapseStep DEF TypeOK, Lapse, StepOK, OthersKept
  <1>2. \/ row'[d] = row[d]
        \/ row'[d] = [row[d] EXCEPT !.offerDl = "lapsed"]
        \/ row'[d] = [row[d] EXCEPT !.lease = "lapsed"]
        \/ row'[d] = [row[d] EXCEPT !.retry = "lapsed"]
        \/ row'[d] = [row[d] EXCEPT !.payload = "lapsed"]
    BY PutRow DEF Lapse, LapseOffer, LapseLease, LapseRetry, LapsePayload, LapseSlot
  <1>3. /\ row'[d].state = row[d].state /\ row'[d].placement = row[d].placement
        /\ row'[d].exec = row[d].exec /\ row'[d].sess = row[d].sess
    BY <1>1, <1>2 DEF RowType
  <1> QED
    BY <1>1, <1>3, Stutter

\* The sockets: what a computer's presence shows is its session.
LEMMA PresenceShows ==
    ASSUME TypeOK, NEW p \in Device, Connect(p) \/ Disconnect(p) \/ SetReady(p)
    PROVE  [Handoff!Next]_(Handoff!vars)
  <1>1. /\ presence[p] \in PresenceType /\ presence \in [Device -> PresenceType]
        /\ Shown' = Shown
    BY DEF TypeOK, Connect, Disconnect, SetReady, Shown
  <1>2. CASE Connect(p)
    <2>1. PICK sess \in {presence[p].sess, presence[p].sess + 1} \ {0}, ready \in BOOLEAN :
            /\ sess <= MaxSession
            /\ presence' = [presence EXCEPT ![p] =
                              [connected |-> TRUE, ready |-> ready, sess |-> sess]]
      BY <1>2 DEF Connect
    <2>2. presence[p].sess \in Nat
      BY <1>1 DEF PresenceType
    <2>3. sess \in 1 .. MaxSession /\ sess >= presence[p].sess
      BY <2>1, <2>2, OwnerGateAssumption
    <2>4. /\ Sessions' = [Sessions EXCEPT ![p] = [connected |-> TRUE, sess |-> sess]]
          /\ Sessions[p].sess = presence[p].sess
      BY <1>1, <2>1 DEF Sessions
    <2>5. Handoff!Connect(p, sess)
      BY <1>1, <2>3, <2>4 DEF Handoff!Connect, Shown, Sessions
    <2> QED
      BY <2>3, <2>5 DEF Handoff!Next
  <1>3. CASE Disconnect(p)
    <2>1. /\ \A q \in Device : presence'[q] = IF q = p
               THEN [presence[p] EXCEPT !.connected = FALSE, !.ready = FALSE]
               ELSE presence[q]
          /\ presence[p].connected
      BY <1>1, <1>3 DEF Disconnect
    <2>2. /\ presence'[p].connected = FALSE /\ presence'[p].sess = presence[p].sess
          /\ \A q \in Device : q # p => presence'[q] = presence[q]
      BY <1>1, <2>1 DEF PresenceType
    <2>3. /\ Sessions' = [Sessions EXCEPT ![p].connected = FALSE]
          /\ Sessions[p].connected = presence[p].connected
      BY <2>2 DEF Sessions
    <2>4. Handoff!Disconnect(p)
      BY <1>1, <2>1, <2>3 DEF Handoff!Disconnect, Shown, Sessions
    <2> QED
      BY <2>4 DEF Handoff!Next
  <1>4. CASE SetReady(p)
    <2>1. \A q \in Device : /\ presence'[q].connected = presence[q].connected
                            /\ presence'[q].sess = presence[q].sess
      BY <1>1, <1>4 DEF SetReady, PresenceType
    <2>2. Sessions' = Sessions
      BY <2>1 DEF Sessions
    <2> QED
      BY <1>1, <2>2 DEF Handoff!vars, Shown, Sessions
  <1> QED
    BY <1>2, <1>3, <1>4

-----------------------------------------------------------------------------

LEMMA InitShows == Init => Handoff!Init
  <1> SUFFICES ASSUME Init PROVE Handoff!Init
    OBVIOUS
  <1>1. \A d \in Dispatch : Summary(row[d]) = Handoff!Unplaced("absent")
    BY DEF Init, NoRow, Summary, Handoff!Unplaced
  <1> QED
    BY <1>1 DEF Init, Handoff!Init

LEMMA HandoffNext ==
    ASSUME TypeOK, TypeOK', PlacementInv, [Next]_vars
    PROVE  [Handoff!Next]_(Handoff!vars)
  <1>1. ASSUME row' = row, presence' = presence PROVE UNCHANGED Handoff!vars
    BY <1>1 DEF Handoff!vars
  <1>2. ASSUME NEW d \in Dispatch,
               \/ Submit(d) \/ FenceUnregister(d) \/ Release(d)
               \/ RecordCloudDispatchTerminal(d) \/ DispatchStatus(d) \/ CancelDispatch(d)
               \/ AlarmStep(d) \/ Lapse(d)
               \/ \E p \in Device : Frame(p, d)
               \/ \E c \in Caller : Continue(d, c)
        PROVE  [Handoff!Next]_(Handoff!vars)
    BY <1>2, SubmitShows, SettleShows, CancelShows, AlarmShows, LapseShows, FrameShows,
       ContinueShows, StepIsNext
  <1>3. CASE \E p \in Device : Connect(p) \/ Disconnect(p) \/ SetReady(p)
    BY <1>3, PresenceShows
  <1>4. CASE AlarmBegin \/ AlarmEnd \/ Evict \/ UNCHANGED vars
    BY <1>1, <1>4 DEF AlarmBegin, AlarmEnd, Evict, vars
  <1> QED
    BY <1>2, <1>3, <1>4 DEF Next

\* The gate implements the handoff it promises to computers: accepted work
\* stays with the session that acknowledged it (handleExecutorFrame) until that
\* session ends it or the user stops it, and only work no computer accepted
\* goes to the cloud (resolveUnaccepted), whatever a suspended alarm decided on
\* rows it read before.
THEOREM GateImplementsHandoff == Spec => ImplementsHandoff
  <1>1. TypeOK /\ TypeOK' /\ PlacementInv /\ [Next]_vars => [Handoff!Next]_(Handoff!vars)
    BY HandoffNext
  <1> QED
    BY <1>1, InitShows, TypeCorrect, PlacementSafe, PTL
       DEF Spec, Handoff!Spec, ImplementsHandoff

=============================================================================
