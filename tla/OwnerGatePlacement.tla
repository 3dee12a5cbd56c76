------------------------- MODULE OwnerGatePlacement -------------------------
(***************************************************************************)
(* The safety of placement, proved for any number of dispatches,           *)
(* computers, presence sessions and evictions.                             *)
(*                                                                         *)
(* Every action changes the row, the starts, the runs and the alarm        *)
(* decision of at most one dispatch, so each preservation proof is about   *)
(* that dispatch.                                                          *)
(***************************************************************************)
EXTENDS OwnerGateProofs

\* Nothing the invariant speaks of changes for the other dispatches.
OthersKept(d) ==
    \A e \in Dispatch \ {d} :
        row'[e] = row[e] /\ start'[e] = start[e] /\ runs'[e] = runs[e] /\ alarm'[e] = alarm[e]

\* A row on the cloud side, in a state that agrees with it.
CloudRow(r) ==
    /\ r.placement = "cloud"
    /\ r.exec = NoDevice
    /\ r.state \notin {"absent", "offering", "computer_claimed",
                       "computer_accepted", "computer_running"}

\* The invariant of a dispatch none of whose state changed.
LEMMA Kept ==
    ASSUME NEW d \in Dispatch, Placed(d),
           row'[d] = row[d], start'[d] = start[d], runs'[d] = runs[d], alarm'[d] = alarm[d]
    PROVE  Placed(d)'
  BY DEF Placed, StateMatchesPlacement, StartedMeansCloud, StaleAlarmIsHarmless

\* It is enough to look at the dispatch a step is about.
LEMMA Focus ==
    ASSUME PlacementInv, NEW d \in Dispatch, OthersKept(d), Placed(d)'
    PROVE  PlacementInv'
  <1> SUFFICES ASSUME NEW e \in Dispatch PROVE Placed(e)'
    BY DEF PlacementInv
  <1>1. CASE e = d
    BY <1>1
  <1>2. CASE e # d
    BY <1>2, Kept DEF PlacementInv, OthersKept
  <1> QED
    BY <1>1, <1>2

\* What each action is shown to do: nothing to the other dispatches, and to its
\* own it keeps the invariant and does not take the work from a computer.
StepOK(d) ==
    /\ OthersKept(d)
    /\ Placed(d)'
    /\ row[d].placement = "computer" => row'[d].placement = "computer"

\* A row on the cloud side satisfies the whole invariant, whatever was started
\* and whatever the alarm decided.
LEMMA CloudRowPlaced ==
    ASSUME NEW d \in Dispatch, CloudRow(row'[d])
    PROVE  Placed(d)'
  BY DEF CloudRow, Placed, StateMatchesPlacement, StartedMeansCloud, StaleAlarmIsHarmless

\* Conversely a placed dispatch on the cloud side has such a row, and one with
\* something started is on the cloud side.
LEMMA OnCloudSide ==
    ASSUME NEW d \in Dispatch, Placed(d), row[d].placement = "cloud"
    PROVE  CloudRow(row[d])
  BY DEF CloudRow, Placed, StateMatchesPlacement

LEMMA StartingIsCloud ==
    ASSUME NEW d \in Dispatch, Placed(d), NEW c \in Caller, start[d][c].phase # "idle"
    PROVE  row[d].placement = "cloud" /\ CloudRow(row[d])
  <1>1. start[d][c] # Idle
    BY DEF Idle
  <1>2. row[d].placement = "cloud"
    BY <1>1 DEF Placed, StartedMeansCloud
  <1> QED
    BY <1>2, OnCloudSide

-----------------------------------------------------------------------------
(* The cloud branch keeps a row on the cloud side and touches nothing else. *)

\* What a step of the cloud branch does to the tables of dispatch d.
CloudStep(d) ==
    /\ CloudRow(row'[d])
    /\ \A e \in Dispatch \ {d} : row'[e] = row[e] /\ start'[e] = start[e]

LEMMA PutRow ==
    ASSUME TypeOK, NEW d \in Dispatch, NEW r, Put(d, r)
    PROVE  row'[d] = r /\ \A e \in Dispatch \ {d} : row'[e] = row[e]
  BY DEF Put, TypeOK

LEMMA ReleaseRow ==
    ASSUME TypeOK, NEW d \in Dispatch, NEW r, NEW slots, PutAndReleaseGate(d, r, slots)
    PROVE  /\ row'[d] = [r EXCEPT !.gateHeld = FALSE]
           /\ \A e \in Dispatch \ {d} : row'[e] = row[e]
  BY DEF PutAndReleaseGate, Put, TypeOK

\* The row updates of a start leave a cloud row on the cloud side.
LEMMA CloudRowUpdates ==
    ASSUME NEW r \in RowType, CloudRow(r)
    PROVE  /\ CloudRow([r EXCEPT !.gateHeld = FALSE])
           /\ CloudRow([r EXCEPT !.gateHeld = TRUE])
           /\ CloudRow([r EXCEPT !.retry = "live", !.lease = "live"])
           /\ CloudRow([r EXCEPT !.cloudTurn = TRUE])
           /\ CloudRow([r EXCEPT !.attempts = @ + 1, !.retry = "none"])
           /\ CloudRow([r EXCEPT !.state = "failed", !.lease = "none"])
           /\ CloudRow([[r EXCEPT !.state = "failed", !.lease = "none"] EXCEPT !.gateHeld = FALSE])
           /\ CloudRow([Failed(r) EXCEPT !.gateHeld = FALSE])
           /\ CloudRow(CloudRunning(r))
           /\ CloudRow([CloudRunning(r) EXCEPT !.gateHeld = FALSE])
  <1> USE DEF RowType, CloudRow
  <1>1. CloudRow([r EXCEPT !.gateHeld = FALSE]) /\ CloudRow([r EXCEPT !.gateHeld = TRUE])
    OBVIOUS
  <1>2. CloudRow([r EXCEPT !.retry = "live", !.lease = "live"])
    OBVIOUS
  <1>3. CloudRow([r EXCEPT !.cloudTurn = TRUE])
    OBVIOUS
  <1>4. CloudRow([r EXCEPT !.attempts = @ + 1, !.retry = "none"])
    OBVIOUS
  <1>5. CloudRow([r EXCEPT !.state = "failed", !.lease = "none"])
    OBVIOUS
  <1>6. CloudRow([[r EXCEPT !.state = "failed", !.lease = "none"] EXCEPT !.gateHeld = FALSE])
    OBVIOUS
  <1>7. CloudRow([Failed(r) EXCEPT !.gateHeld = FALSE])
    BY DEF Failed
  <1>8. CloudRow(CloudRunning(r))
    BY DEF CloudRunning
  <1>9. CloudRow([CloudRunning(r) EXCEPT !.gateHeld = FALSE])
    BY DEF CloudRunning
  <1> HIDE DEF RowType, CloudRow
  <1> QED
    BY <1>1, <1>2, <1>3, <1>4, <1>5, <1>6, <1>7, <1>8, <1>9

\* The fallback commits any row to the cloud side.
LEMMA CommittedRow ==
    ASSUME NEW r \in RowType
    PROVE  CloudCommitted(r) \in RowType /\ CloudRow(CloudCommitted(r))
  <1>1. CloudCommitted(r) \in RowType
    BY RowUpdates
  <1>2. CloudRow(CloudCommitted(r))
    BY DEF CloudCommitted, CloudRow, RowType
  <1> QED
    BY <1>1, <1>2

LEMMA RefusalRow ==
    ASSUME TypeOK, NEW d \in Dispatch, NEW r \in RowType, CloudRow(r), NEW n, NEW status,
           NEW slots, CloudRefusal(d, r, n, status, slots)
    PROVE  CloudRow(row'[d]) /\ \A e \in Dispatch \ {d} : row'[e] = row[e]
  <1>1. CASE Put(d, [r EXCEPT !.retry = "live", !.lease = "live"])
    BY <1>1, PutRow, CloudRowUpdates
  <1>2. CASE PutAndReleaseGate(d, Failed(r), slots)
    BY <1>2, ReleaseRow, CloudRowUpdates
  <1> QED
    BY <1>1, <1>2 DEF CloudRefusal

\* Suspending, resuming and ending a start leaves the other starts alone.
LEMMA OtherStarts ==
    ASSUME TypeOK, NEW d \in Dispatch, NEW c \in Caller
    PROVE  /\ \A phase, n : SetStart(d, c, phase, n)
                 => \A e \in Dispatch \ {d} : start'[e] = start[e]
           /\ EndStart(d, c) => \A e \in Dispatch \ {d} : start'[e] = start[e]
           /\ UNCHANGED start => \A e \in Dispatch \ {d} : start'[e] = start[e]
  BY DEF SetStart, EndStart, TypeOK

LEMMA SendRow ==
    ASSUME TypeOK, NEW d \in Dispatch, NEW c \in Caller, NEW r \in RowType, CloudRow(r), NEW n,
           SendAdmittedChat(d, c, r, n)
    PROVE  CloudStep(d)
  <1>1. CASE /\ Put(d, [r EXCEPT !.cloudTurn = TRUE])
             /\ SetStart(d, c, "sent", n)
    BY <1>1, PutRow, CloudRowUpdates, OtherStarts DEF CloudStep
  <1>2. CASE PutAndReleaseGate(d, r, running) /\ EndStart(d, c)
    BY <1>2, ReleaseRow, CloudRowUpdates, OtherStarts DEF CloudStep
  <1> QED
    BY <1>1, <1>2 DEF SendAdmittedChat

LEMMA ChatRow ==
    ASSUME TypeOK, NEW d \in Dispatch, NEW c \in Caller, NEW r \in RowType, CloudRow(r),
           StartCloudChat(d, c, r)
    PROVE  CloudStep(d)
  <1>1. CASE /\ UNCHANGED start
             /\ \E status \in {"refused", "unavailable"} :
                   CloudRefusal(d, r, r.attempts, status, running)
    BY <1>1, RefusalRow, OtherStarts DEF CloudStep
  <1>2. CASE Put(d, r) /\ SetStart(d, c, "admitting", r.attempts)
    BY <1>2, PutRow, OtherStarts DEF CloudStep
  <1>3. CASE SendAdmittedChat(d, c, r, r.attempts)
    BY <1>3, SendRow
  <1> QED
    BY <1>1, <1>2, <1>3 DEF StartCloudChat

LEMMA BranchRow ==
    ASSUME TypeOK, NEW d \in Dispatch, NEW c \in Caller, NEW r \in RowType, CloudRow(r),
           NEW payload, NEW slots, RunCloudBranch(d, c, r, payload, slots)
    PROVE  CloudStep(d)
  <1> DEFINE attempting == [r EXCEPT !.attempts = @ + 1, !.retry = "none"]
  <1>1. attempting \in RowType /\ CloudRow(attempting)
    BY RowUpdates, CloudRowUpdates
  <1>2. CASE PutAndReleaseGate(d, Failed(r), slots) /\ UNCHANGED start
    BY <1>2, ReleaseRow, CloudRowUpdates, OtherStarts DEF CloudStep
  <1>3. CASE /\ PutAndReleaseGate(d, [r EXCEPT !.state = "failed", !.lease = "none"], slots)
             /\ UNCHANGED start
    BY <1>3, ReleaseRow, CloudRowUpdates, OtherStarts DEF CloudStep
  <1>4. CASE StartCloudAgent(d, c, attempting, slots)
    BY <1>1, <1>4, PutRow, OtherStarts DEF StartCloudAgent, CloudStep
  <1>5. CASE StartCloudChat(d, c, attempting)
    BY <1>1, <1>5, ChatRow
  <1> QED
    BY <1>2, <1>3, <1>4, <1>5 DEF RunCloudBranch

-----------------------------------------------------------------------------
(* The actions.                                                            *)

\* A step that only moves a cloud start of d forward, its row staying on the
\* cloud side, is a good step.
LEMMA CloudStepOK ==
    ASSUME NEW d \in Dispatch, CloudStep(d), row[d].placement # "computer",
           \A e \in Dispatch \ {d} : runs'[e] = runs[e] /\ alarm'[e] = alarm[e]
    PROVE  StepOK(d)
  BY CloudRowPlaced DEF StepOK, CloudStep, OthersKept

\* A step that changes nothing but columns the invariant does not read.
LEMMA QuietStep ==
    ASSUME TypeOK, NEW d \in Dispatch, Placed(d), NEW r,
           r.state = row[d].state, r.placement = row[d].placement, r.exec = row[d].exec,
           r.offerDl = row[d].offerDl \/ r.offerDl = "lapsed",
           r.lease = row[d].lease \/ r.lease = "lapsed",
           Put(d, r), UNCHANGED <<start, runs>>,
           alarm' = alarm \/ alarm' = [alarm EXCEPT ![d] = NotDue]
    PROVE  StepOK(d)
  <1>1. row'[d] = r /\ \A e \in Dispatch \ {d} : row'[e] = row[e]
    BY PutRow
  <1>2. alarm'[d] = alarm[d] \/ alarm'[d].branch = "none"
    BY DEF NotDue, TypeOK
  <1>3. OthersKept(d)
    BY <1>1 DEF OthersKept, TypeOK
  <1>4. StateMatchesPlacement(d)'
    BY <1>1 DEF Placed, StateMatchesPlacement
  <1>5. StartedMeansCloud(d)'
    BY <1>1 DEF Placed, StartedMeansCloud
  <1>6. StaleAlarmIsHarmless(d)'
    BY <1>1, <1>2 DEF Placed, StaleAlarmIsHarmless
  <1> QED
    BY <1>1, <1>3, <1>4, <1>5, <1>6 DEF StepOK, Placed

\* A step that leaves the row, the starts, the runs and the decisions alone.
LEMMA IdleStep ==
    ASSUME PlacementInv, UNCHANGED <<row, start, runs, alarm>>, NEW d \in Dispatch
    PROVE  StepOK(d)
  BY Kept DEF StepOK, OthersKept, PlacementInv

\* Ending a dispatch, from whatever state.
LEMMA EndingStep ==
    ASSUME TypeOK, NEW d \in Dispatch, Placed(d), NEW r,
           r.state \in {"completed", "failed", "canceled"},
           r.placement = row[d].placement,
           r.exec = row[d].exec \/ r.exec = NoDevice,
           Put(d, r), UNCHANGED <<start, runs, alarm>>
    PROVE  StepOK(d)
  <1>1. row'[d] = r /\ \A e \in Dispatch \ {d} : row'[e] = row[e]
    BY PutRow
  <1>2. OthersKept(d)
    BY <1>1 DEF OthersKept
  <1>3. StateMatchesPlacement(d)'
    BY <1>1 DEF Placed, StateMatchesPlacement
  <1>4. StartedMeansCloud(d)' /\ StaleAlarmIsHarmless(d)'
    BY <1>1 DEF Placed, StartedMeansCloud, StaleAlarmIsHarmless
  <1> QED
    BY <1>1, <1>2, <1>3, <1>4 DEF StepOK, Placed

\* resolveUnaccepted on a row no computer has accepted.
LEMMA ResolveStep ==
    ASSUME TypeOK, NEW d \in Dispatch, Placed(d), NEW c \in Caller, NEW r \in RowType,
           row[d].placement # "computer", r.placement = row[d].placement,
           ResolveUnaccepted(d, c, r), UNCHANGED runs,
           alarm' = alarm \/ alarm' = [alarm EXCEPT ![d] = NotDue],
           row[d].state # "absent"
    PROVE  StepOK(d)
  <1>1. \A e \in Dispatch \ {d} : runs'[e] = runs[e] /\ alarm'[e] = alarm[e]
    BY DEF TypeOK
  <1>2. CASE RunCloudBranch(d, c, CloudCommitted(r), r.payload # "none", running)
    BY <1>1, <1>2, CommittedRow, BranchRow, CloudStepOK
  <1>3. CASE PutAndReleaseGate(d, BlockedRow(r), running) /\ UNCHANGED start
    <2>1. /\ row'[d] = [BlockedRow(r) EXCEPT !.gateHeld = FALSE]
          /\ \A e \in Dispatch \ {d} : row'[e] = row[e]
      BY <1>3, ReleaseRow
    <2>2. /\ row'[d].state = "blocked" /\ row'[d].exec = NoDevice
          /\ row'[d].placement = row[d].placement
      BY <2>1 DEF BlockedRow, RowType
    <2>3. alarm'[d] = alarm[d] \/ alarm'[d].branch = "none"
      BY DEF NotDue, TypeOK
    <2>4. Placed(d)'
      BY <1>3, <2>2, <2>3 DEF Placed, StateMatchesPlacement, StartedMeansCloud, StaleAlarmIsHarmless
    <2> QED
      BY <1>1, <1>3, <2>1, <2>2, <2>4 DEF StepOK, OthersKept
  <1> QED
    BY <1>2, <1>3 DEF ResolveUnaccepted

LEMMA NewRowPlacement ==
    ASSUME NEW kind, NEW subject, NEW decision, NEW cloudable
    PROVE  NewRow(kind, subject, decision, cloudable).placement = "none"
           /\ NewRow(kind, subject, decision, cloudable).exec = NoDevice
  BY DEF NewRow, NoRow

LEMMA SubmitStep ==
    ASSUME TypeOK, PlacementInv, NEW d \in Dispatch, Submit(d)
    PROVE  StepOK(d)
  <1>0. PICK r \in RowType :
          /\ r.placement = "none" /\ r.exec = NoDevice
          /\ \E p, decision : SubmitPlaced(d, decision, r, p)
    BY NewRowType, NewRowPlacement DEF Submit
  <1>1. PICK p, decision :
          SubmitPlaced(d, decision, r, p) /\ r.placement = "none" /\ r.exec = NoDevice
    BY <1>0
  <1>2. /\ Placed(d) /\ row[d].state = "absent" /\ row[d].placement = "none"
        /\ UNCHANGED <<runs, alarm>>
    BY DEF Submit, PlacementInv, Placed, StateMatchesPlacement
  <1>3. alarm[d].branch \notin {"offer", "claim", "retry", "lease"}
    BY <1>2 DEF Placed, StaleAlarmIsHarmless
  <1>4. ~(runs[d] > 0) /\ \A c \in Caller : start[d][c] = Idle
    BY <1>2 DEF Placed, StartedMeansCloud
  <1>5. ASSUME NEW s, Put(d, s), UNCHANGED start, s.placement # "cloud",
               \/ s.state = "computer_accepted" /\ s.placement = "computer"
               \/ s.state = "offering" /\ s.placement = "none"
               \/ s.state = "blocked" /\ s.placement = "none"
        PROVE  StepOK(d)
    <2>1. row'[d] = s /\ \A e \in Dispatch \ {d} : row'[e] = row[e]
      BY <1>5, PutRow
    <2>2. Placed(d)'
      BY <1>2, <1>3, <1>4, <1>5, <2>1
         DEF Placed, StateMatchesPlacement, StartedMeansCloud, StaleAlarmIsHarmless
    <2> QED
      BY <1>2, <1>5, <2>1, <2>2 DEF StepOK, OthersKept
  <1>6. CASE SubmitToRequester(d, r, p)
    <2> DEFINE s == [r EXCEPT !.state = "computer_accepted", !.placement = "computer",
                              !.exec = p, !.sess = presence[p].sess, !.lease = "live",
                              !.gateHeld = (r.kind = "agent")]
    <2>1. s.state = "computer_accepted" /\ s.placement = "computer"
      BY DEF RowType
    <2>2. Put(d, s) /\ UNCHANGED start
      BY <1>6 DEF SubmitToRequester
    <2> HIDE DEF s
    <2> QED
      BY <1>5, <2>1, <2>2
  <1>7. CASE SubmitOffer(d, r, p)
    <2> DEFINE s == [r EXCEPT !.state = "offering", !.payload = "live",
                              !.offerDl = "live", !.gateHeld = (r.kind = "agent")]
    <2>1. s.state = "offering" /\ s.placement = "none"
      BY <1>1 DEF RowType
    <2>2. Put(d, s) /\ UNCHANGED start
      BY <1>7 DEF SubmitOffer
    <2> HIDE DEF s
    <2> QED
      BY <1>5, <2>1, <2>2
  <1>8. CASE SubmitBlocked(d, r)
    <2> DEFINE s == [r EXCEPT !.state = "blocked"]
    <2>1. s.state = "blocked" /\ s.placement = "none"
      BY <1>1 DEF RowType
    <2>2. Put(d, s) /\ UNCHANGED start
      BY <1>8 DEF SubmitBlocked
    <2> HIDE DEF s
    <2> QED
      BY <1>5, <2>1, <2>2
  <1>9. CASE SubmitToCloud(d, r)
    <2> DEFINE s == [r EXCEPT !.state = "cloud_committed", !.placement = "cloud",
                              !.lease = "live", !.payload = "live",
                              !.gateHeld = (r.kind = "agent")]
    <2>1. CloudRow(s)
      BY <1>1 DEF RowType, CloudRow
    <2>2. s \in RowType
      <3>1. \A b \in BOOLEAN :
              [r EXCEPT !.state = "cloud_committed", !.placement = "cloud",
                        !.lease = "live", !.payload = "live", !.gateHeld = b] \in RowType
        BY NamedValues DEF RowType
      <3> QED
        BY <3>1
    <2>3. RunCloudBranch(d, "submit", s, TRUE, SubmitSlots(d, r))
      BY <1>9 DEF SubmitToCloud
    <2> HIDE DEF s
    <2>4. CloudStep(d)
      BY <2>1, <2>2, <2>3, BranchRow DEF Caller
    <2> QED
      BY <1>2, <2>4, CloudStepOK
  <1> QED
    BY <1>1, <1>6, <1>7, <1>8, <1>9 DEF SubmitPlaced

\* A frame of the computer that holds the work is about work on its side.
LEMMA OwnedIsLocal ==
    ASSUME TypeOK, NEW d \in Dispatch, NEW p \in Device, Placed(d), Owns(p, d),
           row[d].state \in AcceptedState
    PROVE  row[d].placement = "computer"
  <1>1. row[d].exec # NoDevice
    BY OwnerGateAssumption DEF Owns
  <1>2. row[d].placement \in {"none", "computer", "cloud"}
    BY DEF TypeOK, RowType
  <1> QED
    BY <1>1, <1>2 DEF Placed, StateMatchesPlacement, AcceptedState

LEMMA FrameStep ==
    ASSUME TypeOK, PlacementInv, NEW d \in Dispatch, NEW p \in Device, Frame(p, d)
    PROVE  StepOK(d)
  <1>1. Placed(d) /\ row[d] \in RowType
    BY DEF PlacementInv, TypeOK
  <1>2. CASE HandleClaim(p, d)
    <2> DEFINE s == [row[d] EXCEPT !.state = "computer_claimed", !.exec = p,
                                   !.sess = presence[p].sess, !.lease = "live"]
    <2>1. /\ row'[d] = s /\ \A e \in Dispatch \ {d} : row'[e] = row[e]
          /\ UNCHANGED <<start, runs, alarm>>
      BY <1>2, PutRow DEF HandleClaim
    <2>2. /\ row'[d].state = "computer_claimed" /\ row'[d].placement = "none"
          /\ row[d].placement = "none"
      BY <1>1, <1>2, <2>1 DEF HandleClaim, RowType, Placed, StateMatchesPlacement
    <2>3. alarm[d].branch \notin {"offer", "claim", "retry", "lease"}
      BY <1>1, <1>2, <2>2 DEF HandleClaim, Placed, StaleAlarmIsHarmless
    <2>4. Placed(d)'
      BY <1>1, <2>1, <2>2, <2>3
         DEF Placed, StateMatchesPlacement, StartedMeansCloud, StaleAlarmIsHarmless
    <2> QED
      BY <2>1, <2>2, <2>4 DEF StepOK, OthersKept
  <1>3. CASE HandleRelease(p, d)
    <2> DEFINE r == [row[d] EXCEPT !.state = "offering", !.exec = NoDevice, !.sess = 0,
                                   !.lease = "none"]
    <2>1. row[d].state = "computer_claimed" /\ row[d].placement = "none"
      BY <1>1, <1>3 DEF HandleRelease, Placed, StateMatchesPlacement
    <2>2. r \in RowType /\ r.placement = row[d].placement
      BY <1>1, NamedValues DEF RowType
    <2>3. ResolveUnaccepted(d, "frame", r) /\ UNCHANGED <<runs, alarm>>
      BY <1>3 DEF HandleRelease
    <2> HIDE DEF r
    <2> QED
      BY <1>1, <2>1, <2>2, <2>3, ResolveStep DEF Caller
  <1>4. CASE HandleAck(p, d)
    <2> DEFINE s == [row[d] EXCEPT !.state = "computer_accepted",
                                   !.placement = "computer", !.payload = "none",
                                   !.lease = "live"]
    <2>1. /\ row'[d] = s /\ \A e \in Dispatch \ {d} : row'[e] = row[e]
          /\ UNCHANGED <<start, runs, alarm>>
      BY <1>4, PutRow DEF HandleAck
    <2>2. row'[d].state = "computer_accepted" /\ row'[d].placement = "computer"
      BY <1>1, <2>1 DEF RowType
    <2>3. row[d].state = "computer_claimed" /\ row[d].placement = "none" /\ row[d].lease = "live"
      BY <1>1, <1>4 DEF HandleAck, Placed, StateMatchesPlacement
    <2>4. alarm[d].branch \notin {"offer", "claim", "retry", "lease"}
      BY <1>1, <2>3 DEF Placed, StaleAlarmIsHarmless
    <2>5. Placed(d)'
      BY <1>1, <2>1, <2>2, <2>3, <2>4
         DEF Placed, StateMatchesPlacement, StartedMeansCloud, StaleAlarmIsHarmless
    <2> QED
      BY <2>1, <2>2, <2>5 DEF StepOK, OthersKept
  <1>5. ASSUME NEW s, Put(d, s), UNCHANGED <<start, runs, alarm>>,
               s.state \in AcceptedState, s.placement = "computer",
               row[d].placement = "computer"
        PROVE  StepOK(d)
    <2>1. row'[d] = s /\ \A e \in Dispatch \ {d} : row'[e] = row[e]
      BY <1>5, PutRow
    <2>2. Placed(d)'
      BY <1>1, <1>5, <2>1
         DEF Placed, StateMatchesPlacement, StartedMeansCloud, StaleAlarmIsHarmless, AcceptedState
    <2> QED
      BY <1>5, <2>1, <2>2 DEF StepOK, OthersKept
  <1>6. CASE HandleRunning(p, d)
    <2> DEFINE s == [row[d] EXCEPT !.state = "computer_running", !.started = TRUE,
                                   !.lease = "live"]
    <2>1. row[d].placement = "computer"
      BY <1>1, <1>6, OwnedIsLocal DEF HandleRunning, AcceptedState
    <2>2. s.state = "computer_running" /\ s.placement = "computer"
      BY <1>1, <2>1 DEF RowType
    <2>3. Put(d, s) /\ UNCHANGED <<start, runs, alarm>>
      BY <1>6 DEF HandleRunning
    <2> HIDE DEF s
    <2> QED
      BY <1>5, <2>1, <2>2, <2>3 DEF AcceptedState
  <1>7. CASE HandleRenew(p, d)
    <2> DEFINE st == IF row[d].state # "reconciliation_required" THEN row[d].state
                     ELSE IF row[d].started THEN "computer_running"
                     ELSE "computer_accepted"
               s == [row[d] EXCEPT !.state = st, !.lease = "live"]
    <2>1. row[d].placement = "computer" /\ st \in AcceptedState
      BY <1>1, <1>7, OwnedIsLocal DEF HandleRenew, AcceptedState
    <2>2. Put(d, s) /\ UNCHANGED <<start, runs, alarm>>
      BY <1>1, <1>7 DEF HandleRenew, RowType
    <2> HIDE DEF st
    <2>3. s.state = st /\ s.placement = "computer"
      BY <1>1, <2>1 DEF RowType
    <2> HIDE DEF s
    <2> QED
      BY <1>5, <2>1, <2>2, <2>3
  <1>8. CASE HandleComplete(p, d)
    <2>1. PICK outcome \in Outcome : PutAndReleaseGate(d, Settled(row[d], outcome), running)
      BY <1>8 DEF HandleComplete
    <2> DEFINE s == [Settled(row[d], outcome) EXCEPT !.gateHeld = FALSE]
    <2>2. Put(d, s) /\ UNCHANGED <<start, runs, alarm>>
      BY <1>8, <2>1 DEF HandleComplete, PutAndReleaseGate
    <2>3. s.state \in {"completed", "failed", "canceled"}
          /\ s.placement = row[d].placement /\ s.exec = row[d].exec
      BY <1>1 DEF Settled, RowType, Outcome
    <2> HIDE DEF s
    <2> QED
      BY <1>1, <2>2, <2>3, EndingStep
  <1> QED
    BY <1>2, <1>3, <1>4, <1>6, <1>7, <1>8 DEF Frame

\* Continuations of a start are about work on the cloud side and leave it there.
LEMMA ContinueCloud ==
    ASSUME TypeOK, PlacementInv, NEW d \in Dispatch, NEW c \in Caller, Continue(d, c)
    PROVE  CloudStep(d) /\ row[d].placement = "cloud"
  <1>1. Placed(d) /\ row[d] \in RowType
    BY DEF PlacementInv, TypeOK
  <1>2. start[d][c].phase # "idle"
    BY DEF Continue, ChatHold, ChatRegister, CloudAnswers, StartReplyOk, StartReplyRefused,
           StartLost
  <1>3. CloudRow(row[d]) /\ row[d].placement = "cloud"
    BY <1>1, <1>2, StartingIsCloud
  <1>4. SUFFICES CloudStep(d)
    BY <1>3
  <1>5. CASE ChatHold(d, c)
    <2>1. \A e \in Dispatch \ {d} : start'[e] = start[e]
      BY <1>5 DEF ChatHold, TypeOK
    <2>2. /\ row'[d] = [row[d] EXCEPT !.gateHeld = TRUE]
          /\ \A e \in Dispatch \ {d} : row'[e] = row[e]
      BY <1>5, PutRow DEF ChatHold
    <2>3. CloudRow([row[d] EXCEPT !.gateHeld = TRUE])
      BY <1>1, <1>3, CloudRowUpdates
    <2> QED
      BY <2>1, <2>2, <2>3 DEF CloudStep
  <1>6. CASE ChatRegister(d, c)
    <2>1. CASE /\ CloudRefusal(d, row[d], start[d][c].attempt, "refused", Freed(d, running))
               /\ EndStart(d, c)
      BY <1>1, <1>3, <2>1, RefusalRow, OtherStarts DEF CloudStep
    <2>2. CASE SendAdmittedChat(d, c, row[d], start[d][c].attempt)
      BY <1>1, <1>3, <2>2, SendRow
    <2> QED
      BY <1>6, <2>1, <2>2 DEF ChatRegister
  <1>7. CASE CloudAnswers(d, c)
    BY <1>3, <1>7 DEF CloudAnswers, CloudStep, TypeOK
  <1>8. CASE StartReplyOk(d, c)
    <2>1. CASE UNCHANGED row
      BY <1>3, <1>8, <2>1, OtherStarts DEF StartReplyOk, CloudStep
    <2>2. CASE Put(d, CloudRunning(row[d]))
      BY <1>1, <1>3, <1>8, <2>2, PutRow, CloudRowUpdates, OtherStarts DEF StartReplyOk, CloudStep
    <2>3. CASE PutAndReleaseGate(d, CloudRunning(row[d]), running)
      <3>1. EndStart(d, c)
        BY <1>8 DEF StartReplyOk
      <3>2. CloudRow([CloudRunning(row[d]) EXCEPT !.gateHeld = FALSE])
        BY <1>1, <1>3, CloudRowUpdates
      <3>3. /\ row'[d] = [CloudRunning(row[d]) EXCEPT !.gateHeld = FALSE]
            /\ \A e \in Dispatch \ {d} : row'[e] = row[e]
        BY <2>3, ReleaseRow
      <3> QED
        BY <3>1, <3>2, <3>3, OtherStarts DEF CloudStep
    <2> QED
      BY <1>8, <2>1, <2>2, <2>3 DEF StartReplyOk
  <1>9. CASE StartReplyRefused(d, c)
    BY <1>1, <1>3, <1>9, RefusalRow, OtherStarts DEF StartReplyRefused, CloudStep
  <1>10. CASE StartLost(d, c)
    BY <1>3, <1>10, OtherStarts DEF StartLost, CloudStep
  <1> QED
    BY <1>5, <1>6, <1>7, <1>8, <1>9, <1>10 DEF Continue

LEMMA ContinueStep ==
    ASSUME TypeOK, PlacementInv, NEW d \in Dispatch, NEW c \in Caller, Continue(d, c)
    PROVE  StepOK(d)
  <1>1. \A e \in Dispatch \ {d} : runs'[e] = runs[e] /\ alarm'[e] = alarm[e]
    BY DEF Continue, ChatHold, ChatRegister, CloudAnswers, StartReplyOk, StartReplyRefused,
           StartLost, TypeOK
  <1> QED
    BY <1>1, ContinueCloud, CloudStepOK

\* The fence, slots, receipts and status reads.
LEMMA SettleStep ==
    ASSUME TypeOK, PlacementInv, NEW d \in Dispatch,
           \/ FenceUnregister(d) \/ Release(d)
           \/ RecordCloudDispatchTerminal(d) \/ DispatchStatus(d)
    PROVE  StepOK(d)
  <1>1. Placed(d) /\ row[d] \in RowType
    BY DEF PlacementInv, TypeOK
  <1>2. CASE FenceUnregister(d)
    <2> DEFINE s == [row[d] EXCEPT !.gateHeld = FALSE]
    <2>1. /\ s.state = row[d].state /\ s.placement = row[d].placement
          /\ s.exec = row[d].exec /\ s.offerDl = row[d].offerDl /\ s.lease = row[d].lease
      BY <1>1 DEF RowType
    <2>2. Put(d, s) /\ UNCHANGED <<start, runs, alarm>>
      BY <1>2 DEF FenceUnregister
    <2> HIDE DEF s
    <2> QED
      BY <1>1, <2>1, <2>2, QuietStep
  <1>3. CASE Release(d)
    BY <1>3, IdleStep DEF Release
  <1>4. ASSUME NEW o \in Outcome, PutAndReleaseGate(d, Settled(row[d], o), running),
               UNCHANGED <<start, runs, alarm>>
        PROVE  StepOK(d)
    <2> DEFINE s == [Settled(row[d], o) EXCEPT !.gateHeld = FALSE]
    <2>1. /\ s.state \in {"completed", "failed", "canceled"}
          /\ s.placement = row[d].placement /\ s.exec = row[d].exec
      BY <1>1 DEF Settled, RowType, Outcome
    <2>2. Put(d, s)
      BY <1>4 DEF PutAndReleaseGate
    <2> HIDE DEF s
    <2> QED
      BY <1>1, <1>4, <2>1, <2>2, EndingStep
  <1>5. CASE RecordCloudDispatchTerminal(d)
    BY <1>4, <1>5, IdleStep DEF RecordCloudDispatchTerminal
  <1>6. CASE DispatchStatus(d)
    <2>1. receipt[d] \in Outcome
      BY <1>6 DEF DispatchStatus, TypeOK
    <2> QED
      BY <1>4, <1>6, <2>1 DEF DispatchStatus
  <1> QED
    BY <1>2, <1>3, <1>5, <1>6

\* A stop of accepted work leaves it where it is.
LEMMA CancelStep ==
    ASSUME TypeOK, PlacementInv, NEW d \in Dispatch, CancelDispatch(d)
    PROVE  StepOK(d)
  <1>1. Placed(d) /\ row[d] \in RowType /\ UNCHANGED <<start, runs, alarm>>
    BY DEF PlacementInv, TypeOK, CancelDispatch
  <1> DEFINE stopped == [row[d] EXCEPT !.stop = TRUE]
  <1>2. CASE PutAndReleaseGate(d, [stopped EXCEPT !.state = "canceled", !.payload = "none",
                                      !.offerDl = "none", !.lease = "none",
                                      !.exec = NoDevice, !.sess = 0], running)
    <2> DEFINE s == [[stopped EXCEPT !.state = "canceled", !.payload = "none",
                                     !.offerDl = "none", !.lease = "none",
                                     !.exec = NoDevice, !.sess = 0] EXCEPT !.gateHeld = FALSE]
    <2>1. s.state = "canceled" /\ s.placement = row[d].placement /\ s.exec = NoDevice
      BY <1>1 DEF RowType
    <2>2. Put(d, s)
      BY <1>2 DEF PutAndReleaseGate
    <2> HIDE DEF s
    <2> QED
      BY <1>1, <2>1, <2>2, EndingStep
  <1>3. CASE /\ ~MayFallbackToCloud(row[d].state)
             /\ row[d].state # "absent" /\ ~IsTerminalDispatchState(row[d].state)
             /\ Put(d, [stopped EXCEPT !.state = "cancel_pending"])
    <2>1. /\ row'[d].state = "cancel_pending" /\ row'[d].placement = row[d].placement
          /\ row'[d].exec = row[d].exec
          /\ \A e \in Dispatch \ {d} : row'[e] = row[e]
      <3>1. /\ row'[d] = [stopped EXCEPT !.state = "cancel_pending"]
            /\ \A e \in Dispatch \ {d} : row'[e] = row[e]
        BY <1>3, PutRow
      <3> QED
        BY <1>1, <3>1 DEF RowType
    <2>2. row[d].placement # "none"
      BY <1>1, <1>3
         DEF Placed, StateMatchesPlacement, MayFallbackToCloud, IsTerminalDispatchState,
             RowType, DispatchState
    <2>3. Placed(d)'
      BY <1>1, <2>1, <2>2
         DEF Placed, StateMatchesPlacement, StartedMeansCloud, StaleAlarmIsHarmless
    <2> QED
      BY <1>1, <2>1, <2>3 DEF StepOK, OthersKept
  <1> QED
    BY <1>2, <1>3 DEF CancelDispatch

\* The alarm acts on decisions it took earlier; they can do no harm.
LEMMA AlarmStepOK ==
    ASSUME TypeOK, PlacementInv, NEW d \in Dispatch, AlarmStep(d)
    PROVE  StepOK(d)
  <1>1. /\ Placed(d) /\ row[d] \in RowType /\ UNCHANGED runs
        /\ alarm' = [alarm EXCEPT ![d] = NotDue]
        /\ alarm'[d].branch = "none"
        /\ \A e \in Dispatch \ {d} : runs'[e] = runs[e] /\ alarm'[e] = alarm[e]
    BY DEF PlacementInv, TypeOK, AlarmStep, NotDue
  <1>2. CASE AlarmUnaccepted(d)
    <2>1. row[d].placement # "computer" /\ row[d].state # "absent"
      BY <1>1, <1>2 DEF AlarmUnaccepted, Placed, StaleAlarmIsHarmless
    <2> QED
      BY <1>1, <1>2, <2>1, ResolveStep DEF AlarmUnaccepted, Caller
  <1>3. CASE AlarmRetry(d)
    <2>1. row[d].placement = "cloud"
      BY <1>1, <1>3 DEF AlarmRetry, Placed, StaleAlarmIsHarmless
    <2>2. CloudStep(d)
      BY <1>1, <1>3, <2>1, OnCloudSide, BranchRow DEF AlarmRetry, Caller
    <2> QED
      BY <1>1, <2>1, <2>2, CloudStepOK
  <1>4. CASE AlarmLease(d)
    <2>1. row[d].placement # "none"
      BY <1>1, <1>4 DEF AlarmLease, Placed, StaleAlarmIsHarmless
    <2>2. /\ row'[d].state = "reconciliation_required" /\ row'[d].placement = row[d].placement
          /\ row'[d].exec = row[d].exec
          /\ \A e \in Dispatch \ {d} : row'[e] = row[e]
          /\ UNCHANGED start
      <3>1. /\ row'[d] = [row[d] EXCEPT !.state = "reconciliation_required", !.lease = "none"]
            /\ \A e \in Dispatch \ {d} : row'[e] = row[e]
            /\ UNCHANGED start
        BY <1>4, PutRow DEF AlarmLease
      <3> QED
        BY <1>1, <3>1 DEF RowType
    <2>3. Placed(d)'
      BY <1>1, <2>1, <2>2
         DEF Placed, StateMatchesPlacement, StartedMeansCloud, StaleAlarmIsHarmless
    <2> QED
      BY <1>1, <2>2, <2>3 DEF StepOK, OthersKept
  <1>5. CASE AlarmPayload(d)
    <2> DEFINE s == [row[d] EXCEPT !.payload = "none"]
    <2>1. /\ s.state = row[d].state /\ s.placement = row[d].placement
          /\ s.exec = row[d].exec /\ s.offerDl = row[d].offerDl /\ s.lease = row[d].lease
      BY <1>1 DEF RowType
    <2>2. Put(d, s) /\ UNCHANGED start
      BY <1>5 DEF AlarmPayload
    <2> HIDE DEF s
    <2> QED
      BY <1>1, <2>1, <2>2, QuietStep
  <1> QED
    BY <1>2, <1>3, <1>4, <1>5 DEF AlarmStep

\* Time only makes deadlines lapse.
LEMMA LapseStep ==
    ASSUME TypeOK, PlacementInv, NEW d \in Dispatch, Lapse(d)
    PROVE  StepOK(d)
  <1>1. Placed(d) /\ row[d] \in RowType /\ UNCHANGED <<start, runs, alarm>>
    BY DEF PlacementInv, TypeOK, Lapse
  <1>2. ASSUME NEW s, Put(d, s),
               \/ s = [row[d] EXCEPT !.offerDl = "lapsed"]
               \/ s = [row[d] EXCEPT !.lease = "lapsed"]
               \/ s = [row[d] EXCEPT !.retry = "lapsed"]
               \/ s = [row[d] EXCEPT !.payload = "lapsed"]
        PROVE  StepOK(d)
    <2>1. /\ s.state = row[d].state /\ s.placement = row[d].placement
          /\ s.exec = row[d].exec
          /\ s.offerDl = row[d].offerDl \/ s.offerDl = "lapsed"
          /\ s.lease = row[d].lease \/ s.lease = "lapsed"
      BY <1>1, <1>2 DEF RowType
    <2> QED
      BY <1>1, <1>2, <2>1, QuietStep
  <1>3. CASE UNCHANGED row
    BY <1>1, <1>3, IdleStep
  <1> QED
    BY <1>2, <1>3 DEF Lapse, LapseOffer, LapseLease, LapseRetry, LapsePayload, LapseSlot

-----------------------------------------------------------------------------
(* The theorems.                                                           *)

LEMMA InitPlaced == Init => PlacementInv
  BY DEF Init, PlacementInv, Placed, StateMatchesPlacement, StartedMeansCloud,
         StaleAlarmIsHarmless, NoRow, NotDue

\* What a fresh alarm pass decides agrees with the rows it reads.
LEMMA BeginPlaced ==
    ASSUME TypeOK, PlacementInv, AlarmBegin
    PROVE  PlacementInv'
  <1> SUFFICES ASSUME NEW d \in Dispatch PROVE Placed(d)'
    BY DEF PlacementInv
  <1>1. /\ Placed(d) /\ UNCHANGED <<row, start, runs>>
        /\ alarm'[d].branch = LapsedBranch(row[d])
    BY DEF AlarmBegin, PlacementInv
  <1>2. StateMatchesPlacement(d)' /\ StartedMeansCloud(d)'
    BY <1>1 DEF Placed, StateMatchesPlacement, StartedMeansCloud
  <1>3. StaleAlarmIsHarmless(d)'
    BY <1>1 DEF Placed, StateMatchesPlacement, StaleAlarmIsHarmless, LapsedBranch, LeasedState
  <1> QED
    BY <1>2, <1>3 DEF Placed

\* Ending a pass and losing the object only forget decisions and starts.
LEMMA ForgetPlaced ==
    ASSUME TypeOK, PlacementInv, AlarmEnd \/ Evict
    PROVE  PlacementInv'
  <1> SUFFICES ASSUME NEW d \in Dispatch PROVE Placed(d)'
    BY DEF PlacementInv
  <1>1. /\ Placed(d) /\ UNCHANGED <<row, runs>>
        /\ alarm'[d].branch = "none"
        /\ \A c \in Caller : start'[d][c] # Idle => start[d][c] # Idle
    BY DEF AlarmEnd, Evict, PlacementInv, NotDue
  <1> QED
    BY <1>1 DEF Placed, StateMatchesPlacement, StartedMeansCloud, StaleAlarmIsHarmless

\* A good step of a dispatch keeps every dispatch placed and accepted work put.
LEMMA StepPlaced ==
    ASSUME PlacementInv, NEW d \in Dispatch, StepOK(d)
    PROVE  PlacementInv' /\ \A e \in Dispatch : row[e].placement = "computer"
                                                   => row'[e].placement = "computer"
  <1>1. PlacementInv'
    BY Focus DEF StepOK
  <1>2. ASSUME NEW e \in Dispatch, row[e].placement = "computer"
        PROVE  row'[e].placement = "computer"
    BY <1>2 DEF StepOK, OthersKept
  <1> QED
    BY <1>1, <1>2

\* Every step keeps the placement invariant and leaves accepted work on its
\* computer.
LEMMA PlacementStep ==
    ASSUME TypeOK, PlacementInv, [Next]_vars
    PROVE  PlacementInv' /\ \A e \in Dispatch : row[e].placement = "computer"
                                                   => row'[e].placement = "computer"
  <1>1. ASSUME UNCHANGED <<row, start, runs, alarm>>
        PROVE  PlacementInv' /\ UNCHANGED row
    BY <1>1, Kept DEF PlacementInv
  <1>2. CASE UNCHANGED vars
    BY <1>1, <1>2 DEF vars
  <1>3. ASSUME NEW d \in Dispatch,
               \/ Submit(d) \/ FenceUnregister(d) \/ Release(d)
               \/ RecordCloudDispatchTerminal(d) \/ DispatchStatus(d) \/ CancelDispatch(d)
               \/ AlarmStep(d) \/ Lapse(d)
               \/ \E p \in Device : Frame(p, d)
               \/ \E c \in Caller : Continue(d, c)
        PROVE  PlacementInv' /\ \A e \in Dispatch : row[e].placement = "computer"
                                                       => row'[e].placement = "computer"
    <2>1. StepOK(d)
      BY <1>3, SubmitStep, FrameStep, ContinueStep, SettleStep, CancelStep, AlarmStepOK,
         LapseStep
    <2> QED
      BY <2>1, StepPlaced
  <1>4. CASE \E p \in Device : Connect(p) \/ Disconnect(p) \/ SetReady(p)
    BY <1>1, <1>4 DEF Connect, Disconnect, SetReady
  <1>5. CASE AlarmBegin
    BY <1>5, BeginPlaced DEF AlarmBegin
  <1>6. CASE AlarmEnd \/ Evict
    BY <1>6, ForgetPlaced DEF AlarmEnd, Evict
  <1> QED
    BY <1>2, <1>3, <1>4, <1>5, <1>6 DEF Next

\* The rows, the starts and the decisions a suspended alarm still holds agree on
\* where a dispatch is, in every reachable state of the gate.
THEOREM PlacementSafe == Spec => []PlacementInv
  <1>1. Init => PlacementInv
    BY InitPlaced
  <1>2. TypeOK /\ PlacementInv /\ [Next]_vars => PlacementInv'
    BY PlacementStep
  <1> QED
    BY <1>1, <1>2, TypeCorrect, PTL DEF Spec

\* Work a computer durably accepted has no cloud execution and no cloud start
\* under way (resolveUnaccepted, expireDispatches, handleExecutorFrame).
THEOREM OneSideExecutes == Spec => []NoSplitPlacement
  <1>1. TypeOK /\ PlacementInv => NoSplitPlacement
    <2> SUFFICES ASSUME TypeOK, PlacementInv, NEW d \in Dispatch,
                        row[d].placement = "computer"
                 PROVE  runs[d] = 0 /\ \A c \in Caller : start[d][c] = Idle
      BY DEF NoSplitPlacement
    <2>1. ~(runs[d] > 0) /\ \A c \in Caller : start[d][c] = Idle
      BY DEF PlacementInv, Placed, StartedMeansCloud
    <2>2. runs[d] \in Nat
      BY DEF TypeOK
    <2> QED
      BY <2>1, <2>2
  <1> QED
    BY <1>1, TypeCorrect, PlacementSafe, PTL

\* Accepted work never leaves its computer and is never offered, claimed or
\* started again: only resolveUnaccepted moves work to the cloud.
THEOREM AcceptedWorkStays == Spec => NeverRerouted
  <1>1. TypeOK /\ PlacementInv /\ [Next]_vars
          => [\A d \in Dispatch : AcceptedStaysPut(d)]_vars
    <2> SUFFICES ASSUME TypeOK, PlacementInv, [Next]_vars, NEW d \in Dispatch,
                        row[d].placement = "computer"
                 PROVE  /\ row'[d].placement = "computer"
                        /\ row'[d].state \notin {"offering", "computer_claimed",
                               "cloud_committed", "cloud_running", "blocked"}
      BY DEF AcceptedStaysPut
    <2>1. row'[d].placement = "computer" /\ Placed(d)'
      BY PlacementStep DEF PlacementInv
    <2> QED
      BY <2>1 DEF Placed, StateMatchesPlacement
  <1> QED
    BY <1>1, TypeCorrect, PlacementSafe, PTL DEF Spec, NeverRerouted

-----------------------------------------------------------------------------
(* The payload of accepted work.                                           *)

\* A fallback gives no computer the work.
LEMMA ResolveNotLocal ==
    ASSUME TypeOK, NEW d \in Dispatch, NEW c \in Caller, NEW r \in RowType,
           r.placement # "computer", ResolveUnaccepted(d, c, r)
    PROVE  row'[d].placement # "computer"
  <1>1. CASE RunCloudBranch(d, c, CloudCommitted(r), r.payload # "none", running)
    BY <1>1, CommittedRow, BranchRow DEF CloudStep, CloudRow
  <1>2. CASE PutAndReleaseGate(d, BlockedRow(r), running)
    <2>1. row'[d] = [BlockedRow(r) EXCEPT !.gateHeld = FALSE]
      BY <1>2, ReleaseRow
    <2> QED
      BY <2>1 DEF BlockedRow, RowType
  <1> QED
    BY <1>1, <1>2 DEF ResolveUnaccepted

PayloadGone(d) == row[d].placement = "computer" => row[d].payload = "none"

LEMMA SubmitPayload ==
    ASSUME TypeOK, PlacementInv, NEW d \in Dispatch, Submit(d)
    PROVE  PayloadGone(d)'
  <1>1. PICK r, p, decision :
          r \in RowType /\ r.placement = "none" /\ r.exec = NoDevice /\ r.payload = "none"
            /\ SubmitPlaced(d, decision, r, p)
    <2>1. \A kind, subject, decision, cloudable :
            NewRow(kind, subject, decision, cloudable).payload = "none"
      BY DEF NewRow, NoRow
    <2> QED
      BY <2>1, NewRowType, NewRowPlacement DEF Submit
  <1>2. CASE SubmitToRequester(d, r, p)
    <2>1. row'[d] = [r EXCEPT !.state = "computer_accepted", !.placement = "computer",
                              !.exec = p, !.sess = presence[p].sess, !.lease = "live",
                              !.gateHeld = (r.kind = "agent")]
      BY <1>2, PutRow DEF SubmitToRequester
    <2>2. row'[d].payload = "none"
      BY <1>1, <2>1 DEF RowType
    <2> QED
      BY <2>2 DEF PayloadGone
  <1>3. CASE SubmitOffer(d, r, p)
    <2>1. row'[d] = [r EXCEPT !.state = "offering", !.payload = "live",
                              !.offerDl = "live", !.gateHeld = (r.kind = "agent")]
      BY <1>3, PutRow DEF SubmitOffer
    <2>2. row'[d].placement = "none"
      BY <1>1, <2>1 DEF RowType
    <2> QED
      BY <2>2 DEF PayloadGone
  <1>4. CASE SubmitBlocked(d, r)
    <2>1. row'[d] = [r EXCEPT !.state = "blocked"]
      BY <1>4, PutRow DEF SubmitBlocked
    <2>2. row'[d].placement = "none"
      BY <1>1, <2>1 DEF RowType
    <2> QED
      BY <2>2 DEF PayloadGone
  <1>5. CASE SubmitToCloud(d, r)
    <2> DEFINE s == [r EXCEPT !.state = "cloud_committed", !.placement = "cloud",
                              !.lease = "live", !.payload = "live",
                              !.gateHeld = (r.kind = "agent")]
    <2>1. CloudRow(s)
      BY <1>1 DEF RowType, CloudRow
    <2>2. s \in RowType
      <3>1. \A b \in BOOLEAN :
              [r EXCEPT !.state = "cloud_committed", !.placement = "cloud",
                        !.lease = "live", !.payload = "live", !.gateHeld = b] \in RowType
        BY <1>1, NamedValues DEF RowType
      <3> QED
        BY <3>1
    <2>3. RunCloudBranch(d, "submit", s, TRUE, SubmitSlots(d, r))
      BY <1>5 DEF SubmitToCloud
    <2> HIDE DEF s
    <2> QED
      BY <2>1, <2>2, <2>3, BranchRow DEF Caller, CloudStep, CloudRow, PayloadGone
  <1> QED
    BY <1>1, <1>2, <1>3, <1>4, <1>5 DEF SubmitPlaced

LEMMA FramePayload ==
    ASSUME TypeOK, PlacementInv, NEW d \in Dispatch, PayloadGone(d), NEW p \in Device,
           Frame(p, d)
    PROVE  PayloadGone(d)'
  <1>1. Placed(d) /\ row[d] \in RowType
    BY DEF PlacementInv, TypeOK
  <1>2. CASE HandleClaim(p, d) \/ HandleRunning(p, d) \/ HandleRenew(p, d)
    <2>1. \/ row'[d] = [row[d] EXCEPT !.state = "computer_claimed", !.exec = p,
                                      !.sess = presence[p].sess, !.lease = "live"]
          \/ row'[d] = [row[d] EXCEPT !.state = "computer_running", !.started = TRUE,
                                      !.lease = "live"]
          \/ row'[d] = [row[d] EXCEPT
                          !.state = IF @ # "reconciliation_required" THEN @
                                    ELSE IF row[d].started THEN "computer_running"
                                    ELSE "computer_accepted",
                          !.lease = "live"]
      BY <1>2, PutRow DEF HandleClaim, HandleRunning, HandleRenew
    <2>2. row'[d].payload = row[d].payload /\ row'[d].placement = row[d].placement
      BY <1>1, <2>1 DEF RowType
    <2> QED
      BY <2>2 DEF PayloadGone
  <1>3. CASE HandleRelease(p, d)
    <2> DEFINE r == [row[d] EXCEPT !.state = "offering", !.exec = NoDevice, !.sess = 0,
                                   !.lease = "none"]
    <2>1. row[d].placement = "none"
      BY <1>1, <1>3 DEF HandleRelease, Placed, StateMatchesPlacement
    <2>2. r \in RowType /\ r.placement = row[d].placement
      BY <1>1, NamedValues DEF RowType
    <2>3. ResolveUnaccepted(d, "frame", r)
      BY <1>3 DEF HandleRelease
    <2> HIDE DEF r
    <2> QED
      BY <2>1, <2>2, <2>3, ResolveNotLocal DEF Caller, PayloadGone
  <1>4. CASE HandleAck(p, d)
    <2>1. row'[d] = [row[d] EXCEPT !.state = "computer_accepted",
                                   !.placement = "computer", !.payload = "none",
                                   !.lease = "live"]
      BY <1>4, PutRow DEF HandleAck
    <2>2. row'[d].payload = "none"
      BY <1>1, <2>1 DEF RowType
    <2> QED
      BY <2>2 DEF PayloadGone
  <1>5. CASE HandleComplete(p, d)
    <2>1. PICK outcome \in Outcome : PutAndReleaseGate(d, Settled(row[d], outcome), running)
      BY <1>5 DEF HandleComplete
    <2>2. row'[d] = [Settled(row[d], outcome) EXCEPT !.gateHeld = FALSE]
      BY <2>1, ReleaseRow
    <2>3. row'[d].payload = "none"
      BY <1>1, <2>2 DEF Settled, RowType
    <2> QED
      BY <2>3 DEF PayloadGone
  <1> QED
    BY <1>2, <1>3, <1>4, <1>5 DEF Frame

LEMMA SettlePayload ==
    ASSUME TypeOK, PlacementInv, NEW d \in Dispatch, PayloadGone(d),
           \/ FenceUnregister(d) \/ Release(d) \/ RecordCloudDispatchTerminal(d)
           \/ DispatchStatus(d) \/ CancelDispatch(d)
    PROVE  PayloadGone(d)'
  <1>1. row[d] \in RowType
    BY DEF TypeOK
  <1> DEFINE stopped == [row[d] EXCEPT !.stop = TRUE]
             ended == [stopped EXCEPT !.state = "canceled", !.payload = "none",
                                      !.offerDl = "none", !.lease = "none",
                                      !.exec = NoDevice, !.sess = 0]
  <1>2. \/ row'[d] = row[d]
        \/ row'[d] = [row[d] EXCEPT !.gateHeld = FALSE]
        \/ \E o : row'[d] = [Settled(row[d], o) EXCEPT !.gateHeld = FALSE]
        \/ row'[d] = [ended EXCEPT !.gateHeld = FALSE]
        \/ row'[d] = [stopped EXCEPT !.state = "cancel_pending"]
    <2>1. CASE FenceUnregister(d) \/ DispatchStatus(d)
      BY <2>1, PutRow, ReleaseRow DEF FenceUnregister, DispatchStatus
    <2>2. CASE Release(d)
      BY <2>2, PutRow, ReleaseRow DEF Release
    <2>3. CASE RecordCloudDispatchTerminal(d)
      BY <2>3, PutRow, ReleaseRow DEF RecordCloudDispatchTerminal
    <2>4. CASE CancelDispatch(d)
      BY <2>4, PutRow, ReleaseRow DEF CancelDispatch
    <2> QED
      BY <2>1, <2>2, <2>3, <2>4
  <1>3. \/ row'[d].payload = row[d].payload /\ row'[d].placement = row[d].placement
        \/ row'[d].payload = "none"
    <2>1. CASE row'[d] = row[d]
      BY <2>1
    <2>2. CASE row'[d] = [row[d] EXCEPT !.gateHeld = FALSE]
      BY <1>1, <2>2 DEF RowType
    <2>3. CASE \E o : row'[d] = [Settled(row[d], o) EXCEPT !.gateHeld = FALSE]
      BY <1>1, <2>3 DEF RowType, Settled
    <2>4. CASE row'[d] = [ended EXCEPT !.gateHeld = FALSE]
      BY <1>1, <2>4 DEF RowType
    <2>5. CASE row'[d] = [stopped EXCEPT !.state = "cancel_pending"]
      BY <1>1, <2>5 DEF RowType
    <2> QED
      BY <1>2, <2>1, <2>2, <2>3, <2>4, <2>5
  <1> QED
    BY <1>3 DEF PayloadGone

LEMMA AlarmPayloadGone ==
    ASSUME TypeOK, PlacementInv, NEW d \in Dispatch, PayloadGone(d), AlarmStep(d) \/ Lapse(d)
    PROVE  PayloadGone(d)'
  <1>1. Placed(d) /\ row[d] \in RowType
    BY DEF PlacementInv, TypeOK
  <1>2. CASE AlarmStep(d) /\ AlarmUnaccepted(d)
    <2>1. row[d].placement # "computer"
      BY <1>1, <1>2 DEF AlarmUnaccepted, Placed, StaleAlarmIsHarmless
    <2> QED
      BY <1>1, <1>2, <2>1, ResolveNotLocal DEF AlarmUnaccepted, Caller, PayloadGone
  <1>3. CASE AlarmStep(d) /\ AlarmRetry(d)
    <2>1. row[d].placement = "cloud"
      BY <1>1, <1>3 DEF AlarmRetry, Placed, StaleAlarmIsHarmless
    <2> QED
      BY <1>1, <1>3, <2>1, OnCloudSide, BranchRow
         DEF AlarmRetry, Caller, CloudStep, CloudRow, PayloadGone
  <1>4. CASE \/ AlarmStep(d) /\ (AlarmLease(d) \/ AlarmPayload(d))
             \/ Lapse(d)
    <2>1. \/ row'[d] = [row[d] EXCEPT !.state = "reconciliation_required", !.lease = "none"]
          \/ row'[d] = [row[d] EXCEPT !.payload = "none"]
          \/ row'[d] = row[d]
          \/ row'[d] = [row[d] EXCEPT !.offerDl = "lapsed"]
          \/ row'[d] = [row[d] EXCEPT !.lease = "lapsed"]
          \/ row'[d] = [row[d] EXCEPT !.retry = "lapsed"]
          \/ row'[d] = [row[d] EXCEPT !.payload = "lapsed"] /\ row[d].payload = "live"
      BY <1>4, PutRow DEF AlarmLease, AlarmPayload, Lapse, LapseOffer, LapseLease, LapseRetry,
                          LapsePayload, LapseSlot
    <2>2. /\ row'[d].placement = row[d].placement
          /\ row[d].payload = "none" => row'[d].payload = "none"
      BY <1>1, <2>1 DEF RowType
    <2> QED
      BY <2>2 DEF PayloadGone
  <1> QED
    BY <1>2, <1>3, <1>4 DEF AlarmStep

LEMMA PayloadStep ==
    ASSUME TypeOK, PlacementInv, AcceptedPayloadIsGone, [Next]_vars
    PROVE  AcceptedPayloadIsGone'
  <1>1. CASE row' = row
    BY <1>1 DEF AcceptedPayloadIsGone
  <1>2. ASSUME NEW d \in Dispatch,
               \/ Submit(d) \/ FenceUnregister(d) \/ Release(d)
               \/ RecordCloudDispatchTerminal(d) \/ DispatchStatus(d) \/ CancelDispatch(d)
               \/ AlarmStep(d) \/ Lapse(d)
               \/ \E p \in Device : Frame(p, d)
               \/ \E c \in Caller : Continue(d, c)
        PROVE  AcceptedPayloadIsGone'
    <2>1. StepOK(d)
      BY <1>2, SubmitStep, FrameStep, ContinueStep, SettleStep, CancelStep, AlarmStepOK,
         LapseStep
    <2>2. PayloadGone(d)
      BY DEF AcceptedPayloadIsGone, PayloadGone
    <2>3. ASSUME NEW c \in Caller, Continue(d, c) PROVE PayloadGone(d)'
      BY <2>3, ContinueCloud DEF CloudStep, CloudRow, PayloadGone
    <2>4. PayloadGone(d)'
      BY <1>2, <2>2, <2>3, SubmitPayload, FramePayload, SettlePayload, AlarmPayloadGone
    <2> QED
      BY <2>1, <2>4 DEF AcceptedPayloadIsGone, PayloadGone, StepOK, OthersKept
  <1>3. CASE \/ \E p \in Device : Connect(p) \/ Disconnect(p) \/ SetReady(p)
             \/ AlarmBegin \/ AlarmEnd \/ Evict \/ UNCHANGED vars
    BY <1>1, <1>3 DEF Connect, Disconnect, SetReady, AlarmBegin, AlarmEnd, Evict, vars
  <1> QED
    BY <1>2, <1>3 DEF Next

\* Once a computer owns the work the gate keeps no payload it could serve again:
\* the acknowledgement cleared it (handleExecutorFrame, "ack"), work submitted
\* by the computer itself never had one, and nothing restores it.
THEOREM PayloadIsHandedOver == Spec => []AcceptedPayloadIsGone
  <1>1. Init => AcceptedPayloadIsGone
    BY DEF Init, NoRow, AcceptedPayloadIsGone
  <1>2. TypeOK /\ PlacementInv /\ AcceptedPayloadIsGone /\ [Next]_vars => AcceptedPayloadIsGone'
    BY PayloadStep
  <1> QED
    BY <1>1, <1>2, TypeCorrect, PlacementSafe, PTL DEF Spec

=============================================================================
