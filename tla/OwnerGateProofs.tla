-------------------------- MODULE OwnerGateProofs --------------------------
(***************************************************************************)
(* Proofs about the owner gate, for any number of dispatches, computers,   *)
(* presence sessions and evictions.                                        *)
(***************************************************************************)
EXTENDS OwnerGate, TLAPS

-----------------------------------------------------------------------------
(* Rows.                                                                   *)

\* The states and deadlines the handlers write are of the row's types.
LEMMA NamedValues ==
    /\ {"completed", "failed", "canceled", "blocked", "offering", "computer_claimed",
        "computer_accepted", "computer_running", "cloud_committed", "cloud_running",
        "cancel_pending", "reconciliation_required"} \subseteq DispatchState
    /\ {"none", "live", "lapsed"} \subseteq Deadline
  BY DEF DispatchState, TerminalDispatchState, Deadline

\* The row updates of the handlers keep a row well typed.
LEMMA RowUpdates ==
    ASSUME NEW r \in RowType
    PROVE  /\ Failed(r) \in RowType
           /\ BlockedRow(r) \in RowType
           /\ CloudCommitted(r) \in RowType
           /\ CloudRunning(r) \in RowType
           /\ \A o \in Outcome : Settled(r, o) \in RowType
           /\ [r EXCEPT !.gateHeld = FALSE] \in RowType
           /\ [r EXCEPT !.gateHeld = TRUE] \in RowType
           /\ [r EXCEPT !.retry = "live", !.lease = "live"] \in RowType
           /\ [r EXCEPT !.cloudTurn = TRUE] \in RowType
           /\ [r EXCEPT !.state = "failed", !.lease = "none"] \in RowType
           /\ [r EXCEPT !.attempts = @ + 1, !.retry = "none"] \in RowType
  <1> USE NamedValues DEF RowType
  <1>1. Failed(r) \in RowType
    BY DEF Failed
  <1>2. BlockedRow(r) \in RowType
    BY DEF BlockedRow
  <1>3. CloudCommitted(r) \in RowType
    BY DEF CloudCommitted
  <1>4. CloudRunning(r) \in RowType
    BY DEF CloudRunning
  <1>5. \A o \in Outcome : Settled(r, o) \in RowType
    BY DEF Settled, Outcome
  <1>6. /\ [r EXCEPT !.gateHeld = FALSE] \in RowType
        /\ [r EXCEPT !.gateHeld = TRUE] \in RowType
    OBVIOUS
  <1>7. [r EXCEPT !.retry = "live", !.lease = "live"] \in RowType
    OBVIOUS
  <1>8. [r EXCEPT !.cloudTurn = TRUE] \in RowType
    OBVIOUS
  <1>9. [r EXCEPT !.state = "failed", !.lease = "none"] \in RowType
    OBVIOUS
  <1>10. [r EXCEPT !.attempts = @ + 1, !.retry = "none"] \in RowType
    <2>1. \A n \in Nat : [r EXCEPT !.attempts = n, !.retry = "none"] \in RowType
      OBVIOUS
    <2>2. r.attempts + 1 \in Nat
      OBVIOUS
    <2> QED
      BY <2>1, <2>2
  <1> HIDE NamedValues DEF RowType
  <1> QED
    BY <1>1, <1>2, <1>3, <1>4, <1>5, <1>6, <1>7, <1>8, <1>9, <1>10

\* So do the updates of frames, cancellation, the alarm and time.
LEMMA FrameRowUpdates ==
    ASSUME NEW r \in RowType
    PROVE  /\ \A p \in Device, n \in Nat :
                [r EXCEPT !.state = "computer_claimed", !.exec = p, !.sess = n,
                          !.lease = "live"] \in RowType
           /\ [r EXCEPT !.state = "offering", !.exec = NoDevice, !.sess = 0,
                        !.lease = "none"] \in RowType
           /\ [r EXCEPT !.state = "computer_accepted", !.placement = "computer",
                        !.payload = "none", !.lease = "live"] \in RowType
           /\ [r EXCEPT !.state = "computer_running", !.started = TRUE,
                        !.lease = "live"] \in RowType
           /\ \A st \in DispatchState : [r EXCEPT !.state = st, !.lease = "live"] \in RowType
           /\ [r EXCEPT !.state = "reconciliation_required", !.lease = "none"] \in RowType
           /\ [r EXCEPT !.stop = TRUE] \in RowType
           /\ [r EXCEPT !.state = "cancel_pending"] \in RowType
           /\ [r EXCEPT !.state = "canceled", !.payload = "none", !.offerDl = "none",
                        !.lease = "none", !.exec = NoDevice, !.sess = 0] \in RowType
           /\ \A v \in Deadline : /\ [r EXCEPT !.offerDl = v] \in RowType
                                  /\ [r EXCEPT !.lease = v] \in RowType
                                  /\ [r EXCEPT !.retry = v] \in RowType
                                  /\ [r EXCEPT !.payload = v] \in RowType
  <1> USE NamedValues DEF RowType
  <1>1. \A p \in Device, n \in Nat :
          [r EXCEPT !.state = "computer_claimed", !.exec = p, !.sess = n,
                    !.lease = "live"] \in RowType
    OBVIOUS
  <1>2. [r EXCEPT !.state = "offering", !.exec = NoDevice, !.sess = 0,
                  !.lease = "none"] \in RowType
    OBVIOUS
  <1>3. [r EXCEPT !.state = "computer_accepted", !.placement = "computer",
                  !.payload = "none", !.lease = "live"] \in RowType
    OBVIOUS
  <1>4. [r EXCEPT !.state = "computer_running", !.started = TRUE, !.lease = "live"]
          \in RowType
    OBVIOUS
  <1>5. \A st \in DispatchState : [r EXCEPT !.state = st, !.lease = "live"] \in RowType
    OBVIOUS
  <1>6. [r EXCEPT !.state = "reconciliation_required", !.lease = "none"] \in RowType
    OBVIOUS
  <1>7. [r EXCEPT !.stop = TRUE] \in RowType
    OBVIOUS
  <1>8. [r EXCEPT !.state = "cancel_pending"] \in RowType
    OBVIOUS
  <1>9. [r EXCEPT !.state = "canceled", !.payload = "none", !.offerDl = "none",
                  !.lease = "none", !.exec = NoDevice, !.sess = 0] \in RowType
    OBVIOUS
  <1>10. ASSUME NEW v \in Deadline
         PROVE  /\ [r EXCEPT !.offerDl = v] \in RowType
                /\ [r EXCEPT !.lease = v] \in RowType
                /\ [r EXCEPT !.retry = v] \in RowType
                /\ [r EXCEPT !.payload = v] \in RowType
    OBVIOUS
  <1> HIDE NamedValues DEF RowType
  <1> QED
    BY <1>1, <1>2, <1>3, <1>4, <1>5, <1>6, <1>7, <1>8, <1>9, <1>10

\* The empty row is well typed.
LEMMA NoRowType == NoRow \in RowType
  BY DEF NoRow, RowType, DispatchState, TerminalDispatchState, Deadline, Kind

\* Writing a well typed row keeps the table well typed.
LEMMA PutType ==
    ASSUME row \in [Dispatch -> RowType], NEW d \in Dispatch, NEW r \in RowType, Put(d, r)
    PROVE  row' \in [Dispatch -> RowType]
  BY DEF Put

\* So does writing it and giving the admission back.
LEMMA ReleaseType ==
    ASSUME row \in [Dispatch -> RowType], NEW d \in Dispatch, NEW r \in RowType,
           NEW slots \in [Dispatch -> Deadline], PutAndReleaseGate(d, r, slots)
    PROVE  row' \in [Dispatch -> RowType] /\ running' \in [Dispatch -> Deadline]
  <1>1. [r EXCEPT !.gateHeld = FALSE] \in RowType
    BY RowUpdates
  <1> QED
    BY <1>1, PutType DEF PutAndReleaseGate, Freed, Deadline

-----------------------------------------------------------------------------
(* The cloud branch.                                                       *)

\* The part of the state the cloud branch writes.
CloudTypeOK ==
    /\ row \in [Dispatch -> RowType]
    /\ running \in [Dispatch -> Deadline]
    /\ handoff \in [Dispatch -> {"none", "allocating", "registered", "retired"}]
    /\ start \in [Dispatch -> [Caller -> StartType]]

\* Suspending and ending a start keep the continuations well typed.
LEMMA StartTypes ==
    ASSUME start \in [Dispatch -> [Caller -> StartType]],
           NEW d \in Dispatch, NEW c \in Caller
    PROVE  /\ EndStart(d, c) => start' \in [Dispatch -> [Caller -> StartType]]
           /\ \A n \in Nat, phase \in {"admitting", "registering", "sent"} :
                SetStart(d, c, phase, n) => start' \in [Dispatch -> [Caller -> StartType]]
           /\ \A phase \in {"registering", "ok", "refused", "unavailable"} :
                [start EXCEPT ![d][c].phase = phase] \in [Dispatch -> [Caller -> StartType]]
  <1>1. /\ Idle \in StartType
        /\ \A n \in Nat, phase \in {"admitting", "registering", "sent"} :
             [phase |-> phase, attempt |-> n] \in StartType
    BY DEF Idle, StartType
  <1>2. ASSUME NEW x \in StartType
        PROVE  [start EXCEPT ![d][c] = x] \in [Dispatch -> [Caller -> StartType]]
    OBVIOUS
  <1>3. ASSUME NEW phase \in {"registering", "ok", "refused", "unavailable"}
        PROVE  [start EXCEPT ![d][c].phase = phase] \in [Dispatch -> [Caller -> StartType]]
    <2>1. start[d][c] \in StartType
      OBVIOUS
    <2>2. [start[d][c] EXCEPT !.phase = phase] \in StartType
      BY <2>1 DEF StartType
    <2> QED
      BY <1>2, <2>2
  <1>4. EndStart(d, c) => start' \in [Dispatch -> [Caller -> StartType]]
    BY <1>1, <1>2 DEF EndStart
  <1>5. ASSUME NEW n \in Nat, NEW phase \in {"admitting", "registering", "sent"},
               SetStart(d, c, phase, n)
        PROVE  start' \in [Dispatch -> [Caller -> StartType]]
    BY <1>1, <1>2, <1>5 DEF SetStart
  <1> QED
    BY <1>3, <1>4, <1>5

\* A refusal keeps the tables well typed.
LEMMA RefusalType ==
    ASSUME CloudTypeOK, NEW d \in Dispatch, NEW r \in RowType, NEW n, NEW status,
           NEW slots \in [Dispatch -> Deadline], CloudRefusal(d, r, n, status, slots)
    PROVE  row' \in [Dispatch -> RowType] /\ running' \in [Dispatch -> Deadline]
  BY RowUpdates, PutType, ReleaseType DEF CloudRefusal, CloudTypeOK

\* So does the last check before an admitted chat is sent.
LEMMA SendType ==
    ASSUME CloudTypeOK, NEW d \in Dispatch, NEW c \in Caller, NEW r \in RowType,
           NEW n \in Nat, SendAdmittedChat(d, c, r, n)
    PROVE  CloudTypeOK'
  <1>1. CASE r.state = "cloud_committed"
    <2>1. row' \in [Dispatch -> RowType]
      BY <1>1, RowUpdates, PutType DEF SendAdmittedChat, CloudTypeOK
    <2>2. start' \in [Dispatch -> [Caller -> StartType]]
      BY <1>1, StartTypes DEF SendAdmittedChat, CloudTypeOK
    <2> QED
      BY <1>1, <2>1, <2>2 DEF SendAdmittedChat, CloudTypeOK, SetHandoff
  <1>2. CASE r.state # "cloud_committed"
    <2>1. row' \in [Dispatch -> RowType] /\ running' \in [Dispatch -> Deadline]
      BY <1>2, ReleaseType DEF SendAdmittedChat, CloudTypeOK
    <2>2. start' \in [Dispatch -> [Caller -> StartType]]
      BY <1>2, StartTypes DEF SendAdmittedChat, CloudTypeOK
    <2> QED
      BY <1>2, <2>1, <2>2 DEF SendAdmittedChat, CloudTypeOK, SetHandoff
  <1> QED
    BY <1>1, <1>2

\* Admission keeps the running table well typed.
LEMMA SlotTypes ==
    ASSUME running \in [Dispatch -> Deadline], NEW d \in Dispatch
    PROVE  /\ Admitted(d) \in [Dispatch -> Deadline]
           /\ \A slots \in [Dispatch -> Deadline] : Freed(d, slots) \in [Dispatch -> Deadline]
  BY DEF Admitted, Freed, Deadline

\* A chat start keeps the tables well typed.
LEMMA ChatType ==
    ASSUME CloudTypeOK, NEW d \in Dispatch, NEW c \in Caller, NEW r \in RowType,
           StartCloudChat(d, c, r)
    PROVE  CloudTypeOK'
  <1> DEFINE h == IF handoff[d] = "none" /\ r.attempts = 1 THEN "allocating" ELSE handoff[d]
  <1>1. r.attempts \in Nat
    BY DEF RowType
  <1>2. CASE h = "retired" /\ CloudRefusal(d, r, r.attempts, "refused", running)
                           /\ UNCHANGED <<start, handoff>>
    BY <1>2, RefusalType DEF CloudTypeOK
  <1>3. CASE /\ h = "allocating"
             /\ \E status \in {"refused", "unavailable"} :
                  CloudRefusal(d, r, r.attempts, status, running)
             /\ SetHandoff(d, h)
             /\ UNCHANGED start
    <2>1. row' \in [Dispatch -> RowType] /\ running' \in [Dispatch -> Deadline]
      BY <1>3, RefusalType DEF CloudTypeOK
    <2> QED
      BY <1>3, <2>1 DEF CloudTypeOK, SetHandoff
  <1>4. CASE /\ h = "allocating"
             /\ Put(d, r)
             /\ running' = Admitted(d)
             /\ SetHandoff(d, h)
             /\ SetStart(d, c, "admitting", r.attempts)
    <2>1. row' \in [Dispatch -> RowType]
      BY <1>4, PutType DEF CloudTypeOK
    <2>2. running' \in [Dispatch -> Deadline]
      BY <1>4, SlotTypes DEF CloudTypeOK
    <2>3. start' \in [Dispatch -> [Caller -> StartType]]
      BY <1>1, <1>4, StartTypes DEF CloudTypeOK
    <2> QED
      BY <1>4, <2>1, <2>2, <2>3 DEF CloudTypeOK, SetHandoff
  <1>5. CASE h = "registered" /\ SendAdmittedChat(d, c, r, r.attempts)
    BY <1>1, <1>5, SendType
  <1> QED
    BY <1>2, <1>3, <1>4, <1>5 DEF StartCloudChat

\* The cloud branch keeps the tables well typed.
LEMMA BranchType ==
    ASSUME CloudTypeOK, NEW d \in Dispatch, NEW c \in Caller, NEW r \in RowType,
           NEW payload, NEW slots \in [Dispatch -> Deadline],
           RunCloudBranch(d, c, r, payload, slots)
    PROVE  CloudTypeOK'
  <1> DEFINE attempting == [r EXCEPT !.attempts = @ + 1, !.retry = "none"]
             unpaid == [r EXCEPT !.state = "failed", !.lease = "none"]
  <1>1. attempting \in RowType /\ Failed(r) \in RowType /\ unpaid \in RowType
    BY RowUpdates
  <1>2. attempting.attempts \in Nat
    BY <1>1 DEF RowType
  <1>3. CASE ~r.cloudable /\ PutAndReleaseGate(d, Failed(r), slots)
                          /\ UNCHANGED <<start, handoff>>
    BY <1>1, <1>3, ReleaseType DEF CloudTypeOK
  <1>4. CASE PutAndReleaseGate(d, unpaid, slots) /\ UNCHANGED <<start, handoff>>
    BY <1>1, <1>4, ReleaseType DEF CloudTypeOK
  <1>5. CASE StartCloudAgent(d, c, attempting, slots)
    <2>1. row' \in [Dispatch -> RowType]
      BY <1>1, <1>5, PutType DEF StartCloudAgent, CloudTypeOK
    <2>2. start' \in [Dispatch -> [Caller -> StartType]]
      BY <1>2, <1>5, StartTypes DEF StartCloudAgent, CloudTypeOK
    <2> QED
      BY <1>5, <2>1, <2>2 DEF StartCloudAgent, CloudTypeOK
  <1>6. CASE StartCloudChat(d, c, attempting)
    BY <1>1, <1>6, ChatType
  <1> HIDE DEF attempting, unpaid
  <1> QED
    BY <1>3, <1>4, <1>5, <1>6 DEF RunCloudBranch, attempting, unpaid

\* And so does the fallback of an unaccepted dispatch.
LEMMA ResolveType ==
    ASSUME CloudTypeOK, NEW d \in Dispatch, NEW c \in Caller, NEW r \in RowType,
           ResolveUnaccepted(d, c, r)
    PROVE  CloudTypeOK'
  <1>1. CASE RunCloudBranch(d, c, CloudCommitted(r), r.payload # "none", running)
    <2>1. CloudCommitted(r) \in RowType
      BY RowUpdates
    <2> QED
      BY <1>1, <2>1, BranchType DEF CloudTypeOK
  <1>2. CASE PutAndReleaseGate(d, BlockedRow(r), running) /\ UNCHANGED <<start, handoff>>
    BY <1>2, RowUpdates, ReleaseType DEF CloudTypeOK
  <1> QED
    BY <1>1, <1>2 DEF ResolveUnaccepted

-----------------------------------------------------------------------------
(* Type correctness.                                                       *)

\* Initially every table is empty.
LEMMA InitType == Init => TypeOK
  <1> SUFFICES ASSUME Init PROVE TypeOK
    OBVIOUS
  <1>1. row \in [Dispatch -> RowType]
    BY NoRowType DEF Init
  <1>2. offer \in [Dispatch -> [Device -> OfferType]]
    BY DEF Init, OfferType
  <1>3. presence \in [Device -> PresenceType]
    BY DEF Init, PresenceType
  <1>4. start \in [Dispatch -> [Caller -> StartType]]
    BY DEF Init, Idle, StartType
  <1>5. alarm \in [Dispatch -> AlarmType]
    BY DEF Init, NotDue, AlarmType
  <1> QED
    BY <1>1, <1>2, <1>3, <1>4, <1>5 DEF Init, TypeOK, Deadline

\* Alarms are well typed whenever a step re-arms them.
LEMMA ArmType ==
    ASSUME TypeOK, NEW d, NEW c
    PROVE  (ScheduleAlarm \/ ArmAfterStart(d, c)) => armed' \in BOOLEAN
  BY DEF TypeOK, ScheduleAlarm, ArmAfterStart

\* Changing the status of an offer keeps it well typed, and so does withdrawing
\* the open ones.
LEMMA WithdrawType ==
    ASSUME TypeOK, NEW d \in Dispatch
    PROVE  /\ \A p \in Device, st \in {"claimed", "withdrawn"} :
                [offer[d][p] EXCEPT !.status = st] \in OfferType
           /\ WithdrawOffers(d) => offer' \in [Dispatch -> [Device -> OfferType]]
  <1>1. \A p \in Device : offer[d][p] \in OfferType
    BY DEF TypeOK
  <1>2. \A p \in Device, st \in {"claimed", "withdrawn"} :
          [offer[d][p] EXCEPT !.status = st] \in OfferType
    BY <1>1 DEF OfferType
  <1>3. ASSUME WithdrawOffers(d) PROVE offer' \in [Dispatch -> [Device -> OfferType]]
    BY <1>1, <1>2, <1>3 DEF TypeOK, WithdrawOffers
  <1> QED
    BY <1>2, <1>3

\* A submitted row is well typed.
LEMMA NewRowType ==
    ASSUME NEW kind \in Kinds, NEW ingress \in Ingresses, NEW subject \in Subject,
           NEW target \in TargetMode, NEW cloudable \in BOOLEAN
    PROVE  NewRow(kind, subject, DecideDispatchPlacement(ingress, subject, target), cloudable)
             \in RowType
  <1> DEFINE decision == DecideDispatchPlacement(ingress, subject, target)
             onNo == IF decision.kind = "offer" THEN decision.place
                     ELSE IF subject = "computer" THEN "blocked" ELSE "cloud"
  <1>1. onNo \in {"cloud", "blocked"}
    BY DEF DecideDispatchPlacement, Commit, Offer, Blocked, Subject, TargetMode
  <1>2. kind \in Kind
    BY OwnerGateAssumption
  <1> HIDE DEF onNo
  <1>3. [NoRow EXCEPT !.kind = kind, !.onNo = onNo, !.cloudable = cloudable] \in RowType
    BY <1>1, <1>2, NoRowType DEF RowType
  <1> QED
    BY <1>3 DEF NewRow, onNo

\* submit() keeps the types.
LEMMA SubmitType ==
    ASSUME TypeOK, NEW d \in Dispatch, Submit(d)
    PROVE  TypeOK'
  <1>1. CloudTypeOK
    BY DEF TypeOK, CloudTypeOK
  <1>2. PICK r \in RowType, p \in Device \cup {NoDevice} :
          \E decision : SubmitPlaced(d, decision, r, p)
    <2>1. PICK kind \in Kinds, ingress \in Ingresses, subject \in Subject,
               target \in TargetMode, cloudable \in BOOLEAN :
            \E p \in NamedDevice(ingress, subject, target) :
              SubmitPlaced(d, DecideDispatchPlacement(ingress, subject, target),
                           NewRow(kind, subject,
                                  DecideDispatchPlacement(ingress, subject, target), cloudable),
                           p)
      BY DEF Submit
    <2>2. NamedDevice(ingress, subject, target) \subseteq Device \cup {NoDevice}
      BY OwnerGateAssumption DEF NamedDevice
    <2> QED
      BY <2>1, <2>2, NewRowType
  <1>3. SubmitSlots(d, r) \in [Dispatch -> Deadline]
    BY SlotTypes DEF SubmitSlots, TypeOK
  <1>4. (r.kind = "agent") \in BOOLEAN
    OBVIOUS
  <1>5. CASE p # NoDevice /\ SubmitToRequester(d, r, p)
    <2> DEFINE s == [r EXCEPT !.state = "computer_accepted", !.placement = "computer",
                        !.exec = p, !.sess = presence[p].sess, !.lease = "live",
                        !.gateHeld = (r.kind = "agent")]
    <2>1. presence[p].sess \in Nat
      BY <1>5 DEF TypeOK, PresenceType
    <2>2. s \in RowType
      <3>1. \A n \in Nat, b \in BOOLEAN : [r EXCEPT !.state = "computer_accepted",
               !.placement = "computer", !.exec = p, !.sess = n, !.lease = "live",
               !.gateHeld = b] \in RowType
        BY NamedValues DEF RowType
      <3> QED
        BY <1>4, <2>1, <3>1
    <2>3. row' \in [Dispatch -> RowType]
      BY <1>1, <1>5, <2>2, PutType DEF SubmitToRequester, CloudTypeOK
    <2> QED
      BY <1>3, <1>5, <2>3, ArmType DEF Submit, SubmitToRequester, TypeOK
  <1>6. CASE Eligible(p) /\ SubmitOffer(d, r, p)
    <2> DEFINE s == [r EXCEPT !.state = "offering", !.payload = "live",
                        !.offerDl = "live", !.gateHeld = (r.kind = "agent")]
    <2>1. presence[p].sess \in Nat /\ p \in Device
      BY <1>6 DEF TypeOK, PresenceType, Eligible
    <2>2. s \in RowType
      <3>1. \A b \in BOOLEAN : [r EXCEPT !.state = "offering", !.payload = "live",
               !.offerDl = "live", !.gateHeld = b] \in RowType
        BY NamedValues DEF RowType
      <3> QED
        BY <1>4, <3>1
    <2>3. row' \in [Dispatch -> RowType]
      BY <1>1, <1>6, <2>2, PutType DEF SubmitOffer, CloudTypeOK
    <2>4. [status |-> "open", sess |-> presence[p].sess] \in OfferType
      BY <2>1 DEF OfferType
    <2>5. offer' \in [Dispatch -> [Device -> OfferType]]
      BY <1>6, <2>1, <2>4 DEF SubmitOffer, TypeOK
    <2> QED
      BY <1>3, <1>6, <2>3, <2>5, ArmType DEF Submit, SubmitOffer, TypeOK
  <1>7. CASE SubmitBlocked(d, r)
    <2>1. [r EXCEPT !.state = "blocked"] \in RowType
      BY NamedValues DEF RowType
    <2>2. row' \in [Dispatch -> RowType]
      BY <1>1, <1>7, <2>1, PutType DEF SubmitBlocked, CloudTypeOK
    <2>3. running' \in [Dispatch -> Deadline]
      BY <1>7, SlotTypes DEF SubmitBlocked, TypeOK
    <2> QED
      BY <1>7, <2>2, <2>3, ArmType DEF Submit, SubmitBlocked, TypeOK
  <1>8. CASE SubmitToCloud(d, r)
    <2> DEFINE s == [r EXCEPT !.state = "cloud_committed", !.placement = "cloud",
                                !.lease = "live", !.payload = "live",
                                !.gateHeld = (r.kind = "agent")]
    <2>1. s \in RowType
      <3>1. \A b \in BOOLEAN : [r EXCEPT !.state = "cloud_committed",
               !.placement = "cloud", !.lease = "live", !.payload = "live",
               !.gateHeld = b] \in RowType
        BY NamedValues DEF RowType
      <3> QED
        BY <1>4, <3>1
    <2>2. RunCloudBranch(d, "submit", s, TRUE, SubmitSlots(d, r)) /\ UNCHANGED offer
      BY <1>8 DEF SubmitToCloud
    <2> HIDE DEF s
    <2>3. CloudTypeOK'
      BY <1>1, <1>3, <2>1, <2>2, BranchType DEF Caller
    <2> QED
      BY <2>2, <2>3, ArmType DEF Submit, TypeOK, CloudTypeOK
  <1> QED
    BY <1>2, <1>5, <1>6, <1>7, <1>8 DEF SubmitPlaced

\* Frames keep the types.
LEMMA FrameType ==
    ASSUME TypeOK, NEW d \in Dispatch, NEW p \in Device, Frame(p, d)
    PROVE  TypeOK'
  <1>1. /\ CloudTypeOK
        /\ row[d] \in RowType
        /\ presence[p].sess \in Nat
        /\ row[d].state \in DispatchState \cup {"absent"}
    BY DEF TypeOK, CloudTypeOK, PresenceType, RowType
  <1>2. CASE HandleClaim(p, d)
    <2>1. offer' \in [Dispatch -> [Device -> OfferType]]
      BY <1>2, WithdrawType DEF HandleClaim, TypeOK
    <2>2. row' \in [Dispatch -> RowType]
      BY <1>1, <1>2, FrameRowUpdates, PutType DEF HandleClaim, CloudTypeOK
    <2> QED
      BY <1>2, <2>1, <2>2, ArmType DEF HandleClaim, TypeOK
  <1>3. CASE HandleRelease(p, d)
    <2>1. offer' \in [Dispatch -> [Device -> OfferType]]
      BY <1>3, WithdrawType DEF HandleRelease, TypeOK
    <2>2. CloudTypeOK'
      BY <1>1, <1>3, FrameRowUpdates, ResolveType DEF HandleRelease, Caller
    <2> QED
      BY <1>3, <2>1, <2>2, ArmType DEF HandleRelease, TypeOK, CloudTypeOK
  <1>4. CASE HandleAck(p, d)
    <2>1. row' \in [Dispatch -> RowType]
      BY <1>1, <1>4, FrameRowUpdates, PutType DEF HandleAck, CloudTypeOK
    <2> QED
      BY <1>4, <2>1 DEF HandleAck, TypeOK
  <1>5. CASE HandleRunning(p, d)
    <2>1. row' \in [Dispatch -> RowType]
      BY <1>1, <1>5, FrameRowUpdates, PutType DEF HandleRunning, CloudTypeOK
    <2> QED
      BY <1>5, <2>1 DEF HandleRunning, TypeOK
  <1>6. CASE HandleRenew(p, d)
    <2> DEFINE st == IF row[d].state # "reconciliation_required" THEN row[d].state
                     ELSE IF row[d].started THEN "computer_running"
                     ELSE "computer_accepted"
    <2>1. st \in DispatchState
      BY <1>6 DEF HandleRenew, AcceptedState, DispatchState
    <2>2. Put(d, [row[d] EXCEPT !.state = st, !.lease = "live"])
      BY <1>6 DEF HandleRenew
    <2> HIDE DEF st
    <2>3. row' \in [Dispatch -> RowType]
      BY <1>1, <2>1, <2>2, FrameRowUpdates, PutType DEF CloudTypeOK
    <2> QED
      BY <1>6, <2>3 DEF HandleRenew, TypeOK
  <1>7. CASE HandleComplete(p, d)
    <2>1. row' \in [Dispatch -> RowType] /\ running' \in [Dispatch -> Deadline]
      BY <1>1, <1>7, RowUpdates, ReleaseType DEF HandleComplete, CloudTypeOK
    <2> QED
      BY <1>7, <2>1, ArmType DEF HandleComplete, TypeOK
  <1> QED
    BY <1>2, <1>3, <1>4, <1>5, <1>6, <1>7 DEF Frame

\* Continuations of a cloud start keep the types.
LEMMA ContinueType ==
    ASSUME TypeOK, NEW d \in Dispatch, NEW c \in Caller, Continue(d, c)
    PROVE  TypeOK'
  <1>1. /\ CloudTypeOK
        /\ row[d] \in RowType
        /\ start[d][c].attempt \in Nat
    BY DEF TypeOK, CloudTypeOK, StartType
  <1>2. CASE ChatHold(d, c)
    <2>1. row' \in [Dispatch -> RowType]
      BY <1>1, <1>2, RowUpdates, PutType DEF ChatHold, CloudTypeOK
    <2>2. start' \in [Dispatch -> [Caller -> StartType]]
      BY <1>1, <1>2, StartTypes DEF ChatHold, CloudTypeOK
    <2> QED
      BY <1>2, <2>1, <2>2 DEF ChatHold, TypeOK
  <1>3. CASE ChatRegister(d, c)
    <2>1. CASE /\ CloudRefusal(d, row[d], start[d][c].attempt, "refused", Freed(d, running))
               /\ EndStart(d, c)
               /\ UNCHANGED handoff
      <3>1. Freed(d, running) \in [Dispatch -> Deadline]
        BY SlotTypes DEF TypeOK
      <3>2. row' \in [Dispatch -> RowType] /\ running' \in [Dispatch -> Deadline]
        BY <1>1, <2>1, <3>1, RefusalType
      <3>3. start' \in [Dispatch -> [Caller -> StartType]]
        BY <1>1, <2>1, StartTypes DEF CloudTypeOK
      <3> QED
        BY <1>3, <2>1, <3>2, <3>3, ArmType DEF ChatRegister, TypeOK
    <2>2. CASE SendAdmittedChat(d, c, row[d], start[d][c].attempt)
      <3>1. CloudTypeOK'
        BY <1>1, <2>2, SendType
      <3> QED
        BY <1>3, <3>1, ArmType DEF ChatRegister, TypeOK, CloudTypeOK
    <2> QED
      BY <1>3, <2>1, <2>2 DEF ChatRegister
  <1>4. CASE CloudAnswers(d, c)
    <2>1. PICK answer \in {"ok", "refused", "unavailable"} :
            start' = [start EXCEPT ![d][c].phase = answer]
      BY <1>4 DEF CloudAnswers
    <2>2. start' \in [Dispatch -> [Caller -> StartType]]
      BY <1>1, <2>1, StartTypes DEF CloudTypeOK
    <2>3. runs[d] \in Nat /\ runs[d] + 1 \in Nat
      BY DEF TypeOK
    <2>4. \E n \in Nat : runs' = [runs EXCEPT ![d] = n] \/ runs' = runs
      BY <1>4, <2>3 DEF CloudAnswers
    <2>5. runs' \in [Dispatch -> Nat]
      BY <2>4 DEF TypeOK
    <2> QED
      BY <1>4, <2>2, <2>5 DEF CloudAnswers, TypeOK
  <1>5. CASE StartReplyOk(d, c)
    <2>1. start' \in [Dispatch -> [Caller -> StartType]]
      BY <1>1, <1>5, StartTypes DEF StartReplyOk, CloudTypeOK
    <2>2. row' \in [Dispatch -> RowType] /\ running' \in [Dispatch -> Deadline]
      BY <1>1, <1>5, RowUpdates, PutType, ReleaseType DEF StartReplyOk, CloudTypeOK
    <2> QED
      BY <1>5, <2>1, <2>2, ArmType DEF StartReplyOk, TypeOK
  <1>6. CASE StartReplyRefused(d, c)
    <2>1. start' \in [Dispatch -> [Caller -> StartType]]
      BY <1>1, <1>6, StartTypes DEF StartReplyRefused, CloudTypeOK
    <2>2. row' \in [Dispatch -> RowType] /\ running' \in [Dispatch -> Deadline]
      BY <1>1, <1>6, RefusalType DEF StartReplyRefused, CloudTypeOK
    <2> QED
      BY <1>6, <2>1, <2>2, ArmType DEF StartReplyRefused, TypeOK
  <1>7. CASE StartLost(d, c)
    <2>1. start' \in [Dispatch -> [Caller -> StartType]]
      BY <1>1, <1>7, StartTypes DEF StartLost, CloudTypeOK
    <2> QED
      BY <1>7, <2>1, ArmType DEF StartLost, TypeOK
  <1> QED
    BY <1>2, <1>3, <1>4, <1>5, <1>6, <1>7 DEF Continue

\* Presence changes keep the types.
LEMMA PresenceStepType ==
    ASSUME TypeOK, NEW p \in Device, Connect(p) \/ Disconnect(p) \/ SetReady(p)
    PROVE  TypeOK'
  <1>1. presence[p] \in PresenceType
    BY DEF TypeOK
  <1>2. CASE Connect(p)
    <2>1. PICK n \in {presence[p].sess, presence[p].sess + 1}, b \in BOOLEAN :
            presence' = [presence EXCEPT ![p] =
                           [connected |-> TRUE, ready |-> b, sess |-> n]]
      BY <1>2 DEF Connect
    <2>2. n \in Nat
      BY <1>1, <2>1 DEF PresenceType
    <2>3. [connected |-> TRUE, ready |-> b, sess |-> n] \in PresenceType
      BY <2>2 DEF PresenceType
    <2> QED
      BY <1>2, <2>1, <2>3, ArmType DEF Connect, TypeOK
  <1>3. CASE Disconnect(p)
    <2>1. [presence[p] EXCEPT !.connected = FALSE, !.ready = FALSE] \in PresenceType
      BY <1>1 DEF PresenceType
    <2>2. presence' \in [Device -> PresenceType]
      BY <1>3, <2>1 DEF Disconnect, TypeOK
    <2> QED
      BY <1>3, <2>2, ArmType DEF Disconnect, TypeOK
  <1>4. CASE SetReady(p)
    <2>1. [presence[p] EXCEPT !.ready = ~@] \in PresenceType
      BY <1>1 DEF PresenceType
    <2>2. presence' \in [Device -> PresenceType]
      BY <1>4, <2>1 DEF SetReady, TypeOK
    <2> QED
      BY <1>4, <2>2 DEF SetReady, TypeOK
  <1> QED
    BY <1>2, <1>3, <1>4

\* The fence, receipts, status reads and cancellation keep the types.
LEMMA SettleType ==
    ASSUME TypeOK, NEW d \in Dispatch,
           \/ FenceUnregister(d) \/ Release(d) \/ RecordCloudDispatchTerminal(d)
           \/ DispatchStatus(d) \/ CancelDispatch(d)
    PROVE  TypeOK'
  <1>1. CloudTypeOK /\ row[d] \in RowType /\ Freed(d, running) \in [Dispatch -> Deadline]
    BY SlotTypes DEF TypeOK, CloudTypeOK
  <1>2. CASE FenceUnregister(d)
    <2>1. row' \in [Dispatch -> RowType]
      BY <1>1, <1>2, RowUpdates, PutType DEF FenceUnregister, CloudTypeOK
    <2> QED
      BY <1>1, <1>2, <2>1 DEF FenceUnregister, SetHandoff, TypeOK
  <1>3. CASE Release(d)
    BY <1>1, <1>3 DEF Release, TypeOK
  <1>4. CASE RecordCloudDispatchTerminal(d)
    <2>1. row' \in [Dispatch -> RowType] /\ running' \in [Dispatch -> Deadline]
      BY <1>1, <1>4, RowUpdates, ReleaseType DEF RecordCloudDispatchTerminal, CloudTypeOK
    <2>2. receipt' \in [Dispatch -> Outcome \cup {"none"}]
      BY <1>4 DEF RecordCloudDispatchTerminal, TypeOK
    <2>3. armed' \in BOOLEAN
      BY <1>4 DEF RecordCloudDispatchTerminal, TypeOK
    <2> QED
      BY <1>4, <2>1, <2>2, <2>3 DEF RecordCloudDispatchTerminal, TypeOK
  <1>5. CASE DispatchStatus(d)
    <2>1. receipt[d] \in Outcome
      BY <1>5 DEF DispatchStatus, TypeOK
    <2>2. row' \in [Dispatch -> RowType] /\ running' \in [Dispatch -> Deadline]
      BY <1>1, <1>5, <2>1, RowUpdates, ReleaseType DEF DispatchStatus, CloudTypeOK
    <2> QED
      BY <1>5, <2>2, ArmType DEF DispatchStatus, TypeOK
  <1>6. CASE CancelDispatch(d)
    <2> DEFINE stopped == [row[d] EXCEPT !.stop = TRUE]
               ended == [stopped EXCEPT !.state = "canceled", !.payload = "none",
                                        !.offerDl = "none", !.lease = "none",
                                        !.exec = NoDevice, !.sess = 0]
               pending == [stopped EXCEPT !.state = "cancel_pending"]
    <2>1. stopped \in RowType
      BY <1>1, FrameRowUpdates
    <2> HIDE DEF stopped
    <2>2. ended \in RowType /\ pending \in RowType
      BY <2>1, FrameRowUpdates
    <2>3. \/ PutAndReleaseGate(d, ended, running)
          \/ Put(d, pending) /\ UNCHANGED running
      BY <1>6 DEF CancelDispatch, stopped
    <2> HIDE DEF ended, pending
    <2>4. row' \in [Dispatch -> RowType] /\ running' \in [Dispatch -> Deadline]
      BY <1>1, <2>2, <2>3, PutType, ReleaseType DEF CloudTypeOK
    <2>5. offer' \in [Dispatch -> [Device -> OfferType]]
      BY <1>6, WithdrawType DEF CancelDispatch
    <2> QED
      BY <1>6, <2>4, <2>5, ArmType DEF CancelDispatch, TypeOK
  <1> QED
    BY <1>2, <1>3, <1>4, <1>5, <1>6

\* The alarm keeps the types.
LEMMA AlarmTypes ==
    ASSUME TypeOK, AlarmBegin \/ AlarmEnd \/ \E d \in Dispatch : AlarmStep(d)
    PROVE  TypeOK'
  <1>1. NotDue \in AlarmType
    BY DEF NotDue, AlarmType
  <1>2. CASE AlarmBegin
    <2>1. ASSUME NEW d \in Dispatch
          PROVE  [branch |-> LapsedBranch(row[d]), payload |-> row[d].payload # "none"]
                   \in AlarmType
      <3>1. LapsedBranch(row[d]) \in {"none", "offer", "retry", "claim", "lease", "payload"}
        BY DEF LapsedBranch
      <3> QED
        BY <3>1 DEF AlarmType
    <2> QED
      BY <1>2, <2>1 DEF AlarmBegin, TypeOK
  <1>3. CASE AlarmEnd
    BY <1>1, <1>3 DEF AlarmEnd, TypeOK
  <1>4. ASSUME NEW d \in Dispatch, AlarmStep(d) PROVE TypeOK'
    <2>1. CloudTypeOK /\ row[d] \in RowType
      BY DEF TypeOK, CloudTypeOK
    <2>2. CloudTypeOK' /\ offer' \in [Dispatch -> [Device -> OfferType]]
      <3>1. CASE AlarmUnaccepted(d)
        <4>1. CloudTypeOK'
          BY <2>1, <3>1, ResolveType DEF AlarmUnaccepted, Caller
        <4> QED
          BY <3>1, <4>1, WithdrawType DEF AlarmUnaccepted
      <3>2. CASE AlarmRetry(d)
        <4>1. CloudTypeOK'
          BY <2>1, <3>2, BranchType DEF AlarmRetry, CloudTypeOK, Caller
        <4> QED
          BY <3>2, <4>1 DEF AlarmRetry, TypeOK
      <3>3. CASE AlarmLease(d)
        BY <2>1, <3>3, FrameRowUpdates, PutType DEF AlarmLease, CloudTypeOK, TypeOK
      <3>4. CASE AlarmPayload(d)
        <4>1. "none" \in Deadline
          BY DEF Deadline
        <4> QED
          BY <2>1, <3>4, <4>1, FrameRowUpdates, PutType DEF AlarmPayload, CloudTypeOK, TypeOK
      <3> QED
        BY <1>4, <3>1, <3>2, <3>3, <3>4 DEF AlarmStep
    <2> QED
      BY <1>1, <1>4, <2>2, ArmType DEF AlarmStep, TypeOK, CloudTypeOK
  <1> QED
    BY <1>2, <1>3, <1>4

\* Time and eviction keep the types.
LEMMA EnvironmentType ==
    ASSUME TypeOK, Evict \/ \E d \in Dispatch : Lapse(d)
    PROVE  TypeOK'
  <1>1. CASE Evict
    <2>1. start' \in [Dispatch -> [Caller -> StartType]]
      BY <1>1 DEF Evict, Idle, StartType
    <2>2. alarm' \in [Dispatch -> AlarmType]
      BY <1>1 DEF Evict, NotDue, AlarmType
    <2>3. armed' \in BOOLEAN /\ pass' \in BOOLEAN
      BY <1>1, Zenon DEF Evict
    <2>4. evictions' \in Nat
      BY <1>1 DEF Evict, TypeOK
    <2> QED
      BY <1>1, <2>1, <2>2, <2>3, <2>4 DEF Evict, TypeOK
  <1>2. ASSUME NEW d \in Dispatch, Lapse(d) PROVE TypeOK'
    <2>1. row[d] \in RowType /\ "lapsed" \in Deadline
      BY DEF TypeOK, Deadline
    <2>2. row' \in [Dispatch -> RowType]
      BY <1>2, <2>1, FrameRowUpdates, PutType
         DEF Lapse, LapseOffer, LapseLease, LapseRetry, LapsePayload, LapseSlot, TypeOK
    <2>3. running' \in [Dispatch -> Deadline]
      BY <1>2, <2>1
         DEF Lapse, LapseOffer, LapseLease, LapseRetry, LapsePayload, LapseSlot, TypeOK
    <2> QED
      BY <1>2, <2>2, <2>3 DEF Lapse, TypeOK
  <1> QED
    BY <1>1, <1>2

\* Every step keeps the types.
LEMMA TypeStep == TypeOK /\ [Next]_vars => TypeOK'
  <1> SUFFICES ASSUME TypeOK, [Next]_vars PROVE TypeOK'
    OBVIOUS
  <1>1. CASE UNCHANGED vars
    BY <1>1 DEF vars, TypeOK
  <1>2. CASE Next
    BY <1>2, SubmitType, FrameType, ContinueType, PresenceStepType, SettleType,
       AlarmTypes, EnvironmentType DEF Next
  <1> QED
    BY <1>1, <1>2

\* The tables and continuations of the gate keep their types, whatever the
\* interleaving of handlers, alarm, clock and evictions.
THEOREM TypeCorrect == Spec => []TypeOK
  <1>1. Init => TypeOK
    BY InitType
  <1>2. TypeOK /\ [Next]_vars => TypeOK'
    BY TypeStep
  <1> QED
    BY <1>1, <1>2, PTL DEF Spec

=============================================================================
