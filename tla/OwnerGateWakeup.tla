-------------------------- MODULE OwnerGateWakeup --------------------------
(***************************************************************************)
(* The alarm, the admission slots and the cloud starts of the owner gate,  *)
(* proved for any number of dispatches and computers.                      *)
(*                                                                         *)
(* Nobody forgets the alarm, as long as the object has not been evicted    *)
(* (an eviction inside submit loses the alarm that submit would have set). *)
(* A start arms the alarm only when the retry it records is new, so the    *)
(* argument needs the bookkeeping of attempts: the one start that may      *)
(* record a retry is the first, and nothing has recorded one while it is   *)
(* out.                                                                    *)
(*                                                                         *)
(* A dispatch that has ended gives its admission slot back.  And the only  *)
(* dispatch of an owner is executed in the cloud at most once and, a chat, *)
(* stays ended.                                                            *)
(***************************************************************************)
EXTENDS OwnerGatePlacement

\* The starts s of a dispatch were made under different attempt numbers, none
\* later than its row r counts, and while the first is out no retry is recorded.
Apart(r, s) ==
    /\ r.attempts = 0 => r.retry = "none"
    /\ \A c \in Caller : s[c] = Idle \/ s[c].attempt \in 1..r.attempts
    /\ \A b, c \in Caller : b # c /\ s[b].attempt = s[c].attempt => s[c].attempt = 0
    /\ \A c \in Caller : s[c].attempt = 1 => r.retry = "none"

AttemptsInv == \A d \in Dispatch : Apart(row[d], start[d])

-----------------------------------------------------------------------------
(* The bookkeeping of attempts.                                            *)

\* An idle continuation has no attempt.
LEMMA IdleAttempt == Idle.attempt = 0 /\ Idle.phase = "idle"
  BY DEF Idle

\* Columns other than these two do not matter, and a retry that is forgotten, or
\* was recorded before, does no harm.
LEMMA ApartQuiet ==
    ASSUME NEW r, NEW s, Apart(r, s), NEW q, q.attempts = r.attempts,
           q.retry \in {r.retry, "none"} \/ r.retry # "none"
    PROVE  Apart(q, s)
  BY DEF Apart

\* A start of caller c goes on under its number, or ends.
LEMMA ApartMoves ==
    ASSUME NEW r, NEW s, Apart(r, s), NEW c \in Caller, NEW t,
           \A b \in Caller \ {c} : t[b] = s[b],
           t[c] = Idle \/ (s[c] # Idle /\ t[c].attempt = s[c].attempt)
    PROVE  Apart(r, t)
  BY IdleAttempt DEF Apart

\* A new attempt gets the next number.
LEMMA ApartNext ==
    ASSUME NEW r, r.attempts \in Nat, NEW s, s \in [Caller -> StartType], Apart(r, s), NEW q,
           q.attempts = r.attempts + 1, q.retry = "none", NEW c \in Caller, NEW t,
           \A b \in Caller \ {c} : t[b] = s[b], t[c].attempt = q.attempts
    PROVE  Apart(q, t)
  <1>1. \A b \in Caller : s[b].attempt \in 0..r.attempts
    BY IdleAttempt DEF Apart
  <1>2. t[c].attempt \in 1..q.attempts
    OBVIOUS
  <1>3. \A b \in Caller : t[b] = Idle \/ t[b].attempt \in 1..q.attempts
    BY <1>2 DEF Apart
  <1>4. \A b, e \in Caller : b # e /\ t[b].attempt = t[e].attempt => t[e].attempt = 0
    BY <1>1 DEF Apart
  <1> QED
    BY <1>3, <1>4 DEF Apart

\* The first attempt of a dispatch may record the retry at once.
LEMMA ApartFirst ==
    ASSUME NEW r, r.attempts \in Nat, NEW s, Apart(r, s), NEW q,
           q.attempts = r.attempts + 1, q.retry = "none" \/ q.attempts < 2
    PROVE  Apart(q, s)
  <1>1. CASE q.retry = "none"
    BY <1>1 DEF Apart
  <1>2. CASE q.attempts < 2
    <2>1. r.attempts = 0
      BY <1>2
    <2>2. \A c \in Caller : s[c] = Idle
      BY <2>1 DEF Apart
    <2> QED
      BY <2>1, <2>2, IdleAttempt DEF Apart
  <1> QED
    BY <1>1, <1>2

\* The one start that may record a retry is the first; it ends by doing so.
LEMMA ApartRetry ==
    ASSUME NEW r, NEW s, Apart(r, s), NEW c \in Caller, s[c] # Idle, NEW n, n = s[c].attempt,
           r.attempts \in Nat, s[c].attempt \in Nat, s[c].attempt < 2, NEW q,
           q.attempts = r.attempts, NEW t, t[c] = Idle,
           \A b \in Caller \ {c} : t[b] = s[b]
    PROVE  Apart(q, t) /\ r.retry = "none"
  <1>1. s[c].attempt = 1 /\ r.attempts > 0 /\ r.retry = "none"
    BY DEF Apart
  <1>2. \A b \in Caller : t[b].attempt # 1
    BY <1>1, IdleAttempt DEF Apart
  <1>3. Apart(r, t)
    BY ApartMoves
  <1> QED
    BY <1>1, <1>2, <1>3 DEF Apart

\* The starts of a dispatch after one of them was set, resumed or ended.
LEMMA StartMoves ==
    ASSUME TypeOK, NEW d \in Dispatch, NEW c \in Caller
    PROVE  /\ EndStart(d, c) => start'[d][c] = Idle
           /\ \A phase, n : SetStart(d, c, phase, n)
                 => start'[d][c] = [phase |-> phase, attempt |-> n]
           /\ \A phase, n : EndStart(d, c) \/ SetStart(d, c, phase, n)
                 => \A b \in Caller \ {c} : start'[d][b] = start[d][b]
  BY DEF EndStart, SetStart, TypeOK

\* What cloudRefusal leaves on the row.
LEMMA RefusalColumns ==
    ASSUME TypeOK, NEW d \in Dispatch, NEW r \in RowType, NEW n, NEW status, NEW slots,
           CloudRefusal(d, r, n, status, slots)
    PROVE  /\ row'[d].attempts = r.attempts
           /\ \/ /\ status = "unavailable" /\ n < 2
                 /\ row'[d].retry = "live"
              \/ /\ row'[d].retry = r.retry
                 /\ row'[d].state = "failed" /\ row'[d].payload = "none"
  <1>1. CASE /\ status = "unavailable" /\ n < DISPATCH_CLOUD_MAX_ATTEMPTS
             /\ Put(d, [r EXCEPT !.retry = "live", !.lease = "live"])
    <2>1. row'[d] = [r EXCEPT !.retry = "live", !.lease = "live"]
      BY <1>1, PutRow
    <2> QED
      BY <1>1, <2>1 DEF RowType, DISPATCH_CLOUD_MAX_ATTEMPTS
  <1>2. CASE PutAndReleaseGate(d, Failed(r), slots)
    <2>1. row'[d] = [Failed(r) EXCEPT !.gateHeld = FALSE]
      BY <1>2, ReleaseRow
    <2> QED
      BY <2>1 DEF RowType, Failed
  <1> QED
    BY <1>1, <1>2 DEF CloudRefusal

\* What the last check before an admitted chat is sent leaves.
LEMMA SendColumns ==
    ASSUME TypeOK, NEW d \in Dispatch, NEW c \in Caller, NEW r \in RowType, NEW n,
           SendAdmittedChat(d, c, r, n)
    PROVE  /\ row'[d].attempts = r.attempts /\ row'[d].retry = r.retry
           /\ row'[d].state = r.state /\ row'[d].payload = r.payload
           /\ row'[d].lease = r.lease /\ row'[d].offerDl = r.offerDl
           /\ start'[d][c] = [phase |-> "sent", attempt |-> n] \/ start'[d][c] = Idle
           /\ \A b \in Caller \ {c} : start'[d][b] = start[d][b]
  <1>1. CASE /\ Put(d, [r EXCEPT !.cloudTurn = TRUE])
             /\ SetStart(d, c, "sent", n)
    <2>1. row'[d] = [r EXCEPT !.cloudTurn = TRUE]
      BY <1>1, PutRow
    <2> QED
      BY <1>1, <2>1, StartMoves DEF RowType
  <1>2. CASE PutAndReleaseGate(d, r, running) /\ EndStart(d, c)
    <2>1. row'[d] = [r EXCEPT !.gateHeld = FALSE]
      BY <1>2, ReleaseRow
    <2> QED
      BY <1>2, <2>1, StartMoves DEF RowType
  <1> QED
    BY <1>1, <1>2 DEF SendAdmittedChat

\* runCloudBranch: a new attempt, or none.
LEMMA BranchApart ==
    ASSUME TypeOK, NEW d \in Dispatch, NEW c \in Caller, NEW r \in RowType, Apart(r, start[d]),
           NEW payload, NEW slots, RunCloudBranch(d, c, r, payload, slots)
    PROVE  Apart(row'[d], start'[d])
  <1> DEFINE attempting == [r EXCEPT !.attempts = @ + 1, !.retry = "none"]
  <1>1. /\ attempting \in RowType /\ attempting.attempts = r.attempts + 1
        /\ attempting.retry = "none" /\ r.attempts \in Nat
    <2>1. attempting \in RowType
      BY RowUpdates
    <2>2. attempting.attempts = r.attempts + 1 /\ attempting.retry = "none" /\ r.attempts \in Nat
      BY DEF RowType
    <2> QED
      BY <2>1, <2>2
  <1>2. start[d] \in [Caller -> StartType]
    BY DEF TypeOK
  <1> HIDE DEF attempting
  <1>3. CASE PutAndReleaseGate(d, Failed(r), slots) /\ UNCHANGED start
    <2>1. row'[d] = [Failed(r) EXCEPT !.gateHeld = FALSE]
      BY <1>3, ReleaseRow
    <2>2. row'[d].attempts = r.attempts /\ row'[d].retry = r.retry
      BY <2>1 DEF RowType, Failed
    <2> QED
      BY <1>3, <2>2, ApartQuiet
  <1>4. CASE /\ PutAndReleaseGate(d, [r EXCEPT !.state = "failed", !.lease = "none"], slots)
             /\ UNCHANGED start
    <2>1. row'[d] = [[r EXCEPT !.state = "failed", !.lease = "none"] EXCEPT !.gateHeld = FALSE]
      BY <1>4, ReleaseRow
    <2>2. row'[d].attempts = r.attempts /\ row'[d].retry = r.retry
      BY <2>1 DEF RowType
    <2> QED
      BY <1>4, <2>2, ApartQuiet
  <1>5. ASSUME NEW phase, Put(d, attempting), SetStart(d, c, phase, attempting.attempts)
        PROVE  Apart(row'[d], start'[d])
    <2>1. /\ row'[d] = attempting
          /\ \A b \in Caller \ {c} : start'[d][b] = start[d][b]
      BY <1>5, PutRow, StartMoves
    <2>2. start'[d][c] = [phase |-> phase, attempt |-> attempting.attempts]
      BY <1>5, StartMoves
    <2>3. start'[d][c].attempt = attempting.attempts
      BY <2>2
    <2> QED
      BY <1>1, <1>2, <2>1, <2>3, ApartNext
  <1>6. CASE StartCloudAgent(d, c, attempting, slots)
    BY <1>5, <1>6 DEF StartCloudAgent
  <1>7. ASSUME NEW status, UNCHANGED start,
               CloudRefusal(d, attempting, attempting.attempts, status, running)
        PROVE  Apart(row'[d], start'[d])
    BY <1>1, <1>7, RefusalColumns, ApartFirst
  <1>8. CASE SendAdmittedChat(d, c, attempting, attempting.attempts)
    <2>1. /\ row'[d].attempts = r.attempts + 1 /\ row'[d].retry = "none"
          /\ \A b \in Caller \ {c} : start'[d][b] = start[d][b]
          /\ \/ start'[d][c] = Idle
             \/ start'[d][c].attempt = row'[d].attempts
      <3>1. /\ row'[d].attempts = attempting.attempts /\ row'[d].retry = attempting.retry
            /\ \A b \in Caller \ {c} : start'[d][b] = start[d][b]
            /\ \/ start'[d][c] = [phase |-> "sent", attempt |-> attempting.attempts]
               \/ start'[d][c] = Idle
        BY <1>1, <1>8, SendColumns
      <3> QED
        BY <1>1, <3>1
    <2>2. CASE start'[d][c] = Idle
      <3>1. Apart(r, start'[d])
        BY <2>1, <2>2, ApartMoves
      <3> QED
        BY <1>1, <2>1, <3>1, ApartFirst
    <2>3. CASE start'[d][c].attempt = row'[d].attempts
      BY <1>1, <1>2, <2>1, <2>3, ApartNext
    <2> QED
      BY <2>1, <2>2, <2>3
  <1>9. CASE StartCloudChat(d, c, attempting)
    BY <1>5, <1>7, <1>8, <1>9 DEF StartCloudChat
  <1> QED
    BY <1>3, <1>4, <1>6, <1>9 DEF RunCloudBranch, attempting

\* resolveUnaccepted makes a new attempt, or none.
LEMMA ResolveApart ==
    ASSUME TypeOK, NEW d \in Dispatch, NEW c \in Caller, NEW r \in RowType,
           Apart(r, start[d]), ResolveUnaccepted(d, c, r)
    PROVE  Apart(row'[d], start'[d])
  <1>1. CASE RunCloudBranch(d, c, CloudCommitted(r), r.payload # "none", running)
    <2>1. CloudCommitted(r).attempts = r.attempts /\ CloudCommitted(r).retry = r.retry
      BY DEF CloudCommitted, RowType
    <2>2. Apart(CloudCommitted(r), start[d])
      BY <2>1, ApartQuiet
    <2> QED
      BY <1>1, <2>2, CommittedRow, BranchApart
  <1>2. CASE PutAndReleaseGate(d, BlockedRow(r), running) /\ UNCHANGED start
    <2>1. row'[d] = [BlockedRow(r) EXCEPT !.gateHeld = FALSE]
      BY <1>2, ReleaseRow
    <2>2. row'[d].attempts = r.attempts /\ row'[d].retry = r.retry
      BY <2>1 DEF BlockedRow, RowType
    <2> QED
      BY <1>2, <2>2, ApartQuiet
  <1> QED
    BY <1>1, <1>2 DEF ResolveUnaccepted

\* submit() makes the first attempt, or none.
LEMMA SubmitApart ==
    ASSUME TypeOK, PlacementInv, NEW d \in Dispatch, Submit(d)
    PROVE  Apart(row'[d], start'[d])
  <1>1. PICK r, p, decision :
          r \in RowType /\ r.attempts = 0 /\ r.retry = "none" /\ SubmitPlaced(d, decision, r, p)
    <2>1. \A kind, subject, decision, cloudable :
             /\ NewRow(kind, subject, decision, cloudable).attempts = 0
             /\ NewRow(kind, subject, decision, cloudable).retry = "none"
      BY DEF NewRow, NoRow
    <2> QED
      BY <2>1, NewRowType DEF Submit
  <1>2. \A c \in Caller : start[d][c] = Idle
    BY DEF Submit, PlacementInv, Placed, StateMatchesPlacement, StartedMeansCloud
  <1>3. ASSUME NEW q, q.attempts = 0, q.retry = "none" PROVE Apart(q, start[d])
    BY <1>2, <1>3, IdleAttempt DEF Apart
  <1>4. ASSUME NEW q, q.attempts = 0, q.retry = "none", Put(d, q), UNCHANGED start
        PROVE  Apart(row'[d], start'[d])
    BY <1>3, <1>4, PutRow
  <1>5. CASE SubmitToRequester(d, r, p)
    <2> DEFINE s == [r EXCEPT !.state = "computer_accepted", !.placement = "computer",
                              !.exec = p, !.sess = presence[p].sess, !.lease = "live",
                              !.gateHeld = (r.kind = "agent")]
    <2>1. s.attempts = 0 /\ s.retry = "none"
      BY <1>1 DEF RowType
    <2>2. Put(d, s) /\ UNCHANGED start
      BY <1>5 DEF SubmitToRequester
    <2> HIDE DEF s
    <2> QED
      BY <1>4, <2>1, <2>2
  <1>6. CASE SubmitOffer(d, r, p)
    <2> DEFINE s == [r EXCEPT !.state = "offering", !.payload = "live",
                              !.offerDl = "live", !.gateHeld = (r.kind = "agent")]
    <2>1. s.attempts = 0 /\ s.retry = "none"
      BY <1>1 DEF RowType
    <2>2. Put(d, s) /\ UNCHANGED start
      BY <1>6 DEF SubmitOffer
    <2> HIDE DEF s
    <2> QED
      BY <1>4, <2>1, <2>2
  <1>7. CASE SubmitBlocked(d, r)
    <2> DEFINE s == [r EXCEPT !.state = "blocked"]
    <2>1. s.attempts = 0 /\ s.retry = "none"
      BY <1>1 DEF RowType
    <2>2. Put(d, s) /\ UNCHANGED start
      BY <1>7 DEF SubmitBlocked
    <2> HIDE DEF s
    <2> QED
      BY <1>4, <2>1, <2>2
  <1>8. CASE SubmitToCloud(d, r)
    <2> DEFINE s == [r EXCEPT !.state = "cloud_committed", !.placement = "cloud",
                              !.lease = "live", !.payload = "live",
                              !.gateHeld = (r.kind = "agent")]
    <2>1. s.attempts = 0 /\ s.retry = "none"
      BY <1>1 DEF RowType
    <2>2. s \in RowType
      <3>1. \A b \in BOOLEAN :
              [r EXCEPT !.state = "cloud_committed", !.placement = "cloud",
                        !.lease = "live", !.payload = "live", !.gateHeld = b] \in RowType
        BY <1>1, NamedValues DEF RowType
      <3> QED
        BY <3>1
    <2>3. RunCloudBranch(d, "submit", s, TRUE, SubmitSlots(d, r))
      BY <1>8 DEF SubmitToCloud
    <2> HIDE DEF s
    <2> QED
      BY <1>3, <2>1, <2>2, <2>3, BranchApart DEF Caller
  <1> QED
    BY <1>1, <1>5, <1>6, <1>7, <1>8 DEF SubmitPlaced

\* A step that leaves the starts and the two columns alone.
LEMMA QuietApart ==
    ASSUME TypeOK, NEW d \in Dispatch, Apart(row[d], start[d]), UNCHANGED start,
           row'[d].attempts = row[d].attempts,
           row'[d].retry \in {row[d].retry, "none"} \/ row[d].retry # "none"
    PROVE  Apart(row'[d], start'[d])
  BY ApartQuiet

\* The frames of a computer: a declined claim makes the first attempt.
LEMMA FrameApart ==
    ASSUME TypeOK, NEW d \in Dispatch, Apart(row[d], start[d]), NEW p \in Device, Frame(p, d)
    PROVE  Apart(row'[d], start'[d])
  <1>1. row[d] \in RowType
    BY DEF TypeOK
  <1>2. ASSUME NEW q, Put(d, q), UNCHANGED start, q.attempts = row[d].attempts,
               q.retry = row[d].retry
        PROVE  Apart(row'[d], start'[d])
    BY <1>2, PutRow, QuietApart
  <1>3. CASE HandleClaim(p, d)
    <2> DEFINE q == [row[d] EXCEPT !.state = "computer_claimed", !.exec = p,
                                   !.sess = presence[p].sess, !.lease = "live"]
    <2>1. Put(d, q) /\ UNCHANGED start
      BY <1>3 DEF HandleClaim
    <2>2. q.attempts = row[d].attempts /\ q.retry = row[d].retry
      BY <1>1 DEF RowType
    <2> HIDE DEF q
    <2> QED
      BY <1>2, <2>1, <2>2
  <1>4. CASE HandleRelease(p, d)
    <2> DEFINE r == [row[d] EXCEPT !.state = "offering", !.exec = NoDevice, !.sess = 0,
                                   !.lease = "none"]
    <2>1. r \in RowType
      BY <1>1, FrameRowUpdates
    <2>2. r.attempts = row[d].attempts /\ r.retry = row[d].retry
      BY <1>1 DEF RowType
    <2>3. ResolveUnaccepted(d, "frame", r)
      BY <1>4 DEF HandleRelease
    <2> HIDE DEF r
    <2>4. Apart(r, start[d])
      BY <2>2, ApartQuiet
    <2> QED
      BY <2>1, <2>3, <2>4, ResolveApart DEF Caller
  <1>5. CASE HandleAck(p, d)
    <2> DEFINE q == [row[d] EXCEPT !.state = "computer_accepted",
                                   !.placement = "computer", !.payload = "none",
                                   !.lease = "live"]
    <2>1. Put(d, q) /\ UNCHANGED start
      BY <1>5 DEF HandleAck
    <2>2. q.attempts = row[d].attempts /\ q.retry = row[d].retry
      BY <1>1 DEF RowType
    <2> HIDE DEF q
    <2> QED
      BY <1>2, <2>1, <2>2
  <1>6. CASE HandleRunning(p, d)
    <2> DEFINE q == [row[d] EXCEPT !.state = "computer_running", !.started = TRUE,
                                   !.lease = "live"]
    <2>1. Put(d, q) /\ UNCHANGED start
      BY <1>6 DEF HandleRunning
    <2>2. q.attempts = row[d].attempts /\ q.retry = row[d].retry
      BY <1>1 DEF RowType
    <2> HIDE DEF q
    <2> QED
      BY <1>2, <2>1, <2>2
  <1>7. CASE HandleRenew(p, d)
    <2> DEFINE st == IF row[d].state # "reconciliation_required" THEN row[d].state
                     ELSE IF row[d].started THEN "computer_running"
                     ELSE "computer_accepted"
               q == [row[d] EXCEPT !.state = st, !.lease = "live"]
    <2>1. Put(d, q) /\ UNCHANGED start
      BY <1>1, <1>7 DEF HandleRenew, RowType
    <2> HIDE DEF st
    <2>2. q.attempts = row[d].attempts /\ q.retry = row[d].retry
      BY <1>1 DEF RowType
    <2> HIDE DEF q
    <2> QED
      BY <1>2, <2>1, <2>2
  <1>8. CASE HandleComplete(p, d)
    <2>1. PICK outcome \in Outcome : PutAndReleaseGate(d, Settled(row[d], outcome), running)
      BY <1>8 DEF HandleComplete
    <2> DEFINE q == [Settled(row[d], outcome) EXCEPT !.gateHeld = FALSE]
    <2>2. Put(d, q) /\ UNCHANGED start
      BY <1>8, <2>1 DEF HandleComplete, PutAndReleaseGate
    <2>3. q.attempts = row[d].attempts /\ q.retry = row[d].retry
      BY <1>1 DEF Settled, RowType
    <2> HIDE DEF q
    <2> QED
      BY <1>2, <2>2, <2>3
  <1> QED
    BY <1>3, <1>4, <1>5, <1>6, <1>7, <1>8 DEF Frame

\* Receipts, status reads and stops write other columns.
LEMMA SettleApart ==
    ASSUME TypeOK, NEW d \in Dispatch, Apart(row[d], start[d]),
           \/ FenceUnregister(d) \/ Release(d) \/ RecordCloudDispatchTerminal(d)
           \/ DispatchStatus(d) \/ CancelDispatch(d)
    PROVE  Apart(row'[d], start'[d])
  <1>1. /\ row[d] \in RowType /\ UNCHANGED start
    BY DEF TypeOK, FenceUnregister, Release, RecordCloudDispatchTerminal, DispatchStatus,
           CancelDispatch
  <1>2. ASSUME NEW q, Put(d, q), q.attempts = row[d].attempts, q.retry = row[d].retry
        PROVE  Apart(row'[d], start'[d])
    BY <1>1, <1>2, PutRow, QuietApart
  <1>3. CASE UNCHANGED row
    BY <1>1, <1>3, QuietApart
  <1>4. CASE FenceUnregister(d)
    <2> DEFINE q == [row[d] EXCEPT !.gateHeld = FALSE]
    <2>1. Put(d, q)
      BY <1>4 DEF FenceUnregister
    <2>2. q.attempts = row[d].attempts /\ q.retry = row[d].retry
      BY <1>1 DEF RowType
    <2> HIDE DEF q
    <2> QED
      BY <1>2, <2>1, <2>2
  <1>5. ASSUME NEW o, PutAndReleaseGate(d, Settled(row[d], o), running)
        PROVE  Apart(row'[d], start'[d])
    <2> DEFINE q == [Settled(row[d], o) EXCEPT !.gateHeld = FALSE]
    <2>1. Put(d, q)
      BY <1>5 DEF PutAndReleaseGate
    <2>2. q.attempts = row[d].attempts /\ q.retry = row[d].retry
      BY <1>1 DEF Settled, RowType
    <2> HIDE DEF q
    <2> QED
      BY <1>2, <2>1, <2>2
  <1>6. CASE CancelDispatch(d)
    <2> DEFINE stopped == [row[d] EXCEPT !.stop = TRUE]
               ended == [stopped EXCEPT !.state = "canceled", !.payload = "none",
                                        !.offerDl = "none", !.lease = "none",
                                        !.exec = NoDevice, !.sess = 0]
               q == [ended EXCEPT !.gateHeld = FALSE]
               w == [stopped EXCEPT !.state = "cancel_pending"]
    <2>1. /\ q.attempts = row[d].attempts /\ q.retry = row[d].retry
          /\ w.attempts = row[d].attempts /\ w.retry = row[d].retry
      BY <1>1 DEF RowType
    <2>2. Put(d, q) \/ Put(d, w)
      BY <1>6 DEF CancelDispatch, PutAndReleaseGate
    <2> HIDE DEF q, w
    <2> QED
      BY <1>2, <2>1, <2>2
  <1> QED
    BY <1>3, <1>4, <1>5, <1>6 DEF Release, RecordCloudDispatchTerminal, DispatchStatus

\* The alarm and the passage of time.
LEMMA AlarmApart ==
    ASSUME TypeOK, NEW d \in Dispatch, Apart(row[d], start[d]), AlarmStep(d) \/ Lapse(d)
    PROVE  Apart(row'[d], start'[d])
  <1>1. row[d] \in RowType
    BY DEF TypeOK
  <1>2. CASE AlarmUnaccepted(d)
    BY <1>1, <1>2, ResolveApart DEF AlarmUnaccepted, Caller
  <1>3. CASE AlarmRetry(d)
    BY <1>1, <1>3, BranchApart DEF AlarmRetry, Caller
  <1>4. ASSUME NEW q, Put(d, q), UNCHANGED start,
               \/ q = [row[d] EXCEPT !.state = "reconciliation_required", !.lease = "none"]
               \/ q = [row[d] EXCEPT !.payload = "none"]
               \/ q = [row[d] EXCEPT !.offerDl = "lapsed"]
               \/ q = [row[d] EXCEPT !.lease = "lapsed"]
               \/ q = [row[d] EXCEPT !.payload = "lapsed"]
               \/ q = [row[d] EXCEPT !.retry = "lapsed"] /\ row[d].retry = "live"
        PROVE  Apart(row'[d], start'[d])
    <2>1. /\ q.attempts = row[d].attempts
          /\ q.retry = row[d].retry \/ row[d].retry # "none"
      BY <1>1, <1>4 DEF RowType
    <2> QED
      BY <1>4, <2>1, PutRow, QuietApart
  <1>5. CASE Lapse(d)
    <2>1. UNCHANGED start
      BY <1>5 DEF Lapse
    <2>2. CASE LapseSlot(d)
      BY <2>1, <2>2, QuietApart DEF LapseSlot
    <2> QED
      BY <1>4, <1>5, <2>1, <2>2 DEF Lapse, LapseOffer, LapseLease, LapseRetry, LapsePayload
  <1>6. CASE AlarmLease(d) \/ AlarmPayload(d)
    BY <1>4, <1>6 DEF AlarmLease, AlarmPayload
  <1> QED
    BY <1>2, <1>3, <1>5, <1>6 DEF AlarmStep

\* What a continuation does to the alarm's clients: a row it gives a deadline
\* that it had not is one whose retry it records, with the alarm set.
LEMMA ContinueApart ==
    ASSUME TypeOK, NEW d \in Dispatch, Apart(row[d], start[d]), NEW c \in Caller, Continue(d, c)
    PROVE  /\ Apart(row'[d], start'[d])
           /\ \A b \in Caller \ {c} : start'[d][b] = start[d][b]
           /\ start'[d][c] = Idle => ArmAfterStart(d, c)
           /\ HasDeadline(row'[d]) => HasDeadline(row[d]) \/ armed'
  <1>1. /\ row[d] \in RowType /\ start[d] \in [Caller -> StartType]
        /\ start[d][c] \in StartType
    BY DEF TypeOK
  <1>2. start[d][c] # Idle
    BY IdleAttempt DEF Continue, ChatHold, ChatRegister, CloudAnswers, StartReplyOk,
                       StartReplyRefused, StartLost
  <1>3. ASSUME row'[d].attempts = row[d].attempts,
               row'[d].retry \in {row[d].retry, "none"},
               \A b \in Caller \ {c} : start'[d][b] = start[d][b],
               start'[d][c] = Idle \/ start'[d][c].attempt = start[d][c].attempt
        PROVE  Apart(row'[d], start'[d])
    <2>1. Apart(row[d], start'[d])
      BY <1>2, <1>3, ApartMoves
    <2> QED
      BY <1>3, <2>1, ApartQuiet
  <1>4. ASSUME NEW ph, ph # "idle", start' = [start EXCEPT ![d][c].phase = ph]
        PROVE  /\ \A b \in Caller \ {c} : start'[d][b] = start[d][b]
               /\ start'[d][c] # Idle
               /\ start'[d][c].attempt = start[d][c].attempt
    <2>1. start'[d][c] = [start[d][c] EXCEPT !.phase = ph]
      BY <1>1, <1>4 DEF TypeOK
    <2>2. start'[d][c].phase = ph /\ start'[d][c].attempt = start[d][c].attempt
      BY <1>1, <2>1 DEF StartType
    <2>3. \A b \in Caller \ {c} : start'[d][b] = start[d][b]
      BY <1>4 DEF TypeOK
    <2> QED
      BY <1>4, <2>2, <2>3, IdleAttempt
  <1>5. CASE ChatHold(d, c)
    <2>1. row'[d] = [row[d] EXCEPT !.gateHeld = TRUE]
      BY <1>5, PutRow DEF ChatHold
    <2>2. /\ row'[d].attempts = row[d].attempts /\ row'[d].retry = row[d].retry
          /\ HasDeadline(row'[d]) => HasDeadline(row[d])
      BY <1>1, <2>1 DEF RowType, HasDeadline
    <2> QED
      BY <1>3, <1>4, <1>5, <2>2 DEF ChatHold
  <1>6. ASSUME CloudRefusal(d, row[d], start[d][c].attempt, start[d][c].phase, running)
                 \/ CloudRefusal(d, row[d], start[d][c].attempt, "refused", Freed(d, running)),
               EndStart(d, c), ArmAfterStart(d, c)
        PROVE  /\ Apart(row'[d], start'[d])
               /\ HasDeadline(row'[d]) => HasDeadline(row[d]) \/ armed'
    <2>1. /\ start'[d][c] = Idle /\ \A b \in Caller \ {c} : start'[d][b] = start[d][b]
      BY <1>6, StartMoves
    <2>2. /\ row'[d].attempts = row[d].attempts
          /\ \/ start[d][c].attempt < 2 /\ row'[d].retry = "live"
             \/ /\ row'[d].retry = row[d].retry
                /\ row'[d].state = "failed" /\ row'[d].payload = "none"
      BY <1>1, <1>6, RefusalColumns
    <2>3. CASE start[d][c].attempt < 2 /\ row'[d].retry = "live"
      <3>1. row[d].attempts \in Nat /\ start[d][c].attempt \in Nat
        BY <1>1 DEF RowType, StartType
      <3>2. Apart(row'[d], start'[d]) /\ row[d].retry = "none"
        BY <1>2, <2>1, <2>2, <2>3, <3>1, ApartRetry
      <3>3. armed'
        BY <1>6, <2>3, <3>2 DEF ArmAfterStart
      <3> QED
        BY <3>2, <3>3
    <2>4. CASE /\ row'[d].retry = row[d].retry
               /\ row'[d].state = "failed" /\ row'[d].payload = "none"
      <3>1. Apart(row'[d], start'[d])
        BY <1>3, <2>1, <2>2, <2>4
      <3>2. ~HasDeadline(row'[d])
        BY <2>4 DEF HasDeadline, LeasedState
      <3> QED
        BY <3>1, <3>2
    <2> QED
      BY <2>2, <2>3, <2>4
  <1>7. CASE ChatRegister(d, c)
    <2>1. CASE /\ CloudRefusal(d, row[d], start[d][c].attempt, "refused", Freed(d, running))
               /\ EndStart(d, c)
      BY <1>6, <1>7, <2>1, StartMoves DEF ChatRegister
    <2>2. CASE SendAdmittedChat(d, c, row[d], start[d][c].attempt)
      <3>1. /\ row'[d].attempts = row[d].attempts /\ row'[d].retry = row[d].retry
            /\ row'[d].state = row[d].state /\ row'[d].payload = row[d].payload
            /\ row'[d].lease = row[d].lease /\ row'[d].offerDl = row[d].offerDl
            /\ \/ start'[d][c] = [phase |-> "sent", attempt |-> start[d][c].attempt]
               \/ start'[d][c] = Idle
            /\ \A b \in Caller \ {c} : start'[d][b] = start[d][b]
        BY <1>1, <2>2, SendColumns
      <3>2. start'[d][c] = Idle \/ start'[d][c].attempt = start[d][c].attempt
        BY <3>1
      <3>3. HasDeadline(row'[d]) => HasDeadline(row[d])
        BY <3>1 DEF HasDeadline
      <3> QED
        BY <1>3, <1>7, <3>1, <3>2, <3>3 DEF ChatRegister
    <2> QED
      BY <1>7, <2>1, <2>2 DEF ChatRegister
  <1>8. CASE CloudAnswers(d, c)
    <2>1. PICK ph \in {"ok", "refused", "unavailable"} :
             start' = [start EXCEPT ![d][c].phase = ph]
      BY <1>8 DEF CloudAnswers
    <2>2. UNCHANGED row
      BY <1>8 DEF CloudAnswers
    <2> QED
      BY <1>3, <1>4, <2>1, <2>2
  <1>9. CASE StartReplyOk(d, c)
    <2>1. /\ start'[d][c] = Idle /\ \A b \in Caller \ {c} : start'[d][b] = start[d][b]
          /\ ArmAfterStart(d, c)
      BY <1>9, StartMoves DEF StartReplyOk
    <2>2. CASE UNCHANGED row
      BY <1>3, <2>1, <2>2
    <2>3. CASE row'[d] \in {CloudRunning(row[d]), [CloudRunning(row[d]) EXCEPT !.gateHeld = FALSE]}
      <3>1. /\ row'[d].attempts = row[d].attempts /\ row'[d].retry = "none"
            /\ row'[d].state = "cloud_running" /\ row'[d].payload = "none"
        <4>1. CASE row'[d] = CloudRunning(row[d])
          BY <1>1, <4>1 DEF CloudRunning, RowType
        <4>2. CASE row'[d] = [CloudRunning(row[d]) EXCEPT !.gateHeld = FALSE]
          BY <1>1, <4>2 DEF CloudRunning, RowType
        <4> QED
          BY <2>3, <4>1, <4>2
      <3>2. ~HasDeadline(row'[d])
        BY <3>1 DEF HasDeadline, LeasedState
      <3> QED
        BY <1>3, <2>1, <3>1, <3>2
    <2> QED
      BY <1>9, <2>2, <2>3, PutRow, ReleaseRow DEF StartReplyOk
  <1>10. CASE StartReplyRefused(d, c)
    BY <1>6, <1>10, StartMoves DEF StartReplyRefused
  <1>11. CASE StartLost(d, c)
    <2>1. /\ start'[d][c] = Idle /\ \A b \in Caller \ {c} : start'[d][b] = start[d][b]
          /\ ArmAfterStart(d, c) /\ UNCHANGED row
      BY <1>11, StartMoves DEF StartLost
    <2> QED
      BY <1>3, <2>1
  <1> QED
    BY <1>5, <1>7, <1>8, <1>9, <1>10, <1>11 DEF Continue

-----------------------------------------------------------------------------
(* The attempts of every dispatch.                                         *)

\* Every step keeps the attempts of every dispatch apart.
LEMMA AttemptsStep ==
    ASSUME TypeOK, PlacementInv, AttemptsInv, [Next]_vars
    PROVE  AttemptsInv'
  <1>1. ASSUME UNCHANGED <<row, start>> PROVE AttemptsInv'
    BY <1>1 DEF AttemptsInv
  <1>2. CASE UNCHANGED vars
    BY <1>1, <1>2 DEF vars
  <1>3. ASSUME NEW d \in Dispatch,
               \/ Submit(d) \/ FenceUnregister(d) \/ Release(d)
               \/ RecordCloudDispatchTerminal(d) \/ DispatchStatus(d) \/ CancelDispatch(d)
               \/ AlarmStep(d) \/ Lapse(d)
               \/ \E p \in Device : Frame(p, d)
               \/ \E c \in Caller : Continue(d, c)
        PROVE  AttemptsInv'
    <2>1. StepOK(d)
      BY <1>3, SubmitStep, FrameStep, ContinueStep, SettleStep, CancelStep, AlarmStepOK,
         LapseStep
    <2>2. Apart(row[d], start[d])
      BY DEF AttemptsInv
    <2>3. Apart(row'[d], start'[d])
      BY <1>3, <2>2, SubmitApart, FrameApart, ContinueApart, SettleApart, AlarmApart
    <2>4. ASSUME NEW e \in Dispatch \ {d} PROVE Apart(row'[e], start'[e])
      BY <2>1 DEF StepOK, OthersKept, AttemptsInv
    <2> QED
      BY <2>3, <2>4 DEF AttemptsInv
  <1>4. CASE \E p \in Device : Connect(p) \/ Disconnect(p) \/ SetReady(p)
    BY <1>1, <1>4 DEF Connect, Disconnect, SetReady
  <1>5. CASE AlarmBegin \/ AlarmEnd
    BY <1>1, <1>5 DEF AlarmBegin, AlarmEnd
  <1>6. CASE Evict
    <2> SUFFICES ASSUME NEW d \in Dispatch PROVE Apart(row'[d], start'[d])
      BY DEF AttemptsInv
    <2>1. row' = row /\ \A c \in Caller : start'[d][c] = Idle
      BY <1>6 DEF Evict
    <2> QED
      BY <2>1, IdleAttempt DEF AttemptsInv, Apart
  <1> QED
    BY <1>2, <1>3, <1>4, <1>5, <1>6 DEF Next

-----------------------------------------------------------------------------
(* The alarm.                                                              *)

Watched(d) == HasDeadline(row[d]) => armed \/ pass \/ start[d]["submit"] # Idle

\* The token of a connected computer needs the alarm too, so a frame of one, which
\* may give its row a deadline and does not schedule, finds the alarm set.
SocketsWatched == \A p \in Device : presence[p].connected => armed \/ pass

WakeupInv == SocketsWatched /\ \A d \in Dispatch : Watched(d)

\* An alarm once set is kept by every way of setting it.
LEMMA KeepsAlarm ==
    ASSUME NEW d, NEW c
    PROVE  /\ ScheduleAlarm => (armed => armed') /\ (WakeNeeded' => armed')
           /\ ArmAfterStart(d, c) => (armed => armed')
           /\ ArmAfterStart(d, "submit") /\ start'[d]["submit"] = Idle /\ WakeNeeded' => armed'
  BY Zenon DEF ScheduleAlarm, ArmAfterStart

\* A step that schedules is safe whatever it wrote.
LEMMA ScheduledWake ==
    ASSUME ScheduleAlarm
    PROVE  WakeupInv'
  <1>1. WakeNeeded' => armed'
    BY KeepsAlarm
  <1>2. \A d \in Dispatch : HasDeadline(row'[d]) => armed'
    BY <1>1 DEF WakeNeeded
  <1>3. \A p \in Device : presence'[p].connected => armed'
    BY <1>1 DEF WakeNeeded
  <1> QED
    BY <1>2, <1>3 DEF WakeupInv, Watched, SocketsWatched

\* A step about dispatch d that keeps the alarm has only d to answer for.
LEMMA WakeFocus ==
    ASSUME WakeupInv, NEW d \in Dispatch, OthersKept(d), armed => armed', UNCHANGED <<pass, presence>>,
           Watched(d)'
    PROVE  WakeupInv'
  <1>1. SocketsWatched'
    BY DEF WakeupInv, SocketsWatched
  <1>2. ASSUME NEW e \in Dispatch PROVE Watched(e)'
    <2>1. CASE e = d
      BY <2>1
    <2>2. CASE e # d
      BY <2>2 DEF WakeupInv, Watched, OthersKept
    <2> QED
      BY <2>1, <2>2
  <1> QED
    BY <1>1, <1>2 DEF WakeupInv

\* submit() schedules last, unless it is suspended.
LEMMA SubmitWake ==
    ASSUME TypeOK, PlacementInv, WakeupInv, NEW d \in Dispatch, Submit(d)
    PROVE  WakeupInv'
  <1>1. OthersKept(d) /\ ArmAfterStart(d, "submit") /\ UNCHANGED <<pass, presence>>
    BY SubmitStep DEF StepOK, Submit
  <1>2. Watched(d)'
    <2>1. HasDeadline(row'[d]) => WakeNeeded'
      BY DEF WakeNeeded
    <2> QED
      BY <1>1, <2>1, KeepsAlarm DEF Watched
  <1> QED
    BY <1>1, <1>2, KeepsAlarm, WakeFocus

\* A frame comes from a connected computer, whose token is watched.
LEMMA FrameWake ==
    ASSUME TypeOK, PlacementInv, WakeupInv, NEW d \in Dispatch, NEW p \in Device, Frame(p, d)
    PROVE  WakeupInv'
  <1>1. CASE HandleClaim(p, d) \/ HandleComplete(p, d)
    BY <1>1, ScheduledWake DEF HandleClaim, HandleComplete
  <1>2. CASE HandleRelease(p, d) \/ HandleAck(p, d) \/ HandleRunning(p, d) \/ HandleRenew(p, d)
    <2>1. OthersKept(d)
      BY FrameStep DEF StepOK
    <2>2. presence[p].connected /\ UNCHANGED <<pass, presence>>
      BY <1>2 DEF HandleRelease, HandleAck, HandleRunning, HandleRenew, Owns
    <2>3. ArmAfterStart(d, "frame") \/ armed' = armed
      BY <1>2 DEF HandleRelease, HandleAck, HandleRunning, HandleRenew
    <2>4. armed => armed'
      BY <2>3, KeepsAlarm
    <2>5. armed' \/ pass'
      BY <2>2, <2>4 DEF WakeupInv, SocketsWatched
    <2>6. Watched(d)'
      BY <2>5 DEF Watched
    <2> QED
      BY <2>1, <2>2, <2>4, <2>6, WakeFocus
  <1> QED
    BY <1>1, <1>2 DEF Frame

\* A suspended submit schedules when it ends; any other start gives its row no
\* deadline without setting the alarm.
LEMMA ContinueWake ==
    ASSUME TypeOK, PlacementInv, AttemptsInv, WakeupInv, NEW d \in Dispatch, NEW c \in Caller,
           Continue(d, c)
    PROVE  WakeupInv'
  <1>1. OthersKept(d)
    BY ContinueStep DEF StepOK
  <1>2. /\ \A b \in Caller \ {c} : start'[d][b] = start[d][b]
        /\ start'[d][c] = Idle => ArmAfterStart(d, c)
        /\ HasDeadline(row'[d]) => HasDeadline(row[d]) \/ armed'
    BY ContinueApart DEF AttemptsInv
  <1>3. UNCHANGED <<pass, presence>> /\ (ArmAfterStart(d, c) \/ armed' = armed)
    BY DEF Continue, ChatHold, ChatRegister, CloudAnswers, StartReplyOk, StartReplyRefused,
           StartLost
  <1>4. armed => armed'
    BY <1>3, KeepsAlarm
  <1>5. CASE c = "submit"
    <2>1. HasDeadline(row'[d]) => WakeNeeded'
      BY DEF WakeNeeded
    <2>2. Watched(d)'
      BY <1>2, <1>5, <2>1, KeepsAlarm DEF Watched
    <2> QED
      BY <1>1, <1>3, <1>4, <2>2, WakeFocus
  <1>6. CASE c # "submit"
    <2>1. start'[d]["submit"] = start[d]["submit"]
      BY <1>2, <1>6 DEF Caller
    <2>2. Watched(d)'
      BY <1>2, <1>3, <1>4, <2>1 DEF Watched, WakeupInv
    <2> QED
      BY <1>1, <1>3, <1>4, <2>2, WakeFocus
  <1> QED
    BY <1>5, <1>6

\* The fence and the slots give no row a deadline; a receipt, a status read and a
\* stop end the row or schedule.
LEMMA SettleWake ==
    ASSUME TypeOK, PlacementInv, WakeupInv, NEW d \in Dispatch,
           \/ FenceUnregister(d) \/ Release(d) \/ RecordCloudDispatchTerminal(d)
           \/ DispatchStatus(d) \/ CancelDispatch(d)
    PROVE  WakeupInv'
  <1>1. CASE DispatchStatus(d) \/ CancelDispatch(d)
    BY <1>1, ScheduledWake DEF DispatchStatus, CancelDispatch
  <1>2. CASE FenceUnregister(d) \/ Release(d) \/ RecordCloudDispatchTerminal(d)
    <2>1. OthersKept(d) /\ row[d] \in RowType
      BY <1>2, SettleStep DEF StepOK, TypeOK
    <2>2. /\ UNCHANGED <<pass, presence, start>>
          /\ armed' = armed \/ armed' = (armed \/ WakeNeeded)
      BY <1>2 DEF FenceUnregister, Release, RecordCloudDispatchTerminal
    <2>3. armed => armed'
      BY <2>2
    <2>4. ASSUME NEW o, PutAndReleaseGate(d, Settled(row[d], o), running), o \in Outcome
          PROVE  ~HasDeadline(row'[d])
      <3>1. row'[d] = [Settled(row[d], o) EXCEPT !.gateHeld = FALSE]
        BY <2>4, ReleaseRow
      <3>2. row'[d].state = o /\ row'[d].payload = "none"
        BY <2>1, <3>1 DEF Settled, RowType
      <3> QED
        BY <2>4, <3>2 DEF HasDeadline, LeasedState, Outcome
    <2>5. CASE FenceUnregister(d)
      <3>1. row'[d] = [row[d] EXCEPT !.gateHeld = FALSE]
        BY <2>5, PutRow DEF FenceUnregister
      <3>2. HasDeadline(row'[d]) => HasDeadline(row[d])
        BY <2>1, <3>1 DEF HasDeadline, RowType
      <3>3. Watched(d)'
        BY <2>2, <2>3, <3>2 DEF Watched, WakeupInv
      <3> QED
        BY <2>1, <2>2, <2>3, <3>3, WakeFocus
    <2>6. CASE Release(d) \/ RecordCloudDispatchTerminal(d)
      <3>1. HasDeadline(row'[d]) => HasDeadline(row[d])
        BY <2>4, <2>6 DEF Release, RecordCloudDispatchTerminal
      <3>2. Watched(d)'
        BY <2>2, <2>3, <3>1 DEF Watched, WakeupInv
      <3> QED
        BY <2>1, <2>2, <2>3, <3>2, WakeFocus
    <2> QED
      BY <1>2, <2>5, <2>6
  <1> QED
    BY <1>1, <1>2

\* The alarm's own pass is still in progress; time gives no row a deadline.
LEMMA AlarmWake ==
    ASSUME TypeOK, PlacementInv, WakeupInv, NEW d \in Dispatch, AlarmStep(d) \/ Lapse(d)
    PROVE  WakeupInv'
  <1>1. CASE AlarmStep(d)
    <2>1. OthersKept(d) /\ pass' /\ UNCHANGED <<pass, presence>> /\ ArmAfterStart(d, "alarm")
      BY <1>1, AlarmStepOK DEF StepOK, AlarmStep
    <2> QED
      BY <2>1, KeepsAlarm, WakeFocus DEF Watched
  <1>2. CASE Lapse(d)
    <2>1. /\ OthersKept(d) /\ row[d] \in RowType
          /\ UNCHANGED <<pass, presence, armed, start>>
      BY <1>2, LapseStep DEF StepOK, TypeOK, Lapse
    <2>2. HasDeadline(row'[d]) => HasDeadline(row[d])
      <3>1. CASE LapseSlot(d)
        BY <3>1 DEF LapseSlot
      <3>2. CASE LapseOffer(d)
        <4>1. row'[d] = [row[d] EXCEPT !.offerDl = "lapsed"]
          BY <3>2, PutRow DEF LapseOffer
        <4> QED
          BY <2>1, <3>2, <4>1 DEF LapseOffer, HasDeadline, RowType
      <3>3. CASE LapseLease(d)
        <4>1. row'[d] = [row[d] EXCEPT !.lease = "lapsed"]
          BY <3>3, PutRow DEF LapseLease
        <4> QED
          BY <2>1, <3>3, <4>1 DEF LapseLease, HasDeadline, RowType
      <3>4. CASE LapseRetry(d)
        <4>1. row'[d] = [row[d] EXCEPT !.retry = "lapsed"]
          BY <3>4, PutRow DEF LapseRetry
        <4> QED
          BY <2>1, <3>4, <4>1 DEF LapseRetry, HasDeadline, RowType
      <3>5. CASE LapsePayload(d)
        BY <3>5 DEF LapsePayload, HasDeadline
      <3> QED
        BY <1>2, <3>1, <3>2, <3>3, <3>4, <3>5 DEF Lapse
    <2>3. Watched(d)'
      BY <2>1, <2>2 DEF Watched, WakeupInv
    <2> QED
      BY <2>1, <2>3, WakeFocus
  <1> QED
    BY <1>1, <1>2

\* Up to the first eviction every step leaves every deadline watched.
LEMMA WakeupStep ==
    ASSUME TypeOK, PlacementInv, AttemptsInv, evictions = 0 => WakeupInv, [Next]_vars,
           evictions' = 0
    PROVE  WakeupInv'
  <1>1. ~Evict
    BY DEF Evict, TypeOK
  <1>2. evictions = 0
    <2>1. CASE \E d \in Dispatch :
               \/ Submit(d) \/ FenceUnregister(d) \/ Release(d)
               \/ RecordCloudDispatchTerminal(d) \/ DispatchStatus(d) \/ CancelDispatch(d)
               \/ AlarmStep(d) \/ Lapse(d)
      BY <2>1 DEF Submit, FenceUnregister, Release, RecordCloudDispatchTerminal,
                  DispatchStatus, CancelDispatch, AlarmStep, Lapse
    <2>2. CASE \E d \in Dispatch, p \in Device : Frame(p, d)
      BY <2>2 DEF Frame, HandleClaim, HandleRelease, HandleAck, HandleRunning, HandleRenew,
                  HandleComplete
    <2>3. CASE \E d \in Dispatch, c \in Caller : Continue(d, c)
      BY <2>3 DEF Continue, ChatHold, ChatRegister, CloudAnswers, StartReplyOk,
                  StartReplyRefused, StartLost
    <2>4. CASE \E p \in Device : Connect(p) \/ Disconnect(p) \/ SetReady(p)
      BY <2>4 DEF Connect, Disconnect, SetReady
    <2>5. CASE AlarmBegin \/ AlarmEnd \/ UNCHANGED vars
      BY <2>5 DEF AlarmBegin, AlarmEnd, vars
    <2> QED
      BY <1>1, <2>1, <2>2, <2>3, <2>4, <2>5 DEF Next
  <1>3. WakeupInv
    BY <1>2
  <1>4. CASE UNCHANGED vars
    BY <1>3, <1>4 DEF vars, WakeupInv, Watched, SocketsWatched
  <1>5. CASE \E d \in Dispatch :
               \/ Submit(d) \/ FenceUnregister(d) \/ Release(d)
               \/ RecordCloudDispatchTerminal(d) \/ DispatchStatus(d) \/ CancelDispatch(d)
               \/ AlarmStep(d) \/ Lapse(d)
               \/ \E p \in Device : Frame(p, d)
               \/ \E c \in Caller : Continue(d, c)
    BY <1>3, <1>5, SubmitWake, FrameWake, ContinueWake, SettleWake, AlarmWake
  <1>6. CASE \E p \in Device : Connect(p) \/ Disconnect(p)
    BY <1>6, ScheduledWake DEF Connect, Disconnect
  <1>7. CASE \E p \in Device : SetReady(p)
    <2>1. PICK p \in Device : SetReady(p)
      BY <1>7
    <2>2. \A q \in Device : presence'[q].connected = presence[q].connected
      <3>1. presence' = [presence EXCEPT ![p].ready = ~@]
        BY <2>1 DEF SetReady
      <3> QED
        BY <3>1 DEF TypeOK, PresenceType
    <2>3. UNCHANGED <<row, start, pass, armed>>
      BY <2>1 DEF SetReady
    <2> QED
      BY <1>3, <2>2, <2>3 DEF WakeupInv, Watched, SocketsWatched
  <1>8. CASE AlarmBegin
    BY <1>8 DEF AlarmBegin, WakeupInv, Watched, SocketsWatched
  <1>9. CASE AlarmEnd
    <2>1. armed' = (armed \/ WakeNeeded) /\ UNCHANGED <<row, presence>>
      BY <1>9 DEF AlarmEnd
    <2>2. \A d \in Dispatch : HasDeadline(row'[d]) => armed'
      BY <2>1 DEF WakeNeeded
    <2>3. \A p \in Device : presence'[p].connected => armed'
      BY <2>1 DEF WakeNeeded
    <2> QED
      BY <2>2, <2>3 DEF WakeupInv, Watched, SocketsWatched
  <1> QED
    BY <1>1, <1>4, <1>5, <1>6, <1>7, <1>8, <1>9 DEF Next

\* A row with a deadline always has somebody who will look at it: the alarm is
\* set, a pass is running, or the submit that wrote it has yet to schedule.  True
\* of every interleaving of submits, frames, starts and alarm passes up to the
\* first eviction of the object.
THEOREM DeadlinesAreWatched == Spec => [](evictions = 0 => NoLostWakeup)
  <1>1. Init => AttemptsInv /\ (evictions = 0 => WakeupInv)
    <2> SUFFICES ASSUME Init PROVE AttemptsInv /\ WakeupInv
      OBVIOUS
    <2>1. ASSUME NEW d \in Dispatch
          PROVE  Apart(row[d], start[d]) /\ Watched(d)
      <3>1. row[d] = NoRow /\ \A c \in Caller : start[d][c] = Idle
        BY DEF Init
      <3>2. NoRow.attempts = 0 /\ NoRow.retry = "none" /\ ~HasDeadline(NoRow)
        BY DEF NoRow, HasDeadline, LeasedState
      <3> QED
        BY <3>1, <3>2, IdleAttempt DEF Apart, Watched
    <2>2. SocketsWatched
      BY DEF Init, SocketsWatched
    <2> QED
      BY <2>1, <2>2 DEF AttemptsInv, WakeupInv
  <1>2. TypeOK /\ PlacementInv /\ AttemptsInv /\ [Next]_vars => AttemptsInv'
    BY AttemptsStep
  <1>3. TypeOK /\ PlacementInv /\ AttemptsInv /\ (evictions = 0 => WakeupInv) /\ [Next]_vars
          => (evictions = 0 => WakeupInv)'
    BY WakeupStep
  <1>4. (evictions = 0 => WakeupInv) => (evictions = 0 => NoLostWakeup)
    BY DEF WakeupInv, Watched, NoLostWakeup
  <1> QED
    BY <1>1, <1>2, <1>3, <1>4, TypeCorrect, PlacementSafe, PTL DEF Spec

-----------------------------------------------------------------------------
(***************************************************************************)
(* Admission slots.  An ended dispatch gives its slot back, for any number *)
(* of dispatches: an alarm pass that was suspended on one of them and acts *)
(* on a stale decision about another may start it twice, and still no slot *)
(* is lost.  r is the row of the dispatch, n its slot, h its handoff, s    *)
(* its starts and a what the alarm pass decided about it.                  *)
(***************************************************************************)

\* The phases of a start whose call was made.
Called == {"sent", "ok", "refused", "unavailable"}

\* A slot is recorded on the row or belongs to a handoff being allocated; so is
\* that of a start being registered, unless the row gave it back, and then
\* nothing can take it again: the handoff is retired or the payload gone.
SlotKept(r, n, h, s) ==
    /\ n # "none" => r.gateHeld \/ h = "allocating"
    /\ IsTerminalDispatchState(r.state) /\ h # "allocating" => n = "none"
    /\ h = "retired" => n = "none"
    /\ \A c \in Caller : s[c].phase = "registering" /\ ~r.gateHeld
           => n = "none" /\ (h = "retired" \/ r.payload = "none")

\* Only a chat has a handoff, which its first call finds registered.
HandoffKept(r, n, h, s) ==
    /\ \A c \in Caller : s[c].phase \in Called /\ r.kind = "chat" => h \in {"registered", "retired"}
    /\ \A c \in Caller : s[c].phase \in {"admitting", "registering"} => r.kind = "chat"
    /\ r.kind = "agent" => h = "none"
    /\ r.state = "absent" => n = "none" /\ h = "none"

\* Submits and frames make first attempts, so a retry that the alarm found due
\* meets none of theirs.
FirstOnly(r, s, a) ==
    /\ r.placement = "none" => r.attempts = 0
    /\ \A c \in Caller : s[c].phase = "idle" => s[c] = Idle
    /\ \A c \in {"submit", "frame"} : s[c] = Idle \/ s[c].attempt = 1
    /\ a.branch = "retry" => s["submit"] = Idle /\ s["frame"] = Idle

Held(r, n, h, s, a) == SlotKept(r, n, h, s) /\ HandoffKept(r, n, h, s) /\ FirstOnly(r, s, a)

SlotInv == \A d \in Dispatch : Held(row[d], running[d], handoff[d], start[d], alarm[d])

\* Columns the invariant does not speak of may change, a slot may be freed, a
\* payload dropped and an alarm decision forgotten.
LEMMA QuietHeld ==
    ASSUME NEW r, NEW n, NEW h, NEW s, NEW a, Held(r, n, h, s, a),
           NEW q, q.kind = r.kind, q.gateHeld = r.gateHeld, q.attempts = r.attempts,
           q.placement = "none" => r.placement = "none",
           r.payload = "none" => q.payload = "none",
           IsTerminalDispatchState(q.state) => IsTerminalDispatchState(r.state),
           q.state = "absent" => r.state = "absent",
           NEW m, n = "none" => m = "none",
           NEW b, b.branch = "retry" => a.branch = "retry"
    PROVE  Held(q, m, h, s, b)
  <1>1. SlotKept(q, m, h, s)
    BY DEF Held, SlotKept
  <1>2. HandoffKept(q, m, h, s)
    BY DEF Held, HandoffKept
  <1>3. FirstOnly(q, s, b)
    BY DEF Held, FirstOnly
  <1> QED
    BY <1>1, <1>2, <1>3 DEF Held

\* Ending a dispatch and giving its admission back.
LEMMA EndedHeld ==
    ASSUME NEW r, NEW n, NEW h, NEW s, NEW a, Held(r, n, h, s, a),
           NEW q, q.kind = r.kind, ~q.gateHeld, q.attempts = r.attempts,
           q.placement = "none" => r.placement = "none",
           q.payload = "none" \/ \A c \in Caller : s[c] = Idle, q.state # "absent",
           NEW m, m = (IF r.gateHeld THEN "none" ELSE n),
           NEW b, b.branch = "retry" => a.branch = "retry"
    PROVE  Held(q, m, h, s, b)
  <1>1. SlotKept(q, m, h, s)
    BY IdleAttempt DEF Held, SlotKept
  <1>2. HandoffKept(q, m, h, s)
    BY DEF Held, HandoffKept
  <1>3. FirstOnly(q, s, b)
    BY DEF Held, FirstOnly
  <1> QED
    BY <1>1, <1>2, <1>3 DEF Held

\* A start ends.
LEMMA StartEndsHeld ==
    ASSUME NEW r, NEW n, NEW h, NEW s, NEW a, Held(r, n, h, s, a), NEW c \in Caller, NEW t,
           \A b \in Caller \ {c} : t[b] = s[b], t[c] = Idle
    PROVE  Held(r, n, h, t, a)
  <1>1. SlotKept(r, n, h, t)
    BY IdleAttempt DEF Held, SlotKept
  <1>2. HandoffKept(r, n, h, t)
    BY IdleAttempt DEF Held, HandoffKept, Called
  <1>3. FirstOnly(r, t, a)
    BY DEF Held, FirstOnly, Caller
  <1> QED
    BY <1>1, <1>2, <1>3 DEF Held

\* A retired handoff holds no slot; the dispatch gave its own back.
LEMMA RetiredHeld ==
    ASSUME NEW r, NEW n, NEW h, NEW s, NEW a, Held(r, n, h, s, a), r.kind = "chat",
           r.state # "absent"
    PROVE  Held(r, "none", "retired", s, a)
  <1>1. SlotKept(r, "none", "retired", s)
    BY DEF SlotKept
  <1>2. HandoffKept(r, "none", "retired", s)
    BY DEF Held, HandoffKept
  <1> QED
    BY <1>1, <1>2 DEF Held

-----------------------------------------------------------------------------
(* The running table.                                                      *)

\* What a step of dispatch d may leave of the slots of the others.
FreesOthers(d, slots) ==
    /\ slots \in [Dispatch -> Deadline]
    /\ \A e \in Dispatch \ {d} : slots[e] \in {running[e], "none"}

\* Admission and release.
LEMMA SlotUpdates ==
    ASSUME TypeOK, NEW d \in Dispatch
    PROVE  /\ FreesOthers(d, running)
           /\ FreesOthers(d, Admitted(d)) /\ Admitted(d)[d] = "live"
           /\ \A slots : FreesOthers(d, slots)
                 => FreesOthers(d, Freed(d, slots)) /\ Freed(d, slots)[d] = "none"
  <1>1. FreesOthers(d, running)
    BY DEF FreesOthers, TypeOK
  <1>2. FreesOthers(d, Admitted(d)) /\ Admitted(d)[d] = "live"
    BY DEF FreesOthers, TypeOK, Admitted, Deadline
  <1>3. ASSUME NEW slots, FreesOthers(d, slots)
        PROVE  FreesOthers(d, Freed(d, slots)) /\ Freed(d, slots)[d] = "none"
    BY <1>3 DEF FreesOthers, Freed, Deadline
  <1> QED
    BY <1>1, <1>2, <1>3

\* patchDispatch and releaseGate.
LEMMA ReleaseSlot ==
    ASSUME TypeOK, NEW d \in Dispatch, NEW r, NEW slots, FreesOthers(d, slots),
           PutAndReleaseGate(d, r, slots)
    PROVE  /\ row'[d] = [r EXCEPT !.gateHeld = FALSE]
           /\ running'[d] = IF r.gateHeld THEN "none" ELSE slots[d]
           /\ FreesOthers(d, running')
  BY ReleaseRow, SlotUpdates DEF PutAndReleaseGate

\* A handoff is set.
LEMMA HandoffMoves ==
    ASSUME TypeOK, NEW d \in Dispatch, NEW h, SetHandoff(d, h)
    PROVE  handoff'[d] = h /\ \A e \in Dispatch \ {d} : handoff'[e] = handoff[e]
  BY DEF SetHandoff, TypeOK

\* What a step of dispatch d leaves of the slots and handoffs of the others.
OthersHold(d) ==
    /\ FreesOthers(d, running')
    /\ \A e \in Dispatch \ {d} : handoff'[e] = handoff[e]

HeldAfter(d, a) == Held(row'[d], running'[d], handoff'[d], start'[d], a)

\* cloudRefusal keeps the slot for the retry, or ends the dispatch.
LEMMA RefusalHeld ==
    ASSUME TypeOK, NEW d \in Dispatch, NEW r \in RowType, NEW n, NEW status, NEW slots,
           FreesOthers(d, slots), CloudRefusal(d, r, n, status, slots),
           NEW h, NEW s, NEW a, Held(r, slots[d], h, s, a), r.state # "absent"
    PROVE  /\ Held(row'[d], running'[d], h, s, a) /\ FreesOthers(d, running')
           /\ row'[d].kind = r.kind /\ row'[d].state # "absent"
           /\ status = "refused" => /\ ~row'[d].gateHeld
                                    /\ running'[d] = IF r.gateHeld THEN "none" ELSE slots[d]
  <1>1. CASE /\ status = "unavailable" /\ n < DISPATCH_CLOUD_MAX_ATTEMPTS
             /\ Put(d, [r EXCEPT !.retry = "live", !.lease = "live"])
             /\ running' = slots
    <2> DEFINE q == [r EXCEPT !.retry = "live", !.lease = "live"]
    <2>1. row'[d] = q
      BY <1>1, PutRow
    <2>2. /\ q.kind = r.kind /\ q.gateHeld = r.gateHeld /\ q.attempts = r.attempts
          /\ q.placement = r.placement /\ q.payload = r.payload /\ q.state = r.state
      BY DEF RowType
    <2> HIDE DEF q
    <2>3. Held(q, slots[d], h, s, a)
      BY <2>2, QuietHeld
    <2> QED
      BY <1>1, <2>1, <2>2, <2>3
  <1>2. CASE PutAndReleaseGate(d, Failed(r), slots)
    <2> DEFINE q == [Failed(r) EXCEPT !.gateHeld = FALSE]
    <2>1. Failed(r).gateHeld = r.gateHeld
      BY DEF Failed, RowType
    <2>2. /\ row'[d] = q /\ running'[d] = IF r.gateHeld THEN "none" ELSE slots[d]
          /\ FreesOthers(d, running')
      BY <1>2, <2>1, ReleaseSlot
    <2>3. /\ q.kind = r.kind /\ ~q.gateHeld /\ q.attempts = r.attempts
          /\ q.placement = r.placement /\ q.payload = "none" /\ q.state = "failed"
      BY DEF RowType, Failed
    <2> HIDE DEF q
    <2>4. Held(q, running'[d], h, s, a)
      BY <2>2, <2>3, EndedHeld
    <2> QED
      BY <2>2, <2>3, <2>4
  <1> QED
    BY <1>1, <1>2 DEF CloudRefusal

\* The last check of an admitted chat registers its handoff or gives all back.
LEMMA SendHeld ==
    ASSUME TypeOK, NEW d \in Dispatch, NEW c \in Caller, NEW r \in RowType, NEW n,
           SendAdmittedChat(d, c, r, n), NEW a, Held(r, running[d], handoff[d], start[d], a),
           r.kind = "chat", r.state # "absent", handoff[d] # "retired",
           running[d] # "none" => r.gateHeld,
           c \in {"submit", "frame"} => n = 1 /\ a.branch # "retry"
    PROVE  HeldAfter(d, a) /\ OthersHold(d)
  <1>0. FreesOthers(d, running)
    BY SlotUpdates
  <1>1. CASE /\ r.state = "cloud_committed"
             /\ Put(d, [r EXCEPT !.cloudTurn = TRUE])
             /\ SetStart(d, c, "sent", n)
             /\ SetHandoff(d, "registered")
             /\ UNCHANGED running
    <2> DEFINE q == [r EXCEPT !.cloudTurn = TRUE]
    <2>1. row'[d] = q
      BY <1>1, PutRow
    <2>2. /\ q.kind = r.kind /\ q.gateHeld = r.gateHeld /\ q.attempts = r.attempts
          /\ q.placement = r.placement /\ q.payload = r.payload /\ q.state = r.state
      BY DEF RowType
    <2>3. /\ handoff'[d] = "registered" /\ \A e \in Dispatch \ {d} : handoff'[e] = handoff[e]
      BY <1>1, HandoffMoves
    <2>4. \A b \in Caller \ {c} : start'[d][b] = start[d][b]
      BY <1>1, StartMoves
    <2>5. start'[d][c] = [phase |-> "sent", attempt |-> n]
      BY <1>1, StartMoves
    <2>6. start'[d][c].phase = "sent" /\ start'[d][c].attempt = n
      BY <2>5
    <2> HIDE DEF q
    <2> DEFINE t == start'[d]
    <2>7. SlotKept(q, running[d], "registered", t)
      <3>1. q.state = "cloud_committed" /\ ~IsTerminalDispatchState(q.state)
        BY <1>1, <2>2 DEF IsTerminalDispatchState, TerminalDispatchState
      <3>2. ASSUME NEW b \in Caller, t[b].phase = "registering", ~q.gateHeld
            PROVE  running[d] = "none" /\ q.payload = "none"
        <4>1. t[b] = start[d][b]
          BY <2>4, <2>6, <3>2
        <4> QED
          BY <2>2, <3>2, <4>1 DEF Held, SlotKept
      <3> QED
        BY <2>2, <3>1, <3>2 DEF SlotKept
    <2>8. HandoffKept(q, running[d], "registered", t)
      BY <1>1, <2>2, <2>4, <2>6 DEF Held, HandoffKept, Called
    <2>9. FirstOnly(q, t, a)
      BY <2>2, <2>4, <2>6 DEF Held, FirstOnly, Caller
    <2>10. Held(q, running[d], "registered", t, a)
      BY <2>7, <2>8, <2>9 DEF Held
    <2> HIDE DEF t
    <2> QED
      BY <1>0, <1>1, <2>1, <2>3, <2>10 DEF HeldAfter, OthersHold, t
  <1>2. CASE PutAndReleaseGate(d, r, running) /\ EndStart(d, c) /\ SetHandoff(d, "retired")
    <2> DEFINE q == [r EXCEPT !.gateHeld = FALSE]
    <2>1. /\ row'[d] = q /\ running'[d] = IF r.gateHeld THEN "none" ELSE running[d]
          /\ FreesOthers(d, running')
      BY <1>0, <1>2, ReleaseSlot
    <2>2. /\ q.kind = r.kind /\ ~q.gateHeld /\ q.attempts = r.attempts
          /\ q.placement = r.placement /\ q.payload = r.payload /\ q.state = r.state
      BY DEF RowType
    <2>3. handoff'[d] = "retired" /\ \A e \in Dispatch \ {d} : handoff'[e] = handoff[e]
      BY <1>2, HandoffMoves
    <2>4. start'[d][c] = Idle /\ \A b \in Caller \ {c} : start'[d][b] = start[d][b]
      BY <1>2, StartMoves
    <2>5. running'[d] = "none"
      BY <2>1
    <2> HIDE DEF q
    <2>6. Held(r, "none", "retired", start[d], a)
      BY RetiredHeld
    <2>7. Held(r, "none", "retired", start'[d], a)
      BY <2>4, <2>6, StartEndsHeld
    <2>8. Held(q, "none", "retired", start'[d], a)
      <3>1. SlotKept(q, "none", "retired", start'[d])
        BY DEF SlotKept
      <3>2. HandoffKept(q, "none", "retired", start'[d]) /\ FirstOnly(q, start'[d], a)
        BY <2>2, <2>7 DEF Held, HandoffKept, FirstOnly
      <3> QED
        BY <3>1, <3>2 DEF Held
    <2> QED
      BY <2>1, <2>3, <2>5, <2>8 DEF HeldAfter, OthersHold
  <1> QED
    BY <1>1, <1>2 DEF SendAdmittedChat

\* An admission is made under a handoff being allocated.
LEMMA AdmitHeld ==
    ASSUME NEW r, NEW n, NEW h, NEW s, NEW a, Held(r, n, h, s, a), NEW c \in Caller, NEW t,
           h \in {"none", "allocating"}, r.kind = "chat", r.state # "absent", s[c] = Idle,
           r.payload # "none" \/ \A b \in Caller : s[b] = Idle,
           \A b \in Caller \ {c} : t[b] = s[b], t[c].phase = "admitting",
           c \in {"submit", "frame"} => t[c].attempt = 1 /\ a.branch # "retry"
    PROVE  Held(r, "live", "allocating", t, a)
  <1>1. ASSUME NEW b \in Caller, t[b].phase = "registering" PROVE r.gateHeld
    <2>1. t[b] = s[b] /\ s[b] # Idle
      BY <1>1, IdleAttempt
    <2> QED
      BY <1>1, <2>1 DEF Held, SlotKept
  <1>2. SlotKept(r, "live", "allocating", t)
    BY <1>1 DEF SlotKept
  <1>3. ASSUME NEW b \in Caller, t[b].phase \in Called PROVE FALSE
    <2>1. t[b] = s[b]
      BY <1>3 DEF Called
    <2> QED
      BY <1>3, <2>1 DEF Held, HandoffKept
  <1>4. HandoffKept(r, "live", "allocating", t)
    BY <1>3 DEF HandoffKept
  <1>5. FirstOnly(r, t, a)
    BY DEF Held, FirstOnly, Caller
  <1> QED
    BY <1>2, <1>4, <1>5 DEF Held

\* A turn identity is allocated.
LEMMA AllocateHeld ==
    ASSUME NEW r, NEW n, NEW h, NEW s, NEW a, Held(r, n, h, s, a), r.kind = "chat",
           h \in {"none", "allocating"}, r.state # "absent"
    PROVE  Held(r, n, "allocating", s, a)
  <1>1. SlotKept(r, n, "allocating", s)
    BY DEF Held, SlotKept
  <1>2. HandoffKept(r, n, "allocating", s) /\ FirstOnly(r, s, a)
    BY DEF Held, HandoffKept, FirstOnly
  <1> QED
    BY <1>1, <1>2 DEF Held

\* startCloudChat refuses, admits or sends the chat.
LEMMA ChatHeld ==
    ASSUME TypeOK, NEW d \in Dispatch, NEW c \in Caller, NEW r \in RowType,
           StartCloudChat(d, c, r), NEW a, Held(r, running[d], handoff[d], start[d], a),
           r.kind = "chat", r.state # "absent", start[d][c] = Idle,
           r.payload # "none" \/ \A b \in Caller : start[d][b] = Idle,
           c \in {"submit", "frame"} => r.attempts = 1 /\ a.branch # "retry"
    PROVE  HeldAfter(d, a) /\ OthersHold(d)
  <1> DEFINE h == IF handoff[d] = "none" /\ r.attempts = 1 THEN "allocating" ELSE handoff[d]
  <1>0. FreesOthers(d, running) /\ FreesOthers(d, Admitted(d)) /\ Admitted(d)[d] = "live"
    BY SlotUpdates
  <1>1. CASE CloudRefusal(d, r, r.attempts, "refused", running) /\ UNCHANGED <<start, handoff>>
    BY <1>0, <1>1, RefusalHeld DEF HeldAfter, OthersHold
  <1>2. ASSUME h = "allocating" PROVE handoff[d] \in {"none", "allocating"}
    BY <1>2
  <1>3. ASSUME NEW status, h = "allocating", CloudRefusal(d, r, r.attempts, status, running),
               SetHandoff(d, h), UNCHANGED start
        PROVE  HeldAfter(d, a) /\ OthersHold(d)
    <2>1. handoff'[d] = "allocating" /\ \A e \in Dispatch \ {d} : handoff'[e] = handoff[e]
      BY <1>3, HandoffMoves
    <2>2. Held(r, running[d], "allocating", start[d], a)
      BY <1>2, <1>3, AllocateHeld
    <2>3. Held(row'[d], running'[d], "allocating", start[d], a) /\ FreesOthers(d, running')
      BY <1>0, <1>3, <2>2, RefusalHeld
    <2> QED
      BY <1>3, <2>1, <2>3 DEF HeldAfter, OthersHold
  <1>4. CASE /\ h = "allocating"
             /\ Put(d, r)
             /\ running' = Admitted(d)
             /\ SetHandoff(d, h)
             /\ SetStart(d, c, "admitting", r.attempts)
    <2>1. handoff'[d] = "allocating" /\ \A e \in Dispatch \ {d} : handoff'[e] = handoff[e]
      BY <1>4, HandoffMoves
    <2>2. row'[d] = r /\ \A b \in Caller \ {c} : start'[d][b] = start[d][b]
      BY <1>4, PutRow, StartMoves
    <2>3. start'[d][c] = [phase |-> "admitting", attempt |-> r.attempts]
      BY <1>4, StartMoves
    <2>4. start'[d][c].phase = "admitting" /\ start'[d][c].attempt = r.attempts
      BY <2>3
    <2>5. Held(r, "live", "allocating", start'[d], a)
      BY <1>2, <1>4, <2>2, <2>4, AdmitHeld
    <2> QED
      BY <1>0, <1>4, <2>1, <2>2, <2>5 DEF HeldAfter, OthersHold
  <1>5. CASE h = "registered" /\ SendAdmittedChat(d, c, r, r.attempts)
    <2>1. handoff[d] = "registered"
      BY <1>5
    <2>2. running[d] # "none" => r.gateHeld
      BY <2>1 DEF Held, SlotKept
    <2> QED
      BY <1>5, <2>1, <2>2, SendHeld
  <1> QED
    BY <1>1, <1>3, <1>4, <1>5 DEF StartCloudChat

\* runCloudBranch on row r, with the slots its caller has left.
LEMMA BranchHeld ==
    ASSUME TypeOK, NEW d \in Dispatch, NEW c \in Caller, NEW r \in RowType, NEW payload,
           NEW slots, RunCloudBranch(d, c, r, payload, slots),
           NEW a, Held(r, slots[d], handoff[d], start[d], a), FreesOthers(d, slots),
           r.kind = "chat" => slots = running,
           r.state # "absent", r.placement = "cloud", start[d][c] = Idle,
           (payload <=> r.payload # "none") \/ \A b \in Caller : start[d][b] = Idle,
           c \in {"submit", "frame"} => r.attempts = 0 /\ a.branch # "retry"
    PROVE  HeldAfter(d, a) /\ OthersHold(d)
  <1> DEFINE attempting == [r EXCEPT !.attempts = @ + 1, !.retry = "none"]
  <1>1. attempting \in RowType
    BY RowUpdates
  <1>2. /\ attempting.kind = r.kind /\ attempting.gateHeld = r.gateHeld
        /\ attempting.attempts = r.attempts + 1 /\ attempting.placement = r.placement
        /\ attempting.payload = r.payload /\ attempting.state = r.state
    BY DEF RowType
  <1> HIDE DEF attempting
  <1>3. Held(attempting, slots[d], handoff[d], start[d], a)
    <2>1. SlotKept(attempting, slots[d], handoff[d], start[d])
      BY <1>2 DEF Held, SlotKept
    <2>2. HandoffKept(attempting, slots[d], handoff[d], start[d])
      BY <1>2 DEF Held, HandoffKept
    <2>3. FirstOnly(attempting, start[d], a)
      BY <1>2 DEF Held, FirstOnly
    <2> QED
      BY <2>1, <2>2, <2>3 DEF Held
  <1>4. CASE PutAndReleaseGate(d, Failed(r), slots) /\ UNCHANGED <<start, handoff>>
    <2> DEFINE q == [Failed(r) EXCEPT !.gateHeld = FALSE]
    <2>1. Failed(r).gateHeld = r.gateHeld
      BY DEF Failed, RowType
    <2>2. /\ row'[d] = q /\ running'[d] = IF r.gateHeld THEN "none" ELSE slots[d]
          /\ FreesOthers(d, running')
      BY <1>4, <2>1, ReleaseSlot
    <2>3. /\ q.kind = r.kind /\ ~q.gateHeld /\ q.attempts = r.attempts
          /\ q.placement = r.placement /\ q.payload = "none" /\ q.state = "failed"
      BY DEF RowType, Failed
    <2> HIDE DEF q
    <2>4. Held(q, running'[d], handoff[d], start[d], a)
      BY <2>2, <2>3, EndedHeld
    <2> QED
      BY <1>4, <2>2, <2>4 DEF HeldAfter, OthersHold
  <1>5. CASE /\ ~payload
             /\ PutAndReleaseGate(d, [r EXCEPT !.state = "failed", !.lease = "none"], slots)
             /\ UNCHANGED <<start, handoff>>
    <2> DEFINE f == [r EXCEPT !.state = "failed", !.lease = "none"]
               q == [f EXCEPT !.gateHeld = FALSE]
    <2>1. f.gateHeld = r.gateHeld
      BY DEF RowType
    <2>2. /\ q.kind = r.kind /\ ~q.gateHeld /\ q.attempts = r.attempts
          /\ q.placement = r.placement /\ q.payload = r.payload /\ q.state = "failed"
      BY DEF RowType
    <2>3. PutAndReleaseGate(d, f, slots)
      BY <1>5
    <2> HIDE DEF f
    <2>4. /\ row'[d] = q /\ running'[d] = IF r.gateHeld THEN "none" ELSE slots[d]
          /\ FreesOthers(d, running')
      BY <2>1, <2>3, ReleaseSlot
    <2> HIDE DEF q
    <2>5. Held(q, running'[d], handoff[d], start[d], a)
      BY <1>5, <2>2, <2>4, EndedHeld
    <2> QED
      BY <1>5, <2>4, <2>5 DEF HeldAfter, OthersHold
  <1>6. CASE r.kind = "agent" /\ StartCloudAgent(d, c, attempting, slots)
    <2>1. /\ row'[d] = attempting /\ running' = slots /\ handoff' = handoff
          /\ \A b \in Caller \ {c} : start'[d][b] = start[d][b]
      BY <1>6, PutRow, StartMoves DEF StartCloudAgent
    <2>2. start'[d][c] = [phase |-> "sent", attempt |-> attempting.attempts]
      BY <1>6, StartMoves DEF StartCloudAgent
    <2>3. start'[d][c].phase = "sent" /\ start'[d][c].attempt = r.attempts + 1
      BY <1>2, <2>2
    <2>4. SlotKept(attempting, slots[d], handoff[d], start'[d])
      BY <1>3, <2>1, <2>3 DEF Held, SlotKept
    <2>5. HandoffKept(attempting, slots[d], handoff[d], start'[d])
      BY <1>2, <1>3, <1>6, <2>1, <2>3 DEF Held, HandoffKept
    <2>6. FirstOnly(attempting, start'[d], a)
      BY <1>2, <1>3, <2>1, <2>3 DEF Held, FirstOnly, Caller
    <2> QED
      BY <2>1, <2>4, <2>5, <2>6 DEF Held, HeldAfter, OthersHold
  <1>7. CASE payload /\ r.kind = "chat" /\ StartCloudChat(d, c, attempting)
    <2>1. /\ attempting.payload # "none" \/ \A b \in Caller : start[d][b] = Idle
          /\ c \in {"submit", "frame"} => attempting.attempts = 1 /\ a.branch # "retry"
          /\ attempting.kind = "chat" /\ attempting.state # "absent"
      BY <1>2, <1>7
    <2>2. Held(attempting, running[d], handoff[d], start[d], a)
      BY <1>3, <1>7
    <2> QED
      BY <1>1, <1>7, <2>1, <2>2, ChatHeld
  <1> QED
    BY <1>4, <1>5, <1>6, <1>7 DEF RunCloudBranch, attempting

\* resolveUnaccepted commits the row to the cloud or blocks it.
LEMMA ResolveHeld ==
    ASSUME TypeOK, NEW d \in Dispatch, NEW c \in Caller, NEW r \in RowType,
           ResolveUnaccepted(d, c, r), NEW a,
           Held(r, running[d], handoff[d], start[d], a), start[d][c] = Idle,
           r.state # "absent", c \in {"submit", "frame"} => r.attempts = 0 /\ a.branch # "retry"
    PROVE  HeldAfter(d, a) /\ OthersHold(d)
  <1>0. FreesOthers(d, running)
    BY SlotUpdates
  <1>1. CASE RunCloudBranch(d, c, CloudCommitted(r), r.payload # "none", running)
    <2> DEFINE q == CloudCommitted(r)
    <2>1. q \in RowType
      BY CommittedRow
    <2>2. /\ q.kind = r.kind /\ q.gateHeld = r.gateHeld /\ q.attempts = r.attempts
          /\ q.placement = "cloud" /\ q.payload = r.payload /\ q.state = "cloud_committed"
      BY DEF CloudCommitted, RowType
    <2>3. RunCloudBranch(d, c, q, r.payload # "none", running)
      BY <1>1
    <2> HIDE DEF q
    <2>4. ~IsTerminalDispatchState(q.state)
      BY <2>2 DEF IsTerminalDispatchState, TerminalDispatchState
    <2>5. Held(q, running[d], handoff[d], start[d], a)
      BY <2>2, <2>4, QuietHeld
    <2> DEFINE pl == r.payload # "none"
    <2>6. pl <=> q.payload # "none"
      BY <2>2
    <2> HIDE DEF pl
    <2>7. RunCloudBranch(d, c, q, pl, running)
      BY <2>3 DEF pl
    <2> QED
      BY <1>0, <2>1, <2>2, <2>5, <2>6, <2>7, BranchHeld
  <1>2. CASE PutAndReleaseGate(d, BlockedRow(r), running) /\ UNCHANGED <<start, handoff>>
    <2> DEFINE q == [BlockedRow(r) EXCEPT !.gateHeld = FALSE]
    <2>1. BlockedRow(r).gateHeld = r.gateHeld
      BY DEF BlockedRow, RowType
    <2>2. /\ row'[d] = q /\ running'[d] = IF r.gateHeld THEN "none" ELSE running[d]
          /\ FreesOthers(d, running')
      BY <1>0, <1>2, <2>1, ReleaseSlot
    <2>3. /\ q.kind = r.kind /\ ~q.gateHeld /\ q.attempts = r.attempts
          /\ q.placement = r.placement /\ q.payload = "none" /\ q.state = "blocked"
      BY DEF RowType, BlockedRow
    <2> HIDE DEF q
    <2>4. Held(q, running'[d], handoff[d], start[d], a)
      BY <2>2, <2>3, EndedHeld
    <2> QED
      BY <1>2, <2>2, <2>4 DEF HeldAfter, OthersHold
  <1> QED
    BY <1>1, <1>2 DEF ResolveUnaccepted

-----------------------------------------------------------------------------
(* The handlers.                                                           *)

\* A dispatch that has started nothing and has no handoff.
LEMMA FreshHeld ==
    ASSUME NEW r, NEW n, NEW s, NEW a, \A c \in Caller : s[c] = Idle, r.state # "absent",
           n # "none" => r.gateHeld, IsTerminalDispatchState(r.state) => n = "none",
           r.placement = "none" => r.attempts = 0
    PROVE  Held(r, n, "none", s, a)
  <1>1. SlotKept(r, n, "none", s)
    BY IdleAttempt DEF SlotKept
  <1>2. HandoffKept(r, n, "none", s)
    BY IdleAttempt DEF HandoffKept, Called
  <1>3. FirstOnly(r, s, a)
    BY DEF FirstOnly, Caller
  <1> QED
    BY <1>1, <1>2, <1>3 DEF Held

\* submit() writes the first row of its dispatch.
LEMMA SubmitHeld ==
    ASSUME TypeOK, PlacementInv, SlotInv, NEW d \in Dispatch, Submit(d)
    PROVE  HeldAfter(d, alarm'[d]) /\ OthersHold(d)
  <1>1. PICK r, p, decision :
          r \in RowType /\ r.attempts = 0 /\ SubmitPlaced(d, decision, r, p)
    <2>1. \A kind, subject, decision, cloudable :
             NewRow(kind, subject, decision, cloudable).attempts = 0
      BY DEF NewRow, NoRow
    <2> QED
      BY <2>1, NewRowType DEF Submit
  <1>2. /\ row[d].state = "absent" /\ row[d].placement = "none" /\ UNCHANGED alarm
        /\ \A c \in Caller : start[d][c] = Idle
        /\ alarm[d].branch # "retry"
    BY DEF Submit, PlacementInv, Placed, StateMatchesPlacement, StartedMeansCloud,
           StaleAlarmIsHarmless
  <1>3. running[d] = "none" /\ handoff[d] = "none"
    BY <1>2 DEF SlotInv, Held, HandoffKept
  <1>4. r.kind \in {"chat", "agent"}
    BY <1>1 DEF RowType, Kind
  <1> DEFINE slots == SubmitSlots(d, r)
             held == (r.kind = "agent")
  <1>5. /\ FreesOthers(d, slots)
        /\ slots[d] # "none" => r.kind = "agent"
        /\ r.kind = "chat" => slots = running
    BY <1>3, <1>4, SlotUpdates DEF SubmitSlots
  <1>6. held \in BOOLEAN /\ held = (r.kind = "agent")
    OBVIOUS
  <1> HIDE DEF slots, held
  <1>7. CASE SubmitToRequester(d, r, p)
    <2> DEFINE q == [r EXCEPT !.state = "computer_accepted", !.placement = "computer",
                              !.exec = p, !.sess = presence[p].sess, !.lease = "live",
                              !.gateHeld = held]
    <2>1. q.state = "computer_accepted" /\ q.placement = "computer" /\ q.gateHeld = held
      BY <1>1 DEF RowType
    <2>2. Put(d, q) /\ running' = slots /\ UNCHANGED <<handoff, start>>
      BY <1>7 DEF SubmitToRequester, slots, held
    <2> HIDE DEF q
    <2>3. ~IsTerminalDispatchState(q.state)
      BY <2>1 DEF IsTerminalDispatchState, TerminalDispatchState
    <2>4. Held(q, slots[d], "none", start[d], alarm[d])
      BY <1>2, <1>5, <1>6, <2>1, <2>3, FreshHeld
    <2>5. row'[d] = q
      BY <2>2, PutRow
    <2> QED
      BY <1>2, <1>3, <1>5, <2>2, <2>4, <2>5 DEF HeldAfter, OthersHold
  <1>8. CASE SubmitOffer(d, r, p)
    <2> DEFINE q == [r EXCEPT !.state = "offering", !.payload = "live",
                              !.offerDl = "live", !.gateHeld = held]
    <2>1. q.state = "offering" /\ q.attempts = 0 /\ q.gateHeld = held
      BY <1>1 DEF RowType
    <2>2. Put(d, q) /\ running' = slots /\ UNCHANGED <<handoff, start>>
      BY <1>8 DEF SubmitOffer, slots, held
    <2> HIDE DEF q
    <2>3. ~IsTerminalDispatchState(q.state)
      BY <2>1 DEF IsTerminalDispatchState, TerminalDispatchState
    <2>4. Held(q, slots[d], "none", start[d], alarm[d])
      BY <1>2, <1>5, <1>6, <2>1, <2>3, FreshHeld
    <2>5. row'[d] = q
      BY <2>2, PutRow
    <2> QED
      BY <1>2, <1>3, <1>5, <2>2, <2>4, <2>5 DEF HeldAfter, OthersHold
  <1>9. CASE SubmitBlocked(d, r)
    <2> DEFINE q == [r EXCEPT !.state = "blocked"]
    <2>1. q.state = "blocked" /\ q.attempts = 0
      BY <1>1 DEF RowType
    <2>2. Put(d, q) /\ UNCHANGED <<handoff, start>>
      BY <1>9 DEF SubmitBlocked
    <2>3. running'[d] = "none" /\ FreesOthers(d, running')
      BY <1>3, <1>9, SlotUpdates DEF SubmitBlocked
    <2> HIDE DEF q
    <2>4. Held(q, "none", "none", start[d], alarm[d])
      BY <1>2, <2>1, FreshHeld
    <2>5. row'[d] = q
      BY <2>2, PutRow
    <2> QED
      BY <1>2, <1>3, <2>2, <2>3, <2>4, <2>5 DEF HeldAfter, OthersHold
  <1>10. CASE SubmitToCloud(d, r)
    <2> DEFINE q == [r EXCEPT !.state = "cloud_committed", !.placement = "cloud",
                              !.lease = "live", !.payload = "live", !.gateHeld = held]
    <2>1. /\ q.state = "cloud_committed" /\ q.placement = "cloud" /\ q.gateHeld = held
          /\ q.kind = r.kind /\ q.attempts = 0
      BY <1>1 DEF RowType
    <2>2. q \in RowType
      <3>1. \A b \in BOOLEAN :
              [r EXCEPT !.state = "cloud_committed", !.placement = "cloud",
                        !.lease = "live", !.payload = "live", !.gateHeld = b] \in RowType
        BY <1>1, NamedValues DEF RowType
      <3> QED
        BY <1>6, <3>1
    <2>3. RunCloudBranch(d, "submit", q, TRUE, slots)
      BY <1>10 DEF SubmitToCloud, slots, held
    <2> HIDE DEF q
    <2>4. ~IsTerminalDispatchState(q.state)
      BY <2>1 DEF IsTerminalDispatchState, TerminalDispatchState
    <2>5. Held(q, slots[d], handoff[d], start[d], alarm[d])
      BY <1>2, <1>3, <1>5, <1>6, <2>1, <2>4, FreshHeld
    <2>6. HeldAfter(d, alarm[d]) /\ OthersHold(d)
      BY <1>2, <1>5, <2>1, <2>2, <2>3, <2>5, BranchHeld DEF Caller
    <2> QED
      BY <1>2, <2>6
  <1> QED
    BY <1>1, <1>7, <1>8, <1>9, <1>10 DEF SubmitPlaced

\* A step that rewrites other columns of the row.
LEMMA PutHeld ==
    ASSUME TypeOK, SlotInv, NEW d \in Dispatch, NEW q, Put(d, q),
           UNCHANGED <<running, handoff, start>>,
           q.kind = row[d].kind, q.gateHeld = row[d].gateHeld, q.attempts = row[d].attempts,
           q.placement = "none" => row[d].placement = "none",
           row[d].payload = "none" => q.payload = "none",
           IsTerminalDispatchState(q.state) => IsTerminalDispatchState(row[d].state),
           q.state # "absent" \/ row[d].state = "absent",
           alarm'[d].branch = "retry" => alarm[d].branch = "retry"
    PROVE  HeldAfter(d, alarm'[d]) /\ OthersHold(d)
  <1>1. Held(row[d], running[d], handoff[d], start[d], alarm[d])
    BY DEF SlotInv
  <1>2. Held(q, running[d], handoff[d], start[d], alarm'[d])
    BY <1>1, QuietHeld
  <1>3. row'[d] = q /\ FreesOthers(d, running)
    BY PutRow, SlotUpdates
  <1> QED
    BY <1>2, <1>3 DEF HeldAfter, OthersHold

\* A step that settles the dispatch.
LEMMA SettledHeld ==
    ASSUME TypeOK, SlotInv, NEW d \in Dispatch, NEW o,
           PutAndReleaseGate(d, Settled(row[d], o), running), o # "absent",
           UNCHANGED <<handoff, start, alarm>>
    PROVE  HeldAfter(d, alarm'[d]) /\ OthersHold(d)
  <1> DEFINE r == row[d]
             q == [Settled(r, o) EXCEPT !.gateHeld = FALSE]
  <1>0. r \in RowType /\ FreesOthers(d, running)
    BY SlotUpdates DEF TypeOK
  <1>1. Settled(r, o).gateHeld = r.gateHeld
    BY <1>0 DEF Settled, RowType
  <1>2. /\ row'[d] = q /\ running'[d] = IF r.gateHeld THEN "none" ELSE running[d]
        /\ FreesOthers(d, running')
    BY <1>0, <1>1, ReleaseSlot
  <1>3. /\ q.kind = r.kind /\ ~q.gateHeld /\ q.attempts = r.attempts
        /\ q.placement = r.placement /\ q.payload = "none" /\ q.state = o
    BY <1>0 DEF RowType, Settled
  <1> HIDE DEF q
  <1>4. Held(r, running[d], handoff[d], start[d], alarm[d])
    BY DEF SlotInv
  <1>5. Held(q, running'[d], handoff[d], start[d], alarm[d])
    BY <1>2, <1>3, <1>4, EndedHeld
  <1> QED
    BY <1>2, <1>5 DEF HeldAfter, OthersHold

\* The frames of a computer.
LEMMA FrameHeld ==
    ASSUME TypeOK, PlacementInv, SlotInv, NEW d \in Dispatch, NEW p \in Device, Frame(p, d)
    PROVE  HeldAfter(d, alarm'[d]) /\ OthersHold(d)
  <1>1. row[d] \in RowType /\ Held(row[d], running[d], handoff[d], start[d], alarm[d])
    BY DEF TypeOK, SlotInv
  <1>2. /\ "computer_claimed" \notin TerminalDispatchState
        /\ "computer_accepted" \notin TerminalDispatchState
        /\ "computer_running" \notin TerminalDispatchState
    BY DEF TerminalDispatchState
  <1>3. CASE HandleClaim(p, d)
    <2> DEFINE q == [row[d] EXCEPT !.state = "computer_claimed", !.exec = p,
                                   !.sess = presence[p].sess, !.lease = "live"]
    <2>1. Put(d, q) /\ UNCHANGED <<running, handoff, start, alarm>>
      BY <1>3 DEF HandleClaim
    <2>2. /\ q.kind = row[d].kind /\ q.gateHeld = row[d].gateHeld
          /\ q.attempts = row[d].attempts /\ q.placement = row[d].placement
          /\ q.payload = row[d].payload /\ q.state = "computer_claimed"
      BY <1>1 DEF RowType
    <2> HIDE DEF q
    <2> QED
      BY <1>2, <2>1, <2>2, PutHeld DEF IsTerminalDispatchState
  <1>4. CASE HandleRelease(p, d)
    <2> DEFINE r == [row[d] EXCEPT !.state = "offering", !.exec = NoDevice, !.sess = 0,
                                   !.lease = "none"]
    <2>1. r \in RowType
      BY <1>1, FrameRowUpdates
    <2>2. /\ r.kind = row[d].kind /\ r.gateHeld = row[d].gateHeld
          /\ r.attempts = row[d].attempts /\ r.placement = row[d].placement
          /\ r.payload = row[d].payload /\ r.state = "offering"
      BY <1>1 DEF RowType
    <2>3. ResolveUnaccepted(d, "frame", r) /\ UNCHANGED alarm
      BY <1>4 DEF HandleRelease
    <2> HIDE DEF r
    <2>4. /\ row[d].placement = "none" /\ start[d]["frame"] = Idle
          /\ alarm[d].branch # "retry"
      BY <1>4 DEF HandleRelease, PlacementInv, Placed, StateMatchesPlacement, StartedMeansCloud,
                  StaleAlarmIsHarmless, Caller
    <2>5. row[d].attempts = 0
      BY <1>1, <2>4 DEF Held, FirstOnly
    <2>6. Held(r, running[d], handoff[d], start[d], alarm[d])
      BY <1>1, <2>2, QuietHeld DEF IsTerminalDispatchState, TerminalDispatchState
    <2>7. HeldAfter(d, alarm[d]) /\ OthersHold(d)
      BY <2>1, <2>2, <2>3, <2>4, <2>5, <2>6, ResolveHeld DEF Caller
    <2> QED
      BY <2>3, <2>7
  <1>5. CASE HandleAck(p, d)
    <2> DEFINE q == [row[d] EXCEPT !.state = "computer_accepted",
                                   !.placement = "computer", !.payload = "none",
                                   !.lease = "live"]
    <2>1. Put(d, q) /\ UNCHANGED <<running, handoff, start, alarm>>
      BY <1>5 DEF HandleAck
    <2>2. /\ q.kind = row[d].kind /\ q.gateHeld = row[d].gateHeld
          /\ q.attempts = row[d].attempts /\ q.placement = "computer"
          /\ q.payload = "none" /\ q.state = "computer_accepted"
      BY <1>1 DEF RowType
    <2> HIDE DEF q
    <2> QED
      BY <1>2, <2>1, <2>2, PutHeld DEF IsTerminalDispatchState
  <1>6. CASE HandleRunning(p, d)
    <2> DEFINE q == [row[d] EXCEPT !.state = "computer_running", !.started = TRUE,
                                   !.lease = "live"]
    <2>1. Put(d, q) /\ UNCHANGED <<running, handoff, start, alarm>>
      BY <1>6 DEF HandleRunning
    <2>2. /\ q.kind = row[d].kind /\ q.gateHeld = row[d].gateHeld
          /\ q.attempts = row[d].attempts /\ q.placement = row[d].placement
          /\ q.payload = row[d].payload /\ q.state = "computer_running"
      BY <1>1 DEF RowType
    <2> HIDE DEF q
    <2> QED
      BY <1>2, <2>1, <2>2, PutHeld DEF IsTerminalDispatchState
  <1>7. CASE HandleRenew(p, d)
    <2> DEFINE st == IF row[d].state # "reconciliation_required" THEN row[d].state
                     ELSE IF row[d].started THEN "computer_running"
                     ELSE "computer_accepted"
               q == [row[d] EXCEPT !.state = st, !.lease = "live"]
    <2>1. Put(d, q) /\ UNCHANGED <<running, handoff, start, alarm>>
      BY <1>1, <1>7 DEF HandleRenew, RowType
    <2>2. st \in {row[d].state, "computer_running", "computer_accepted"}
      OBVIOUS
    <2> HIDE DEF st
    <2>3. /\ q.kind = row[d].kind /\ q.gateHeld = row[d].gateHeld
          /\ q.attempts = row[d].attempts /\ q.placement = row[d].placement
          /\ q.payload = row[d].payload /\ q.state = st
      BY <1>1 DEF RowType
    <2> HIDE DEF q
    <2>4. /\ IsTerminalDispatchState(q.state) => IsTerminalDispatchState(row[d].state)
          /\ q.state # "absent" \/ row[d].state = "absent"
      BY <1>2, <2>2, <2>3 DEF IsTerminalDispatchState
    <2> QED
      BY <2>1, <2>3, <2>4, PutHeld
  <1>8. CASE HandleComplete(p, d)
    <2>1. PICK outcome \in Outcome : PutAndReleaseGate(d, Settled(row[d], outcome), running)
      BY <1>8 DEF HandleComplete
    <2>2. outcome # "absent" /\ UNCHANGED <<handoff, start, alarm>>
      BY <1>8 DEF HandleComplete, Outcome
    <2> QED
      BY <2>1, <2>2, SettledHeld
  <1> QED
    BY <1>3, <1>4, <1>5, <1>6, <1>7, <1>8 DEF Frame

\* The fence, the slots, receipts, status reads and stops.
LEMMA SettleHeld ==
    ASSUME TypeOK, SlotInv, NEW d \in Dispatch,
           \/ FenceUnregister(d) \/ Release(d) \/ RecordCloudDispatchTerminal(d)
           \/ DispatchStatus(d) \/ CancelDispatch(d)
    PROVE  HeldAfter(d, alarm'[d]) /\ OthersHold(d)
  <1>1. /\ row[d] \in RowType /\ Held(row[d], running[d], handoff[d], start[d], alarm[d])
        /\ FreesOthers(d, running)
        /\ FreesOthers(d, Freed(d, running)) /\ Freed(d, running)[d] = "none"
    BY SlotUpdates DEF TypeOK, SlotInv
  <1>2. UNCHANGED <<start, alarm>>
    BY DEF FenceUnregister, Release, RecordCloudDispatchTerminal, DispatchStatus,
           CancelDispatch
  <1>3. CASE FenceUnregister(d)
    <2> DEFINE q == [row[d] EXCEPT !.gateHeld = FALSE]
    <2>1. /\ handoff[d] \in {"allocating", "registered"} /\ SetHandoff(d, "retired")
          /\ running' = Freed(d, running) /\ Put(d, q)
      BY <1>3 DEF FenceUnregister
    <2>2. /\ q.kind = row[d].kind /\ ~q.gateHeld /\ q.attempts = row[d].attempts
          /\ q.placement = row[d].placement /\ q.state = row[d].state
      BY <1>1 DEF RowType
    <2> HIDE DEF q
    <2>3. row[d].kind = "chat" /\ row[d].state # "absent"
      BY <1>1, <2>1 DEF Held, HandoffKept, RowType, Kind
    <2>4. Held(row[d], "none", "retired", start[d], alarm[d])
      BY <1>1, <2>3, RetiredHeld
    <2>5. SlotKept(q, "none", "retired", start[d])
      BY DEF SlotKept
    <2>6. HandoffKept(q, "none", "retired", start[d]) /\ FirstOnly(q, start[d], alarm[d])
      BY <2>2, <2>4 DEF Held, HandoffKept, FirstOnly
    <2>7. /\ row'[d] = q
          /\ handoff'[d] = "retired" /\ \A e \in Dispatch \ {d} : handoff'[e] = handoff[e]
      BY <2>1, PutRow, HandoffMoves
    <2> QED
      BY <1>1, <1>2, <2>1, <2>5, <2>6, <2>7 DEF Held, HeldAfter, OthersHold
  <1>4. CASE Release(d)
    <2>1. UNCHANGED <<row, handoff>> /\ running' = Freed(d, running)
      BY <1>4 DEF Release
    <2>2. Held(row[d], "none", handoff[d], start[d], alarm[d])
      BY <1>1, QuietHeld
    <2> QED
      BY <1>1, <1>2, <2>1, <2>2 DEF HeldAfter, OthersHold
  <1>5. CASE RecordCloudDispatchTerminal(d) \/ DispatchStatus(d)
    <2>1. UNCHANGED handoff
      BY <1>5 DEF RecordCloudDispatchTerminal, DispatchStatus
    <2>2. CASE UNCHANGED <<row, running>>
      BY <1>1, <1>2, <2>1, <2>2 DEF HeldAfter, OthersHold
    <2>3. ASSUME NEW o \in Outcome \cup {"none"},
                 PutAndReleaseGate(d, Settled(row[d], o), running)
          PROVE  HeldAfter(d, alarm'[d]) /\ OthersHold(d)
      <3>1. o # "absent"
        BY DEF Outcome
      <3> QED
        BY <1>2, <2>1, <2>3, <3>1, SettledHeld
    <2>4. receipt[d] \in Outcome \cup {"none"}
      BY DEF TypeOK
    <2> QED
      BY <1>5, <2>2, <2>3, <2>4 DEF RecordCloudDispatchTerminal, DispatchStatus
  <1>6. CASE CancelDispatch(d)
    <2> DEFINE stopped == [row[d] EXCEPT !.stop = TRUE]
               ended == [stopped EXCEPT !.state = "canceled", !.payload = "none",
                                        !.offerDl = "none", !.lease = "none",
                                        !.exec = NoDevice, !.sess = 0]
               q == [ended EXCEPT !.gateHeld = FALSE]
               w == [stopped EXCEPT !.state = "cancel_pending"]
    <2>1. UNCHANGED handoff
      BY <1>6 DEF CancelDispatch
    <2>2. /\ q.kind = row[d].kind /\ ~q.gateHeld /\ q.attempts = row[d].attempts
          /\ q.placement = row[d].placement /\ q.payload = "none" /\ q.state = "canceled"
      BY <1>1 DEF RowType
    <2>3. /\ w.kind = row[d].kind /\ w.gateHeld = row[d].gateHeld
          /\ w.attempts = row[d].attempts /\ w.placement = row[d].placement
          /\ w.payload = row[d].payload /\ w.state = "cancel_pending"
      BY <1>1 DEF RowType
    <2>4. ended.gateHeld = row[d].gateHeld
      BY <1>1 DEF RowType
    <2>5. PutAndReleaseGate(d, ended, running) \/ (Put(d, w) /\ UNCHANGED running)
      BY <1>6 DEF CancelDispatch
    <2> HIDE DEF ended
    <2>6. CASE PutAndReleaseGate(d, ended, running)
      <3>1. /\ row'[d] = q /\ running'[d] = IF row[d].gateHeld THEN "none" ELSE running[d]
            /\ FreesOthers(d, running')
        BY <1>1, <2>4, <2>6, ReleaseSlot
      <3> HIDE DEF q
      <3>2. Held(q, running'[d], handoff[d], start[d], alarm[d])
        BY <1>1, <2>2, <3>1, EndedHeld
      <3> QED
        BY <1>2, <2>1, <3>1, <3>2 DEF HeldAfter, OthersHold
    <2> HIDE DEF q, w
    <2>7. CASE Put(d, w) /\ UNCHANGED running
      <3>1. ~IsTerminalDispatchState(w.state)
        BY <2>3 DEF IsTerminalDispatchState, TerminalDispatchState
      <3> QED
        BY <1>2, <2>1, <2>3, <2>7, <3>1, PutHeld
    <2> QED
      BY <2>5, <2>6, <2>7
  <1> QED
    BY <1>3, <1>4, <1>5, <1>6

\* The alarm and the passage of time.
LEMMA AlarmHeld ==
    ASSUME TypeOK, PlacementInv, SlotInv, NEW d \in Dispatch, AlarmStep(d) \/ Lapse(d)
    PROVE  HeldAfter(d, alarm'[d]) /\ OthersHold(d)
  <1>1. /\ row[d] \in RowType /\ Held(row[d], running[d], handoff[d], start[d], alarm[d])
        /\ FreesOthers(d, running)
    BY SlotUpdates DEF TypeOK, SlotInv
  <1>2. alarm'[d].branch = "retry" => alarm[d].branch = "retry"
    BY DEF AlarmStep, Lapse, TypeOK, NotDue
  <1>3. ASSUME HeldAfter(d, alarm[d]) PROVE HeldAfter(d, alarm'[d])
    BY <1>2, <1>3, QuietHeld DEF HeldAfter
  <1>4. ASSUME AlarmStep(d) PROVE start[d]["alarm"] = Idle
    BY <1>1, <1>4 DEF AlarmStep, AlarmIdle, Held, FirstOnly, Caller
  <1>5. CASE AlarmStep(d) /\ AlarmUnaccepted(d)
    <2>1. row[d].state # "absent"
      BY <1>5 DEF AlarmUnaccepted, PlacementInv, Placed, StaleAlarmIsHarmless
    <2>2. HeldAfter(d, alarm[d]) /\ OthersHold(d)
      BY <1>1, <1>4, <1>5, <2>1, ResolveHeld DEF AlarmUnaccepted, Caller
    <2> QED
      BY <1>3, <2>2
  <1>6. CASE AlarmStep(d) /\ AlarmRetry(d)
    <2>1. row[d].placement = "cloud" /\ row[d].state # "absent"
      BY <1>6 DEF AlarmRetry, PlacementInv, Placed, StaleAlarmIsHarmless, StateMatchesPlacement
    <2>2. \A b \in Caller : start[d][b] = Idle
      BY <1>1, <1>4, <1>6 DEF AlarmRetry, Held, FirstOnly, Caller
    <2>3. RunCloudBranch(d, "alarm", row[d], alarm[d].payload, running)
      BY <1>6 DEF AlarmRetry
    <2>4. HeldAfter(d, alarm[d]) /\ OthersHold(d)
      BY <1>1, <2>1, <2>2, <2>3, BranchHeld DEF Caller
    <2> QED
      BY <1>3, <2>4
  <1>7. ASSUME NEW q, Put(d, q), UNCHANGED <<running, handoff, start>>,
               \/ q = [row[d] EXCEPT !.state = "reconciliation_required", !.lease = "none"]
               \/ q = [row[d] EXCEPT !.payload = "none"]
               \/ q = [row[d] EXCEPT !.offerDl = "lapsed"]
               \/ q = [row[d] EXCEPT !.lease = "lapsed"]
               \/ q = [row[d] EXCEPT !.retry = "lapsed"]
               \/ q = [row[d] EXCEPT !.payload = "lapsed"] /\ row[d].payload = "live"
        PROVE  HeldAfter(d, alarm'[d]) /\ OthersHold(d)
    <2>1. /\ q.kind = row[d].kind /\ q.gateHeld = row[d].gateHeld
          /\ q.attempts = row[d].attempts /\ q.placement = row[d].placement
          /\ row[d].payload = "none" => q.payload = "none"
          /\ q.state \in {row[d].state, "reconciliation_required"}
      BY <1>1, <1>7 DEF RowType
    <2>2. /\ IsTerminalDispatchState(q.state) => IsTerminalDispatchState(row[d].state)
          /\ q.state # "absent" \/ row[d].state = "absent"
      BY <2>1 DEF IsTerminalDispatchState, TerminalDispatchState
    <2> QED
      BY <1>2, <1>7, <2>1, <2>2, PutHeld
  <1>8. CASE AlarmStep(d) /\ (AlarmLease(d) \/ AlarmPayload(d))
    BY <1>7, <1>8 DEF AlarmLease, AlarmPayload
  <1>9. CASE Lapse(d)
    <2>1. UNCHANGED <<handoff, start, alarm>>
      BY <1>9 DEF Lapse
    <2>2. CASE LapseSlot(d)
      <3>1. /\ running[d] = "live" /\ UNCHANGED row
            /\ running' = [running EXCEPT ![d] = "lapsed"]
        BY <2>2 DEF LapseSlot
      <3>2. FreesOthers(d, running')
        BY <3>1 DEF FreesOthers, TypeOK, Deadline
      <3>3. Held(row[d], running'[d], handoff[d], start[d], alarm[d])
        BY <1>1, <3>1, QuietHeld
      <3> QED
        BY <2>1, <3>1, <3>2, <3>3 DEF HeldAfter, OthersHold
    <2> QED
      BY <1>7, <1>9, <2>1, <2>2 DEF Lapse, LapseOffer, LapseLease, LapseRetry, LapsePayload
  <1> QED
    BY <1>5, <1>6, <1>8, <1>9 DEF AlarmStep

\* A suspended start goes on under its number.
LEMMA FirstMoves ==
    ASSUME NEW r, NEW s, NEW a, FirstOnly(r, s, a), NEW c \in Caller, s[c].phase # "idle", NEW t,
           \A b \in Caller \ {c} : t[b] = s[b], t[c].attempt = s[c].attempt,
           t[c].phase # "idle"
    PROVE  FirstOnly(r, t, a)
  BY IdleAttempt DEF FirstOnly, Caller

\* The continuations of a start.
LEMMA ContinueHeld ==
    ASSUME TypeOK, PlacementInv, SlotInv, NEW d \in Dispatch, NEW c \in Caller, Continue(d, c)
    PROVE  HeldAfter(d, alarm'[d]) /\ OthersHold(d)
  <1> DEFINE r == row[d]
             n == running[d]
             h == handoff[d]
             s == start[d]
             a == alarm[d]
  <1>1. /\ r \in RowType /\ Held(r, n, h, s, a) /\ FreesOthers(d, running)
        /\ FreesOthers(d, Freed(d, running)) /\ Freed(d, running)[d] = "none"
    BY SlotUpdates DEF TypeOK, SlotInv
  <1>2. UNCHANGED alarm /\ s[c].phase # "idle"
    BY DEF Continue, ChatHold, ChatRegister, CloudAnswers, StartReplyOk, StartReplyRefused,
           StartLost
  <1>3. r.placement = "cloud" /\ r.state # "absent"
    BY <1>2, StartingIsCloud DEF PlacementInv, CloudRow
  <1>4. c \in {"submit", "frame"} => s[c].attempt = 1 /\ a.branch # "retry"
    BY <1>1, <1>2, IdleAttempt DEF Held, FirstOnly
  <1>5. s \in [Caller -> StartType]
    BY DEF TypeOK
  <1>6. ASSUME EndStart(d, c), Held(row'[d], running'[d], handoff'[d], s, a)
        PROVE  HeldAfter(d, alarm'[d])
    <2>1. start'[d][c] = Idle /\ \A b \in Caller \ {c} : start'[d][b] = s[b]
      BY <1>6, StartMoves
    <2> QED
      BY <1>2, <1>6, <2>1, StartEndsHeld DEF HeldAfter
  <1>7. ASSUME NEW phase, start' = [start EXCEPT ![d][c].phase = phase]
        PROVE  /\ start'[d][c].phase = phase /\ start'[d][c].attempt = s[c].attempt
               /\ \A b \in Caller \ {c} : start'[d][b] = s[b]
    BY <1>7 DEF TypeOK, StartType
  <1>8. CASE ChatHold(d, c)
    <2> DEFINE q == [r EXCEPT !.gateHeld = TRUE]
    <2>1. /\ s[c].phase = "admitting" /\ row'[d] = q /\ UNCHANGED <<running, handoff>>
          /\ start' = [start EXCEPT ![d][c].phase = "registering"]
      BY <1>8, PutRow DEF ChatHold
    <2>2. /\ q.kind = r.kind /\ q.gateHeld /\ q.attempts = r.attempts
          /\ q.placement = r.placement /\ q.state = r.state
      BY <1>1 DEF RowType
    <2> HIDE DEF q
    <2>3. /\ start'[d][c].phase = "registering" /\ start'[d][c].attempt = s[c].attempt
          /\ \A b \in Caller \ {c} : start'[d][b] = s[b]
      BY <1>7, <2>1
    <2> DEFINE t == start'[d]
    <2> HIDE DEF t
    <2>4. /\ t[c].phase = "registering" /\ t[c].attempt = s[c].attempt
          /\ \A b \in Caller \ {c} : t[b] = s[b]
      BY <2>3 DEF t
    <2> HIDE DEF r, n, h, s, a
    <2>5. SlotKept(q, n, h, t)
      BY <1>1, <2>2 DEF Held, SlotKept
    <2>6. HandoffKept(q, n, h, t)
      BY <1>1, <2>1, <2>2, <2>4 DEF Held, HandoffKept, Called
    <2>7. FirstOnly(r, t, a)
      BY <1>1, <1>2, <2>4, FirstMoves DEF Held
    <2>8. FirstOnly(q, t, a)
      BY <2>2, <2>7 DEF FirstOnly
    <2>9. Held(q, n, h, t, a)
      BY <2>5, <2>6, <2>8 DEF Held
    <2> QED
      BY <1>1, <1>2, <2>1, <2>9 DEF HeldAfter, OthersHold, t, n, h, a
  <1>9. CASE ChatRegister(d, c)
    <2>1. s[c].phase = "registering"
      BY <1>9 DEF ChatRegister
    <2>2. CASE /\ CloudRefusal(d, r, s[c].attempt, "refused", Freed(d, running))
               /\ EndStart(d, c)
               /\ UNCHANGED handoff
      <3>1. Held(r, Freed(d, running)[d], h, s, a)
        BY <1>1, QuietHeld
      <3>2. Held(row'[d], running'[d], h, s, a) /\ FreesOthers(d, running')
        BY <1>1, <1>3, <2>2, <3>1, RefusalHeld
      <3> QED
        BY <1>6, <2>2, <3>2 DEF OthersHold
    <2>3. CASE h # "retired" /\ SendAdmittedChat(d, c, r, s[c].attempt)
      <3>1. r.kind = "chat"
        BY <1>1, <2>1 DEF Held, HandoffKept
      <3>2. n # "none" => r.gateHeld
        BY <1>1, <2>1 DEF Held, SlotKept
      <3>3. HeldAfter(d, a) /\ OthersHold(d)
        BY <1>1, <1>3, <1>4, <2>3, <3>1, <3>2, SendHeld
      <3> QED
        BY <1>2, <3>3
    <2> QED
      BY <1>9, <2>2, <2>3 DEF ChatRegister
  <1>10. CASE CloudAnswers(d, c)
    <2>1. /\ s[c].phase = "sent" /\ UNCHANGED <<row, running, handoff>>
      BY <1>10 DEF CloudAnswers
    <2>2. PICK phase \in {"ok", "refused", "unavailable"} :
             start' = [start EXCEPT ![d][c].phase = phase]
      BY <1>10 DEF CloudAnswers
    <2> DEFINE t == start'[d]
    <2>3. /\ t[c].phase = phase /\ t[c].attempt = s[c].attempt
          /\ \A b \in Caller \ {c} : t[b] = s[b]
      BY <1>7, <2>2
    <2> HIDE DEF r, n, h, s, a, t
    <2>4. SlotKept(r, n, h, t)
      BY <1>1, <2>3 DEF Held, SlotKept
    <2>5. HandoffKept(r, n, h, t)
      BY <1>1, <2>1, <2>3 DEF Held, HandoffKept, Called
    <2>6. FirstOnly(r, t, a)
      BY <1>1, <1>2, <2>3, FirstMoves DEF Held
    <2>7. Held(r, n, h, t, a)
      BY <2>4, <2>5, <2>6 DEF Held
    <2> QED
      BY <1>1, <1>2, <2>1, <2>7 DEF HeldAfter, OthersHold, t, r, n, h, a
  <1>11. CASE StartReplyOk(d, c)
    <2>1. EndStart(d, c) /\ UNCHANGED handoff
      BY <1>11 DEF StartReplyOk
    <2> DEFINE q == CloudRunning(r)
               w == [q EXCEPT !.gateHeld = FALSE]
    <2>2. /\ q.kind = r.kind /\ q.gateHeld = r.gateHeld /\ q.attempts = r.attempts
          /\ q.placement = "cloud" /\ q.payload = "none" /\ q.state = "cloud_running"
      BY <1>1 DEF RowType, CloudRunning
    <2>3. /\ w.kind = r.kind /\ ~w.gateHeld /\ w.attempts = r.attempts
          /\ w.placement = "cloud" /\ w.payload = "none" /\ w.state = "cloud_running"
      BY <1>1 DEF RowType, CloudRunning
    <2>4. \/ UNCHANGED <<row, running>>
          \/ Put(d, q) /\ UNCHANGED running
          \/ PutAndReleaseGate(d, q, running)
      BY <1>11 DEF StartReplyOk
    <2> HIDE DEF q
    <2>5. CASE UNCHANGED <<row, running>>
      BY <1>1, <1>6, <2>1, <2>5 DEF OthersHold
    <2>6. CASE Put(d, q) /\ UNCHANGED running
      <3>1. ~IsTerminalDispatchState(q.state)
        BY <2>2 DEF IsTerminalDispatchState, TerminalDispatchState
      <3>2. Held(q, n, h, s, a)
        BY <1>1, <2>2, <3>1, QuietHeld
      <3>3. row'[d] = q
        BY <2>6, PutRow
      <3> QED
        BY <1>1, <1>6, <2>1, <2>6, <3>2, <3>3 DEF OthersHold
    <2>7. CASE PutAndReleaseGate(d, q, running)
      <3>1. /\ row'[d] = w /\ running'[d] = IF r.gateHeld THEN "none" ELSE n
            /\ FreesOthers(d, running')
        BY <1>1, <2>2, <2>7, ReleaseSlot
      <3> HIDE DEF w
      <3>2. Held(w, running'[d], h, s, a)
        BY <1>1, <2>3, <3>1, EndedHeld
      <3> QED
        BY <1>6, <2>1, <3>1, <3>2 DEF OthersHold
    <2> QED
      BY <2>4, <2>5, <2>6, <2>7
  <1>12. CASE StartReplyRefused(d, c)
    <2>1. /\ s[c].phase \in {"refused", "unavailable"} /\ EndStart(d, c)
          /\ CloudRefusal(d, r, s[c].attempt, s[c].phase, running)
      BY <1>12 DEF StartReplyRefused
    <2>2. /\ Held(row'[d], running'[d], h, s, a) /\ FreesOthers(d, running')
          /\ row'[d].kind = r.kind /\ row'[d].state # "absent"
          /\ s[c].phase = "refused" => /\ ~row'[d].gateHeld
                                       /\ running'[d] = IF r.gateHeld THEN "none" ELSE n
      <3>1. ASSUME NEW k, NEW status, CloudRefusal(d, r, k, status, running)
            PROVE  /\ Held(row'[d], running'[d], h, s, a) /\ FreesOthers(d, running')
                   /\ row'[d].kind = r.kind /\ row'[d].state # "absent"
                   /\ status = "refused" => /\ ~row'[d].gateHeld
                                            /\ running'[d] = IF r.gateHeld THEN "none" ELSE n
        <4>1. Held(r, running[d], h, s, a) /\ r \in RowType /\ r.state # "absent"
          BY <1>1, <1>3
        <4> HIDE DEF r, h, s, a
        <4> QED
          BY <1>1, <3>1, <4>1, RefusalHeld
      <3> HIDE DEF r, n, h, s, a
      <3> QED
        BY <2>1, <3>1
    <2>3. CASE handoff' = handoff
      BY <1>6, <2>1, <2>2, <2>3 DEF OthersHold
    <2>4. CASE /\ r.kind = "chat" /\ s[c].phase = "refused"
               /\ handoff' = [handoff EXCEPT ![d] = "retired"]
      <3>1. h \in {"registered", "retired"}
        BY <1>1, <2>4 DEF Held, HandoffKept, Called
      <3>2. running'[d] = "none"
        BY <1>1, <2>2, <2>4, <3>1 DEF Held, SlotKept
      <3>3. Held(row'[d], "none", "retired", s, a)
        BY <2>2, <2>4, RetiredHeld
      <3>4. handoff'[d] = "retired" /\ \A e \in Dispatch \ {d} : handoff'[e] = handoff[e]
        BY <2>4 DEF TypeOK
      <3> QED
        BY <1>6, <2>1, <2>2, <3>2, <3>3, <3>4 DEF OthersHold
    <2> QED
      BY <1>12, <2>3, <2>4 DEF StartReplyRefused
  <1>13. CASE StartLost(d, c)
    BY <1>1, <1>6, <1>13 DEF StartLost, OthersHold
  <1> QED
    BY <1>8, <1>9, <1>10, <1>11, <1>12, <1>13 DEF Continue

\* Every step keeps the slots of every dispatch accounted for.
LEMMA SlotStep ==
    ASSUME TypeOK, PlacementInv, AttemptsInv, SlotInv, [Next]_vars
    PROVE  SlotInv'
  <1>1. CASE UNCHANGED <<row, running, handoff, start, alarm>>
    BY <1>1 DEF SlotInv
  <1>2. CASE UNCHANGED vars
    BY <1>1, <1>2 DEF vars
  <1>3. ASSUME NEW d \in Dispatch,
               \/ Submit(d) \/ FenceUnregister(d) \/ Release(d)
               \/ RecordCloudDispatchTerminal(d) \/ DispatchStatus(d) \/ CancelDispatch(d)
               \/ AlarmStep(d) \/ Lapse(d)
               \/ \E p \in Device : Frame(p, d)
               \/ \E c \in Caller : Continue(d, c)
        PROVE  SlotInv'
    <2>1. StepOK(d)
      BY <1>3, SubmitStep, FrameStep, ContinueStep, SettleStep, CancelStep, AlarmStepOK,
         LapseStep
    <2>2. HeldAfter(d, alarm'[d]) /\ OthersHold(d)
      BY <1>3, SubmitHeld, FrameHeld, ContinueHeld, SettleHeld, AlarmHeld
    <2>3. ASSUME NEW e \in Dispatch \ {d}
          PROVE  Held(row'[e], running'[e], handoff'[e], start'[e], alarm'[e])
      <3>1. /\ row'[e] = row[e] /\ start'[e] = start[e] /\ alarm'[e] = alarm[e]
            /\ handoff'[e] = handoff[e]
            /\ running[e] = "none" => running'[e] = "none"
        BY <2>1, <2>2 DEF StepOK, OthersKept, OthersHold, FreesOthers
      <3>2. Held(row[e], running[e], handoff[e], start[e], alarm[e])
        BY DEF SlotInv
      <3> QED
        BY <3>1, <3>2, QuietHeld
    <2> QED
      BY <2>2, <2>3 DEF SlotInv, HeldAfter
  <1>4. CASE \E p \in Device : Connect(p) \/ Disconnect(p) \/ SetReady(p)
    BY <1>1, <1>4 DEF Connect, Disconnect, SetReady
  <1>5. CASE AlarmBegin
    <2> SUFFICES ASSUME NEW d \in Dispatch
                 PROVE  Held(row'[d], running'[d], handoff'[d], start'[d], alarm'[d])
      BY DEF SlotInv
    <2>1. /\ UNCHANGED <<row, running, handoff, start>>
          /\ alarm'[d].branch = LapsedBranch(row[d])
      BY <1>5 DEF AlarmBegin
    <2>2. Held(row[d], running[d], handoff[d], start[d], alarm[d])
      BY DEF SlotInv
    <2>3. ASSUME alarm'[d].branch = "retry"
          PROVE  start[d]["submit"] = Idle /\ start[d]["frame"] = Idle
      <3>1. row[d].retry # "none"
        BY <2>1, <2>3 DEF LapsedBranch
      <3>2. \A c \in Caller : start[d][c].attempt # 1
        BY <3>1 DEF AttemptsInv, Apart
      <3> QED
        BY <2>2, <3>2 DEF Held, FirstOnly, Caller
    <2>4. FirstOnly(row[d], start[d], alarm'[d])
      BY <2>2, <2>3 DEF Held, FirstOnly
    <2> QED
      BY <2>1, <2>2, <2>4 DEF Held
  <1>6. CASE AlarmEnd
    <2>1. /\ UNCHANGED <<row, running, handoff, start>>
          /\ \A d \in Dispatch : alarm'[d].branch = "none"
      BY <1>6 DEF AlarmEnd, NotDue
    <2>2. ASSUME NEW d \in Dispatch
          PROVE  Held(row'[d], running'[d], handoff'[d], start'[d], alarm'[d])
      BY <2>1, QuietHeld DEF SlotInv
    <2> QED
      BY <2>2 DEF SlotInv
  <1>7. CASE Evict
    <2> SUFFICES ASSUME NEW d \in Dispatch
                 PROVE  Held(row'[d], running'[d], handoff'[d], start'[d], alarm'[d])
      BY DEF SlotInv
    <2>1. /\ UNCHANGED <<row, running, handoff>>
          /\ \A c \in Caller : start'[d][c] = Idle
      BY <1>7 DEF Evict
    <2>2. Held(row[d], running[d], handoff[d], start[d], alarm[d])
      BY DEF SlotInv
    <2>3. SlotKept(row[d], running[d], handoff[d], start'[d])
      BY <2>1, <2>2, IdleAttempt DEF Held, SlotKept
    <2>4. HandoffKept(row[d], running[d], handoff[d], start'[d])
      BY <2>1, <2>2, IdleAttempt DEF Held, HandoffKept, Called
    <2>5. FirstOnly(row[d], start'[d], alarm'[d])
      BY <2>1, <2>2 DEF Held, FirstOnly, Caller
    <2> QED
      BY <2>1, <2>3, <2>4, <2>5 DEF Held
  <1> QED
    BY <1>2, <1>3, <1>4, <1>5, <1>6, <1>7 DEF Next

\* At the start no attempt is recorded.
LEMMA InitAttempts == Init => AttemptsInv
  <1> SUFFICES ASSUME Init, NEW d \in Dispatch PROVE Apart(row[d], start[d])
    BY DEF AttemptsInv
  <1>1. row[d] = NoRow /\ \A c \in Caller : start[d][c] = Idle
    BY DEF Init
  <1>2. NoRow.attempts = 0 /\ NoRow.retry = "none"
    BY DEF NoRow
  <1> QED
    BY <1>1, <1>2, IdleAttempt DEF Apart

\* The admission slot of a dispatch that has ended is free, unless its turn is
\* still being allocated (the fence frees that one): whatever ended it, a refused
\* start, a stop, a receipt, a computer or a lapsed deadline, in whatever order the
\* answers of its starts, the fence and a suspended alarm pass come back.
THEOREM SlotsAreGivenBack == Spec => []NoLeakedSlot
  <1>1. Init => SlotInv
    <2> SUFFICES ASSUME Init, NEW d \in Dispatch
                 PROVE  Held(row[d], running[d], handoff[d], start[d], alarm[d])
      BY DEF SlotInv
    <2>1. /\ row[d] = NoRow /\ running[d] = "none" /\ handoff[d] = "none"
          /\ \A c \in Caller : start[d][c] = Idle
      BY DEF Init
    <2>2. NoRow.attempts = 0
      BY DEF NoRow
    <2>3. SlotKept(row[d], running[d], handoff[d], start[d])
      BY <2>1, IdleAttempt DEF SlotKept
    <2>4. HandoffKept(row[d], running[d], handoff[d], start[d])
      BY <2>1, IdleAttempt DEF HandoffKept, Called
    <2>5. FirstOnly(row[d], start[d], alarm[d])
      BY <2>1, <2>2 DEF FirstOnly, Caller
    <2> QED
      BY <2>3, <2>4, <2>5 DEF Held
  <1>2. TypeOK /\ PlacementInv /\ AttemptsInv /\ [Next]_vars => AttemptsInv'
    BY AttemptsStep
  <1>3. TypeOK /\ PlacementInv /\ AttemptsInv /\ SlotInv /\ [Next]_vars => SlotInv'
    BY SlotStep
  <1>4. SlotInv => NoLeakedSlot
    BY DEF SlotInv, Held, SlotKept, NoLeakedSlot
  <1> QED
    BY <1>1, <1>2, <1>3, <1>4, InitAttempts, TypeCorrect, PlacementSafe, PTL DEF Spec

-----------------------------------------------------------------------------
(***************************************************************************)
(* Cloud starts.  Nothing but a decision that went stale while the alarm   *)
(* pass was suspended starts a dispatch twice or brings an ended chat      *)
(* back.  The code does not keep the decisions fresh (the run v_twice), so *)
(* the lemmas that assume it only serve the two theorems about an owner's  *)
(* only dispatch, whose decision cannot go stale.                          *)
(* r is the row of the dispatch, s its starts, n its executions.           *)
(***************************************************************************)

\* What the alarm decided about row r is still to be done.
StillDue(r, branch) ==
    /\ branch = "offer" => r.state = "offering"
    /\ branch = "claim" => r.state = "computer_claimed"
    /\ branch = "retry" => r.state = "cloud_committed" /\ r.retry # "none"
    /\ branch = "lease" => r.state \in LeasedState

\* A pass that is about to act on a row it selected finds it as it was decided.
FreshDecisions ==
    pass /\ AlarmIdle => \A d \in Dispatch : StillDue(row[d], alarm[d].branch)

\* At most one start is out, nothing has run until it is answered, and a retry is
\* recorded only when nothing is out and nothing has run.
Once(r, s, n) ==
    /\ n \in {0, 1}
    /\ \A c \in Caller : s[c].phase \notin {"idle", "ok"} => n = 0
    /\ \A b, c \in Caller : s[b] # Idle /\ s[c] # Idle => b = c
    /\ r.retry # "none" => n = 0 /\ \A c \in Caller : s[c] = Idle

StartsInv == \A d \in Dispatch : Once(row[d], start[d], runs[d])

\* A dispatch that has started nothing.
LEMMA UnstartedOnce ==
    ASSUME NEW r, NEW s, \A c \in Caller : s[c] = Idle
    PROVE  Once(r, s, 0)
  BY IdleAttempt DEF Once

\* Other columns change, or a recorded retry lapses or is forgotten.
LEMMA QuietOnce ==
    ASSUME NEW r, NEW s, NEW n, Once(r, s, n), NEW q, q.retry = "none" \/ r.retry # "none"
    PROVE  Once(q, s, n)
  BY DEF Once

\* The one start that is out begins or goes on.
LEMMA OneStartOnce ==
    ASSUME NEW r, r.retry = "none", NEW s, NEW c \in Caller,
           \A b \in Caller \ {c} : s[b] = Idle, s[c].phase # "ok"
    PROVE  Once(r, s, 0)
  BY IdleAttempt DEF Once

\* The one start that is out ends; it may record a retry if nothing has run.
LEMMA EndsOnce ==
    ASSUME NEW r, NEW s, NEW n, Once(r, s, n), NEW c \in Caller, s[c] # Idle,
           NEW t, t[c] = Idle, \A b \in Caller \ {c} : t[b] = s[b],
           NEW q, q.retry = "none" \/ n = 0
    PROVE  Once(q, t, n)
  <1>1. \A b \in Caller : t[b] = Idle
    BY DEF Once
  <1> QED
    BY <1>1, IdleAttempt DEF Once

\* runCloudBranch starts for its caller and for nobody else.
LEMMA BranchOthers ==
    ASSUME TypeOK, NEW d \in Dispatch, NEW c \in Caller, NEW r \in RowType, NEW payload,
           NEW slots, RunCloudBranch(d, c, r, payload, slots)
    PROVE  \A b \in Caller \ {c} : start'[d][b] = start[d][b]
  <1> DEFINE attempting == [r EXCEPT !.attempts = @ + 1, !.retry = "none"]
  <1>1. attempting \in RowType
    BY RowUpdates
  <1> HIDE DEF attempting
  <1>2. CASE UNCHANGED start
    BY <1>2
  <1>3. CASE StartCloudAgent(d, c, attempting, slots)
    BY <1>3, StartMoves DEF StartCloudAgent
  <1>4. CASE SendAdmittedChat(d, c, attempting, attempting.attempts)
    BY <1>1, <1>4, SendColumns
  <1>5. CASE StartCloudChat(d, c, attempting)
    BY <1>2, <1>4, <1>5, StartMoves DEF StartCloudChat
  <1> QED
    BY <1>2, <1>3, <1>5 DEF RunCloudBranch, attempting

\* So does resolveUnaccepted.
LEMMA ResolveOthers ==
    ASSUME TypeOK, NEW d \in Dispatch, NEW c \in Caller, NEW r \in RowType,
           ResolveUnaccepted(d, c, r)
    PROVE  \A b \in Caller \ {c} : start'[d][b] = start[d][b]
  BY CommittedRow, BranchOthers DEF ResolveUnaccepted

\* runCloudBranch on a dispatch that has started nothing.
LEMMA BranchOnce ==
    ASSUME TypeOK, NEW d \in Dispatch, NEW c \in Caller, NEW r \in RowType, NEW payload,
           NEW slots, RunCloudBranch(d, c, r, payload, slots),
           \A b \in Caller : start[d][b] = Idle
    PROVE  Once(row'[d], start'[d], 0)
  <1> DEFINE attempting == [r EXCEPT !.attempts = @ + 1, !.retry = "none"]
  <1>1. attempting \in RowType /\ attempting.retry = "none"
    <2>1. attempting \in RowType
      BY RowUpdates
    <2>2. attempting.retry = "none"
      BY DEF RowType
    <2> QED
      BY <2>1, <2>2
  <1> HIDE DEF attempting
  <1>2. CASE UNCHANGED start
    BY <1>2, UnstartedOnce
  <1>3. ASSUME NEW phase, phase # "ok", NEW k, SetStart(d, c, phase, k), Put(d, attempting)
        PROVE  Once(row'[d], start'[d], 0)
    <2>1. row'[d] = attempting /\ \A b \in Caller \ {c} : start'[d][b] = Idle
      BY <1>3, PutRow, StartMoves
    <2>2. start'[d][c] = [phase |-> phase, attempt |-> k]
      BY <1>3, StartMoves
    <2>3. start'[d][c].phase # "ok"
      BY <1>3, <2>2
    <2> QED
      BY <1>1, <2>1, <2>3, OneStartOnce
  <1>4. CASE StartCloudAgent(d, c, attempting, slots)
    BY <1>3, <1>4 DEF StartCloudAgent
  <1>5. CASE SendAdmittedChat(d, c, attempting, attempting.attempts)
    <2>1. /\ row'[d].retry = attempting.retry
          /\ \/ start'[d][c] = [phase |-> "sent", attempt |-> attempting.attempts]
             \/ start'[d][c] = Idle
          /\ \A b \in Caller \ {c} : start'[d][b] = start[d][b]
      BY <1>1, <1>5, SendColumns
    <2>2. start'[d][c].phase # "ok"
      BY <2>1, IdleAttempt
    <2> QED
      BY <1>1, <2>1, <2>2, OneStartOnce
  <1>6. CASE StartCloudChat(d, c, attempting)
    BY <1>2, <1>3, <1>5, <1>6 DEF StartCloudChat
  <1> QED
    BY <1>2, <1>4, <1>6 DEF RunCloudBranch, attempting

\* resolveUnaccepted on a dispatch that has started nothing.
LEMMA ResolveOnce ==
    ASSUME TypeOK, NEW d \in Dispatch, NEW c \in Caller, NEW r \in RowType,
           ResolveUnaccepted(d, c, r), \A b \in Caller : start[d][b] = Idle
    PROVE  Once(row'[d], start'[d], 0)
  <1>1. CASE RunCloudBranch(d, c, CloudCommitted(r), r.payload # "none", running)
    BY <1>1, CommittedRow, BranchOnce
  <1>2. CASE UNCHANGED start
    BY <1>2, UnstartedOnce
  <1> QED
    BY <1>1, <1>2 DEF ResolveUnaccepted

\* A dispatch placed nowhere has started nothing.
LEMMA UnplacedUnstarted ==
    ASSUME TypeOK, PlacementInv, NEW d \in Dispatch,
           row[d].state \in {"absent", "offering", "computer_claimed"}
    PROVE  runs[d] = 0 /\ \A c \in Caller : start[d][c] = Idle
  <1>1. ~(runs[d] > 0 \/ \E c \in Caller : start[d][c] # Idle)
    BY DEF PlacementInv, Placed, StateMatchesPlacement, StartedMeansCloud
  <1>2. runs[d] \in Nat
    BY DEF TypeOK
  <1> QED
    BY <1>1, <1>2

-----------------------------------------------------------------------------
(* The handlers.                                                           *)

\* submit() starts for itself at most.
LEMMA SubmitOnce ==
    ASSUME TypeOK, PlacementInv, NEW d \in Dispatch, Submit(d)
    PROVE  /\ Once(row'[d], start'[d], runs'[d])
           /\ \A b \in Caller \ {"submit"} : start'[d][b] = start[d][b]
  <1>1. PICK r, p, decision : r \in RowType /\ SubmitPlaced(d, decision, r, p)
    BY NewRowType DEF Submit
  <1>2. /\ row[d].state = "absent" /\ UNCHANGED runs
        /\ runs[d] = 0 /\ \A c \in Caller : start[d][c] = Idle
    BY UnplacedUnstarted DEF Submit
  <1>3. CASE UNCHANGED start
    BY <1>2, <1>3, UnstartedOnce
  <1>4. CASE SubmitToCloud(d, r)
    <2> DEFINE s == [r EXCEPT !.state = "cloud_committed", !.placement = "cloud",
                              !.lease = "live", !.payload = "live",
                              !.gateHeld = (r.kind = "agent")]
    <2>1. s \in RowType
      <3>1. \A b \in BOOLEAN :
              [r EXCEPT !.state = "cloud_committed", !.placement = "cloud",
                        !.lease = "live", !.payload = "live", !.gateHeld = b] \in RowType
        BY <1>1, NamedValues DEF RowType
      <3> QED
        BY <3>1
    <2>2. RunCloudBranch(d, "submit", s, TRUE, SubmitSlots(d, r))
      BY <1>4 DEF SubmitToCloud
    <2> HIDE DEF s
    <2> QED
      BY <1>2, <2>1, <2>2, BranchOnce, BranchOthers DEF Caller
  <1> QED
    BY <1>1, <1>3, <1>4 DEF SubmitPlaced, SubmitToRequester, SubmitOffer, SubmitBlocked

\* What a handler that starts nothing does to its row: a recorded retry stays
\* recorded and an ended dispatch stays ended.
QuietRow(r, q) ==
    /\ q.retry = r.retry \/ r.retry # "none"
    /\ IsTerminalDispatchState(r.state) => IsTerminalDispatchState(q.state)

\* The states of a dispatch that has not ended.
Unended == DispatchState \ TerminalDispatchState

\* The states a handler tests for are not those of an ended dispatch.
LEMMA UnendedStates ==
    /\ {"offering", "computer_claimed", "computer_accepted", "computer_running",
        "cloud_committed", "cancel_pending", "reconciliation_required"} \subseteq Unended
    /\ \A st \in Unended : ~IsTerminalDispatchState(st)
  BY DEF Unended, DispatchState, TerminalDispatchState, IsTerminalDispatchState

\* A computer's frame, unless it declines.
LEMMA FrameQuiet ==
    ASSUME TypeOK, NEW d \in Dispatch, NEW p \in Device, Frame(p, d), ~HandleRelease(p, d)
    PROVE  UNCHANGED <<start, runs>> /\ QuietRow(row[d], row'[d])
  <1>1. row[d] \in RowType
    BY DEF TypeOK
  <1>2. /\ UNCHANGED <<start, runs>>
        /\ row[d].state \in {"offering", "computer_claimed", "computer_accepted",
              "computer_running", "cancel_pending", "reconciliation_required"}
    BY DEF Frame, HandleClaim, HandleAck, HandleRunning, HandleRenew, HandleComplete,
           AcceptedState
  <1>3. ~IsTerminalDispatchState(row[d].state)
    BY <1>2, UnendedStates
  <1>4. ASSUME NEW q, Put(d, q), q.retry = row[d].retry
        PROVE  QuietRow(row[d], row'[d])
    BY <1>3, <1>4, PutRow DEF QuietRow
  <1>5. CASE HandleClaim(p, d)
    <2> DEFINE q == [row[d] EXCEPT !.state = "computer_claimed", !.exec = p,
                                   !.sess = presence[p].sess, !.lease = "live"]
    <2>1. Put(d, q)
      BY <1>5 DEF HandleClaim
    <2>2. q.retry = row[d].retry
      BY <1>1 DEF RowType
    <2> HIDE DEF q
    <2> QED
      BY <1>2, <1>4, <2>1, <2>2
  <1>6. CASE HandleAck(p, d)
    <2> DEFINE q == [row[d] EXCEPT !.state = "computer_accepted",
                                   !.placement = "computer", !.payload = "none",
                                   !.lease = "live"]
    <2>1. Put(d, q)
      BY <1>6 DEF HandleAck
    <2>2. q.retry = row[d].retry
      BY <1>1 DEF RowType
    <2> HIDE DEF q
    <2> QED
      BY <1>2, <1>4, <2>1, <2>2
  <1>7. CASE HandleRunning(p, d)
    <2> DEFINE q == [row[d] EXCEPT !.state = "computer_running", !.started = TRUE,
                                   !.lease = "live"]
    <2>1. Put(d, q)
      BY <1>7 DEF HandleRunning
    <2>2. q.retry = row[d].retry
      BY <1>1 DEF RowType
    <2> HIDE DEF q
    <2> QED
      BY <1>2, <1>4, <2>1, <2>2
  <1>8. CASE HandleRenew(p, d)
    <2> DEFINE st == IF row[d].state # "reconciliation_required" THEN row[d].state
                     ELSE IF row[d].started THEN "computer_running"
                     ELSE "computer_accepted"
               q == [row[d] EXCEPT !.state = st, !.lease = "live"]
    <2>1. Put(d, q)
      BY <1>1, <1>8 DEF HandleRenew, RowType
    <2> HIDE DEF st
    <2>2. q.retry = row[d].retry
      BY <1>1 DEF RowType
    <2> HIDE DEF q
    <2> QED
      BY <1>2, <1>4, <2>1, <2>2
  <1>9. CASE HandleComplete(p, d)
    <2>1. PICK o \in Outcome : PutAndReleaseGate(d, Settled(row[d], o), running)
      BY <1>9 DEF HandleComplete
    <2> DEFINE q == [Settled(row[d], o) EXCEPT !.gateHeld = FALSE]
    <2>2. Put(d, q)
      BY <2>1 DEF PutAndReleaseGate
    <2>3. q.retry = row[d].retry
      BY <1>1 DEF Settled, RowType
    <2> HIDE DEF q
    <2> QED
      BY <1>2, <1>4, <2>2, <2>3
  <1> QED
    BY <1>5, <1>6, <1>7, <1>8, <1>9 DEF Frame

\* The fence, the slots, receipts, status reads, stops and the passage of time.
LEMMA SettleQuiet ==
    ASSUME TypeOK, NEW d \in Dispatch,
           \/ FenceUnregister(d) \/ Release(d) \/ RecordCloudDispatchTerminal(d)
           \/ DispatchStatus(d) \/ CancelDispatch(d) \/ Lapse(d)
    PROVE  UNCHANGED <<start, runs>> /\ QuietRow(row[d], row'[d])
  <1>1. row[d] \in RowType /\ UNCHANGED <<start, runs>>
    BY DEF TypeOK, FenceUnregister, Release, RecordCloudDispatchTerminal, DispatchStatus,
           CancelDispatch, Lapse
  <1>2. ASSUME NEW q, Put(d, q), q.retry = row[d].retry \/ row[d].retry # "none",
               q.state = row[d].state \/ ~IsTerminalDispatchState(row[d].state)
        PROVE  QuietRow(row[d], row'[d])
    BY <1>2, PutRow DEF QuietRow
  <1>3. CASE UNCHANGED row
    BY <1>1, <1>3 DEF QuietRow
  <1>4. CASE FenceUnregister(d)
    <2> DEFINE q == [row[d] EXCEPT !.gateHeld = FALSE]
    <2>1. Put(d, q)
      BY <1>4 DEF FenceUnregister
    <2>2. q.retry = row[d].retry /\ q.state = row[d].state
      BY <1>1 DEF RowType
    <2> HIDE DEF q
    <2> QED
      BY <1>1, <1>2, <2>1, <2>2
  <1>5. ASSUME NEW o, PutAndReleaseGate(d, Settled(row[d], o), running), Receivable(d)
        PROVE  QuietRow(row[d], row'[d])
    <2> DEFINE q == [Settled(row[d], o) EXCEPT !.gateHeld = FALSE]
    <2>1. Put(d, q)
      BY <1>5 DEF PutAndReleaseGate
    <2>2. q.retry = row[d].retry
      BY <1>1 DEF Settled, RowType
    <2> HIDE DEF q
    <2> QED
      BY <1>2, <1>5, <2>1, <2>2 DEF Receivable
  <1>6. CASE CancelDispatch(d)
    <2> DEFINE stopped == [row[d] EXCEPT !.stop = TRUE]
               ended == [stopped EXCEPT !.state = "canceled", !.payload = "none",
                                        !.offerDl = "none", !.lease = "none",
                                        !.exec = NoDevice, !.sess = 0]
               q == [ended EXCEPT !.gateHeld = FALSE]
               w == [stopped EXCEPT !.state = "cancel_pending"]
    <2>1. q.retry = row[d].retry /\ w.retry = row[d].retry
      BY <1>1 DEF RowType
    <2>2. Put(d, q) \/ Put(d, w)
      BY <1>6 DEF CancelDispatch, PutAndReleaseGate
    <2>3. ~IsTerminalDispatchState(row[d].state)
      BY <1>6 DEF CancelDispatch
    <2> HIDE DEF q, w
    <2> QED
      BY <1>1, <1>2, <2>1, <2>2, <2>3
  <1>7. CASE Lapse(d)
    <2>1. ASSUME NEW q, Put(d, q),
                 \/ q = [row[d] EXCEPT !.offerDl = "lapsed"]
                 \/ q = [row[d] EXCEPT !.lease = "lapsed"]
                 \/ q = [row[d] EXCEPT !.payload = "lapsed"]
                 \/ q = [row[d] EXCEPT !.retry = "lapsed"] /\ row[d].retry = "live"
          PROVE  QuietRow(row[d], row'[d])
      <3>1. /\ q.state = row[d].state
            /\ q.retry = row[d].retry \/ row[d].retry # "none"
        BY <1>1, <2>1 DEF RowType
      <3> QED
        BY <1>2, <2>1, <3>1
    <2> QED
      BY <1>1, <1>3, <1>7, <2>1
         DEF Lapse, LapseOffer, LapseLease, LapseRetry, LapsePayload, LapseSlot
  <1> QED
    BY <1>1, <1>3, <1>4, <1>5, <1>6, <1>7
       DEF Release, RecordCloudDispatchTerminal, DispatchStatus

\* The continuations of the one start that is out.
LEMMA ContinueOnce ==
    ASSUME TypeOK, NEW d \in Dispatch, Once(row[d], start[d], runs[d]), NEW c \in Caller,
           Continue(d, c)
    PROVE  /\ Once(row'[d], start'[d], runs'[d])
           /\ \A b \in Caller \ {c} : start'[d][b] = start[d][b]
           /\ row[d].kind = "chat" /\ IsTerminalDispatchState(row[d].state)
                 => IsTerminalDispatchState(row'[d].state)
  <1> DEFINE r == row[d]
             s == start[d]
             n == runs[d]
  <1>1. r \in RowType /\ s \in [Caller -> StartType] /\ n \in Nat
    BY DEF TypeOK
  <1>2. s[c].phase # "idle" /\ s[c] # Idle
    BY IdleAttempt DEF Continue, ChatHold, ChatRegister, CloudAnswers, StartReplyOk,
                       StartReplyRefused, StartLost
  <1>3. /\ r.retry = "none" /\ \A b \in Caller \ {c} : s[b] = Idle
        /\ s[c].phase # "ok" => n = 0
    BY <1>2 DEF Once
  <1>4. ASSUME EndStart(d, c), UNCHANGED runs, row'[d].retry = "none" \/ s[c].phase # "ok"
        PROVE  /\ Once(row'[d], start'[d], runs'[d])
               /\ \A b \in Caller \ {c} : start'[d][b] = start[d][b]
    <2>1. start'[d][c] = Idle /\ \A b \in Caller \ {c} : start'[d][b] = s[b]
      BY <1>4, StartMoves
    <2> QED
      BY <1>2, <1>3, <1>4, <2>1, EndsOnce
  <1>5. ASSUME NEW phase, start' = [start EXCEPT ![d][c].phase = phase]
        PROVE  /\ start'[d][c].phase = phase
               /\ \A b \in Caller \ {c} : start'[d][b] = s[b]
    BY <1>5 DEF TypeOK, StartType
  <1>6. IsTerminalDispatchState("failed") /\ ~IsTerminalDispatchState("cloud_committed")
    BY DEF IsTerminalDispatchState, TerminalDispatchState
  <1>7. CASE ChatHold(d, c)
    <2>1. /\ s[c].phase = "admitting" /\ row'[d] = [r EXCEPT !.gateHeld = TRUE]
          /\ start' = [start EXCEPT ![d][c].phase = "registering"] /\ UNCHANGED runs
      BY <1>7, PutRow DEF ChatHold
    <2>2. row'[d].retry = "none" /\ row'[d].state = r.state
      BY <1>1, <1>3, <2>1 DEF RowType
    <2>3. start'[d][c].phase = "registering" /\ \A b \in Caller \ {c} : start'[d][b] = s[b]
      BY <1>5, <2>1
    <2>4. Once(row'[d], start'[d], 0)
      BY <1>3, <2>2, <2>3, OneStartOnce
    <2> QED
      BY <1>3, <2>1, <2>2, <2>3, <2>4
  <1>8. ASSUME NEW status, NEW slots, CloudRefusal(d, r, s[c].attempt, status, slots)
        PROVE  /\ row'[d].retry = "none" \/ status = "unavailable"
               /\ row'[d].state \in {"failed", r.state}
    <2>1. CASE /\ status = "unavailable"
               /\ Put(d, [r EXCEPT !.retry = "live", !.lease = "live"])
      <3>1. row'[d] = [r EXCEPT !.retry = "live", !.lease = "live"]
        BY <2>1, PutRow
      <3> QED
        BY <1>1, <2>1, <3>1 DEF RowType
    <2>2. CASE PutAndReleaseGate(d, Failed(r), slots)
      <3>1. row'[d] = [Failed(r) EXCEPT !.gateHeld = FALSE]
        BY <2>2, ReleaseRow
      <3> QED
        BY <1>1, <1>3, <3>1 DEF RowType, Failed
    <2> QED
      BY <1>8, <2>1, <2>2 DEF CloudRefusal
  <1>9. CASE ChatRegister(d, c)
    <2>1. UNCHANGED runs /\ s[c].phase = "registering"
      BY <1>9 DEF ChatRegister
    <2>2. CASE /\ CloudRefusal(d, r, s[c].attempt, "refused", Freed(d, running))
               /\ EndStart(d, c)
      BY <1>4, <1>6, <1>8, <2>1, <2>2
    <2>3. CASE SendAdmittedChat(d, c, r, s[c].attempt)
      <3>1. /\ row'[d].retry = r.retry /\ row'[d].state = r.state
            /\ \/ start'[d][c] = [phase |-> "sent", attempt |-> s[c].attempt]
               \/ start'[d][c] = Idle
            /\ \A b \in Caller \ {c} : start'[d][b] = s[b]
        BY <1>1, <2>3, SendColumns
      <3>2. start'[d][c].phase # "ok"
        BY <3>1, IdleAttempt
      <3>3. Once(row'[d], start'[d], 0)
        BY <1>3, <3>1, <3>2, OneStartOnce
      <3> QED
        BY <1>3, <2>1, <3>1, <3>3
    <2> QED
      BY <1>9, <2>2, <2>3 DEF ChatRegister
  <1>10. CASE CloudAnswers(d, c)
    <2>1. s[c].phase = "sent" /\ n = 0 /\ UNCHANGED row
      BY <1>3, <1>10 DEF CloudAnswers
    <2>2. CASE /\ start' = [start EXCEPT ![d][c].phase = "ok"]
               /\ runs' = [runs EXCEPT ![d] = IF row[d].kind = "chat" THEN 1 ELSE @ + 1]
      <3>1. runs'[d] = 1
        BY <2>1, <2>2 DEF TypeOK
      <3>2. start'[d][c].phase = "ok" /\ \A b \in Caller \ {c} : start'[d][b] = s[b]
        BY <1>5, <2>2
      <3>3. Once(row[d], start'[d], 1)
        BY <1>3, <3>2, IdleAttempt DEF Once
      <3> QED
        BY <2>1, <3>1, <3>2, <3>3
    <2>3. ASSUME NEW phase \in {"refused", "unavailable"}, UNCHANGED runs,
                 start' = [start EXCEPT ![d][c].phase = phase]
          PROVE  /\ Once(row'[d], start'[d], runs'[d])
                 /\ \A b \in Caller \ {c} : start'[d][b] = s[b]
      <3>1. start'[d][c].phase = phase /\ \A b \in Caller \ {c} : start'[d][b] = s[b]
        BY <1>5, <2>3
      <3>2. Once(row[d], start'[d], 0)
        BY <1>3, <3>1, OneStartOnce
      <3> QED
        BY <2>1, <2>3, <3>1, <3>2
    <2> QED
      BY <1>10, <2>1, <2>2, <2>3 DEF CloudAnswers
  <1>11. CASE StartReplyOk(d, c)
    <2>1. EndStart(d, c) /\ UNCHANGED runs
      BY <1>11 DEF StartReplyOk
    <2>2. CASE UNCHANGED row
      BY <1>3, <1>4, <2>1, <2>2
    <2>3. CASE /\ row'[d] \in {CloudRunning(r), [CloudRunning(r) EXCEPT !.gateHeld = FALSE]}
               /\ r.kind # "chat" \/ r.state = "cloud_committed"
      <3>1. row'[d].retry = "none"
        BY <1>1, <2>3 DEF CloudRunning, RowType
      <3> QED
        BY <1>4, <1>6, <2>1, <2>3, <3>1
    <2> QED
      BY <1>11, <2>2, <2>3, PutRow, ReleaseRow DEF StartReplyOk
  <1>12. CASE StartReplyRefused(d, c)
    <2>1. /\ EndStart(d, c) /\ UNCHANGED runs /\ s[c].phase # "ok"
          /\ CloudRefusal(d, r, s[c].attempt, s[c].phase, running)
      BY <1>12 DEF StartReplyRefused
    <2> QED
      BY <1>4, <1>6, <1>8, <2>1
  <1>13. CASE StartLost(d, c)
    BY <1>3, <1>4, <1>13 DEF StartLost
  <1> QED
    BY <1>7, <1>9, <1>10, <1>11, <1>12, <1>13 DEF Continue

\* A declined claim falls back before anything was started.
LEMMA DeclineOnce ==
    ASSUME TypeOK, PlacementInv, NEW d \in Dispatch, NEW p \in Device, HandleRelease(p, d)
    PROVE  /\ Once(row'[d], start'[d], runs'[d])
           /\ \A b \in Caller \ {"frame"} : start'[d][b] = start[d][b]
           /\ ~IsTerminalDispatchState(row[d].state)
  <1> DEFINE r == [row[d] EXCEPT !.state = "offering", !.exec = NoDevice, !.sess = 0,
                                 !.lease = "none"]
  <1>1. r \in RowType
    BY FrameRowUpdates DEF TypeOK
  <1>2. /\ row[d].state = "computer_claimed" /\ ResolveUnaccepted(d, "frame", r)
        /\ UNCHANGED runs
    BY DEF HandleRelease
  <1> HIDE DEF r
  <1>3. runs[d] = 0 /\ \A c \in Caller : start[d][c] = Idle
    BY <1>2, UnplacedUnstarted
  <1>4. ~IsTerminalDispatchState(row[d].state)
    BY <1>2, UnendedStates
  <1>5. Once(row'[d], start'[d], 0) /\ \A b \in Caller \ {"frame"} : start'[d][b] = start[d][b]
    BY <1>1, <1>2, <1>3, ResolveOnce, ResolveOthers DEF Caller
  <1> QED
    BY <1>2, <1>3, <1>4, <1>5

\* A fresh decision starts a dispatch that has started nothing, and is not about
\* one that has ended.
LEMMA AlarmOnce ==
    ASSUME TypeOK, PlacementInv, FreshDecisions, NEW d \in Dispatch,
           Once(row[d], start[d], runs[d]), AlarmStep(d)
    PROVE  /\ Once(row'[d], start'[d], runs'[d])
           /\ IsTerminalDispatchState(row[d].state) => IsTerminalDispatchState(row'[d].state)
  <1>1. row[d] \in RowType /\ UNCHANGED runs /\ StillDue(row[d], alarm[d].branch)
    BY DEF TypeOK, AlarmStep, FreshDecisions
  <1>2. CASE AlarmUnaccepted(d)
    <2>1. row[d].state \in {"offering", "computer_claimed"}
      BY <1>1, <1>2 DEF AlarmUnaccepted, StillDue
    <2>2. ~IsTerminalDispatchState(row[d].state)
      BY <2>1, UnendedStates
    <2>3. runs[d] = 0 /\ \A c \in Caller : start[d][c] = Idle
      BY <2>1, UnplacedUnstarted
    <2> QED
      BY <1>1, <1>2, <2>2, <2>3, ResolveOnce DEF AlarmUnaccepted, Caller
  <1>3. CASE AlarmRetry(d)
    <2>1. row[d].state = "cloud_committed" /\ row[d].retry # "none"
      BY <1>1, <1>3 DEF AlarmRetry, StillDue
    <2>2. ~IsTerminalDispatchState(row[d].state)
      BY <2>1, UnendedStates
    <2>3. runs[d] = 0 /\ \A c \in Caller : start[d][c] = Idle
      BY <2>1 DEF Once
    <2> QED
      BY <1>1, <1>3, <2>2, <2>3, BranchOnce DEF AlarmRetry, Caller
  <1>4. CASE AlarmLease(d)
    <2>1. /\ row[d].state \in LeasedState /\ UNCHANGED start
          /\ row'[d] = [row[d] EXCEPT !.state = "reconciliation_required", !.lease = "none"]
      BY <1>1, <1>4, PutRow DEF AlarmLease, StillDue
    <2>2. ~IsTerminalDispatchState(row[d].state)
      BY <2>1, UnendedStates DEF LeasedState
    <2>3. row'[d].retry = row[d].retry
      BY <1>1, <2>1 DEF RowType
    <2> QED
      BY <1>1, <2>1, <2>2, <2>3, QuietOnce
  <1>5. CASE AlarmPayload(d)
    <2>1. row'[d] = [row[d] EXCEPT !.payload = "none"] /\ UNCHANGED start
      BY <1>5, PutRow DEF AlarmPayload
    <2>2. row'[d].retry = row[d].retry /\ row'[d].state = row[d].state
      BY <1>1, <2>1 DEF RowType
    <2> QED
      BY <1>1, <2>1, <2>2, QuietOnce
  <1> QED
    BY <1>2, <1>3, <1>4, <1>5 DEF AlarmStep

\* What a step about dispatch d does to it while the decisions are fresh.
LEMMA DispatchOnce ==
    ASSUME TypeOK, PlacementInv, FreshDecisions, StartsInv, NEW d \in Dispatch,
           \/ Submit(d) \/ FenceUnregister(d) \/ Release(d)
           \/ RecordCloudDispatchTerminal(d) \/ DispatchStatus(d) \/ CancelDispatch(d)
           \/ AlarmStep(d) \/ Lapse(d)
           \/ \E p \in Device : Frame(p, d)
           \/ \E c \in Caller : Continue(d, c)
    PROVE  /\ Once(row'[d], start'[d], runs'[d])
           /\ row[d].kind = "chat" /\ IsTerminalDispatchState(row[d].state)
                 => IsTerminalDispatchState(row'[d].state)
  <1>1. Once(row[d], start[d], runs[d])
    BY DEF StartsInv
  <1>2. ASSUME UNCHANGED <<start, runs>>, QuietRow(row[d], row'[d])
        PROVE  /\ Once(row'[d], start'[d], runs'[d])
               /\ IsTerminalDispatchState(row[d].state) => IsTerminalDispatchState(row'[d].state)
    BY <1>1, <1>2, QuietOnce DEF QuietRow
  <1>3. CASE Submit(d)
    <2>1. ~IsTerminalDispatchState(row[d].state)
      BY <1>3 DEF Submit, IsTerminalDispatchState, TerminalDispatchState
    <2> QED
      BY <1>3, <2>1, SubmitOnce
  <1>4. CASE \/ FenceUnregister(d) \/ Release(d) \/ RecordCloudDispatchTerminal(d)
             \/ DispatchStatus(d) \/ CancelDispatch(d) \/ Lapse(d)
    BY <1>2, <1>4, SettleQuiet
  <1>5. CASE AlarmStep(d)
    BY <1>1, <1>5, AlarmOnce
  <1>6. CASE \E p \in Device : Frame(p, d)
    BY <1>2, <1>6, FrameQuiet, DeclineOnce
  <1>7. CASE \E c \in Caller : Continue(d, c)
    BY <1>1, <1>7, ContinueOnce
  <1> QED
    BY <1>3, <1>4, <1>5, <1>6, <1>7

\* Every step keeps the starts of every dispatch in order and no ended chat comes
\* back, while the decisions are fresh.
LEMMA StartsStep ==
    ASSUME TypeOK, PlacementInv, FreshDecisions, StartsInv, [Next]_vars
    PROVE  /\ StartsInv'
           /\ \A d \in Dispatch :
                 row[d].kind = "chat" /\ IsTerminalDispatchState(row[d].state)
                     => IsTerminalDispatchState(row'[d].state)
  <1>1. CASE UNCHANGED <<row, start, runs>>
    BY <1>1 DEF StartsInv
  <1>2. CASE UNCHANGED vars
    BY <1>1, <1>2 DEF vars
  <1>3. ASSUME NEW d \in Dispatch,
               \/ Submit(d) \/ FenceUnregister(d) \/ Release(d)
               \/ RecordCloudDispatchTerminal(d) \/ DispatchStatus(d) \/ CancelDispatch(d)
               \/ AlarmStep(d) \/ Lapse(d)
               \/ \E p \in Device : Frame(p, d)
               \/ \E c \in Caller : Continue(d, c)
        PROVE  /\ StartsInv'
               /\ \A e \in Dispatch :
                     row[e].kind = "chat" /\ IsTerminalDispatchState(row[e].state)
                         => IsTerminalDispatchState(row'[e].state)
    <2>1. StepOK(d)
      BY <1>3, SubmitStep, FrameStep, ContinueStep, SettleStep, CancelStep, AlarmStepOK,
         LapseStep
    <2>2. /\ Once(row'[d], start'[d], runs'[d])
          /\ row[d].kind = "chat" /\ IsTerminalDispatchState(row[d].state)
                => IsTerminalDispatchState(row'[d].state)
      BY <1>3, DispatchOnce
    <2>3. ASSUME NEW e \in Dispatch \ {d}
          PROVE  row'[e] = row[e] /\ start'[e] = start[e] /\ runs'[e] = runs[e]
      BY <2>1 DEF StepOK, OthersKept
    <2> QED
      BY <2>2, <2>3 DEF StartsInv
  <1>4. CASE \E p \in Device : Connect(p) \/ Disconnect(p) \/ SetReady(p)
    BY <1>1, <1>4 DEF Connect, Disconnect, SetReady
  <1>5. CASE AlarmBegin \/ AlarmEnd
    BY <1>1, <1>5 DEF AlarmBegin, AlarmEnd
  <1>6. CASE Evict
    <2>1. /\ UNCHANGED <<row, runs>>
          /\ \A d \in Dispatch, c \in Caller : start'[d][c] = Idle
      BY <1>6 DEF Evict
    <2>2. ASSUME NEW d \in Dispatch PROVE Once(row'[d], start'[d], runs'[d])
      BY <2>1, IdleAttempt DEF StartsInv, Once
    <2> QED
      BY <2>1, <2>2 DEF StartsInv
  <1> QED
    BY <1>2, <1>3, <1>4, <1>5, <1>6 DEF Next

\* At the start nothing is out.
LEMMA InitStarts == Init => StartsInv
  BY UnstartedOnce DEF Init, StartsInv

\* No dispatch is executed twice in the cloud as long as the alarm pass acts on
\* decisions that still hold: two starts of one dispatch need a decision the pass
\* took before it was suspended in another start and did not look at again.
LEMMA StartsOnceWhenFresh == Spec /\ []FreshDecisions => []CloudStartsOnce
  <1>1. TypeOK /\ PlacementInv /\ FreshDecisions /\ StartsInv /\ [Next]_vars => StartsInv'
    BY StartsStep
  <1>2. StartsInv => CloudStartsOnce
    <2> SUFFICES ASSUME StartsInv, NEW d \in Dispatch PROVE runs[d] <= 1
      BY DEF CloudStartsOnce
    <2>1. runs[d] \in {0, 1}
      BY DEF StartsInv, Once
    <2> QED
      BY <2>1
  <1> QED
    BY <1>1, <1>2, InitStarts, TypeCorrect, PlacementSafe, PTL DEF Spec

\* Under the same proviso a chat that has ended stays ended, whatever answer,
\* frame, receipt or alarm decision is still on its way.
LEMMA EndedChatsStayWhenFresh == Spec /\ []FreshDecisions => EndedChatStaysEnded
  <1>1. TypeOK /\ PlacementInv /\ FreshDecisions /\ StartsInv /\ [Next]_vars => StartsInv'
    BY StartsStep
  <1>2. TypeOK /\ PlacementInv /\ FreshDecisions /\ StartsInv /\ [Next]_vars
          => [\A d \in Dispatch :
                 row[d].kind = "chat" /\ IsTerminalDispatchState(row[d].state)
                     => IsTerminalDispatchState(row'[d].state)]_vars
    BY StartsStep
  <1> QED
    BY <1>1, <1>2, InitStarts, TypeCorrect, PlacementSafe, PTL DEF Spec, EndedChatStaysEnded

-----------------------------------------------------------------------------
(* The only dispatch of its owner.                                         *)

\* A pass is suspended in a start only after it has dealt with the decision that
\* led there; while it is not suspended no handler runs, so a decision that is
\* left is about the row as it was read.
Lone(d) ==
    /\ ~pass => start[d]["alarm"].phase = "idle"
    /\ start[d]["alarm"].phase # "idle" => alarm[d].branch = "none"
    /\ pass /\ start[d]["alarm"].phase = "idle" => StillDue(row[d], alarm[d].branch)

LoneInv == \A d \in Dispatch : Lone(d)

\* A handler runs between passes or while the pass is suspended.
LEMMA HandlerLone ==
    ASSUME NEW d \in Dispatch, \A e \in Dispatch : e = d, Lone(d), Free,
           UNCHANGED <<pass, alarm>>,
           start'[d]["alarm"].phase # "idle" => start[d]["alarm"].phase # "idle"
    PROVE  Lone(d)'
  <1>1. pass => start[d]["alarm"].phase # "idle"
    BY DEF Free
  <1>2. pass => alarm[d].branch = "none"
    BY <1>1 DEF Lone
  <1> QED
    BY <1>2 DEF Lone, StillDue

\* With one dispatch every step keeps the decisions fresh.
LEMMA LoneStep ==
    ASSUME TypeOK, PlacementInv, AttemptsInv, \A d, e \in Dispatch : d = e, LoneInv,
           [Next]_vars
    PROVE  LoneInv'
  <1> SUFFICES ASSUME NEW d \in Dispatch PROVE Lone(d)'
    BY DEF LoneInv
  <1>1. Lone(d) /\ \A e \in Dispatch : e = d
    BY DEF LoneInv
  <1>2. "alarm" \in Caller \ {"submit"} /\ "alarm" \in Caller \ {"frame"}
    BY DEF Caller
  <1>3. CASE UNCHANGED <<row, start, alarm, pass>>
    BY <1>1, <1>3 DEF Lone
  <1>4. CASE UNCHANGED vars
    BY <1>3, <1>4 DEF vars
  <1>5. CASE Submit(d)
    <2>1. Free /\ UNCHANGED <<pass, alarm>>
      BY <1>5 DEF Submit
    <2>2. start'[d]["alarm"] = start[d]["alarm"]
      BY <1>2, <1>5, SubmitOnce
    <2> QED
      BY <1>1, <2>1, <2>2, HandlerLone
  <1>6. CASE \/ FenceUnregister(d) \/ Release(d) \/ RecordCloudDispatchTerminal(d)
             \/ DispatchStatus(d) \/ CancelDispatch(d)
    <2>1. Free /\ UNCHANGED <<pass, alarm, start>>
      BY <1>6 DEF FenceUnregister, Release, RecordCloudDispatchTerminal, DispatchStatus,
                  CancelDispatch
    <2> QED
      BY <1>1, <2>1, HandlerLone
  <1>7. ASSUME NEW p \in Device, Frame(p, d) PROVE Lone(d)'
    <2>1. Free /\ UNCHANGED <<pass, alarm>>
      BY <1>7 DEF Frame, HandleClaim, HandleRelease, HandleAck, HandleRunning, HandleRenew,
                  HandleComplete
    <2>2. start'[d]["alarm"] = start[d]["alarm"]
      BY <1>2, <1>7, FrameQuiet, DeclineOnce
    <2> QED
      BY <1>1, <2>1, <2>2, HandlerLone
  <1>8. ASSUME NEW c \in Caller, Continue(d, c) PROVE Lone(d)'
    <2>1. /\ start[d][c].phase # "idle" /\ UNCHANGED <<pass, alarm>>
          /\ \A b \in Caller \ {c} : start'[d][b] = start[d][b]
      <3>1. start[d][c].phase # "idle" /\ UNCHANGED <<pass, alarm>>
        BY <1>8 DEF Continue, ChatHold, ChatRegister, CloudAnswers, StartReplyOk,
                    StartReplyRefused, StartLost
      <3>2. \A b \in Caller \ {c} : start'[d][b] = start[d][b]
        BY <1>8, ContinueApart DEF AttemptsInv
      <3> QED
        BY <3>1, <3>2
    <2>2. start'[d]["alarm"].phase # "idle" => start[d]["alarm"].phase # "idle"
      BY <1>2, <2>1
    <2>3. CASE Free
      BY <1>1, <2>1, <2>2, <2>3, HandlerLone
    <2>4. CASE CloudAnswers(d, c)
      <3>1. start'[d][c].phase # "idle" /\ UNCHANGED row
        <4>1. PICK phase \in {"ok", "refused", "unavailable"} :
                 start' = [start EXCEPT ![d][c].phase = phase]
          BY <2>4 DEF CloudAnswers
        <4>2. start'[d][c].phase = phase
          BY <4>1 DEF TypeOK, StartType
        <4> QED
          BY <2>4, <4>2 DEF CloudAnswers
      <3>2. start'[d]["alarm"].phase = "idle" => start[d]["alarm"].phase = "idle"
        BY <1>2, <2>1, <3>1
      <3> QED
        BY <1>1, <2>1, <2>2, <3>1, <3>2 DEF Lone
    <2> QED
      BY <1>8, <2>3, <2>4 DEF Continue, ChatHold, ChatRegister, StartReplyOk,
                              StartReplyRefused, StartLost
  <1>9. CASE AlarmStep(d)
    <2>1. pass /\ UNCHANGED pass /\ alarm'[d].branch = "none"
      BY <1>9 DEF AlarmStep, TypeOK, NotDue
    <2> QED
      BY <2>1 DEF Lone, StillDue
  <1>10. CASE Lapse(d)
    <2>1. UNCHANGED <<start, alarm, pass>> /\ row[d] \in RowType
      BY <1>10 DEF Lapse, TypeOK
    <2>2. /\ row'[d].state = row[d].state
          /\ row[d].retry # "none" => row'[d].retry # "none"
      <3>1. ASSUME NEW q, Put(d, q),
                   \/ q = [row[d] EXCEPT !.offerDl = "lapsed"]
                   \/ q = [row[d] EXCEPT !.lease = "lapsed"]
                   \/ q = [row[d] EXCEPT !.payload = "lapsed"]
                   \/ q = [row[d] EXCEPT !.retry = "lapsed"]
            PROVE  /\ row'[d].state = row[d].state
                   /\ row[d].retry # "none" => row'[d].retry # "none"
        <4>1. /\ q.state = row[d].state
              /\ row[d].retry # "none" => q.retry # "none"
          BY <2>1, <3>1 DEF RowType
        <4> QED
          BY <3>1, <4>1, PutRow
      <3>2. CASE UNCHANGED row
        BY <3>2
      <3> QED
        BY <1>10, <3>1, <3>2
           DEF Lapse, LapseOffer, LapseLease, LapseRetry, LapsePayload, LapseSlot
    <2> QED
      BY <1>1, <2>1, <2>2 DEF Lone, StillDue
  <1>11. CASE AlarmBegin
    <2>1. /\ ~pass /\ pass' /\ UNCHANGED <<row, start>>
          /\ alarm'[d].branch = LapsedBranch(row[d])
      BY <1>11 DEF AlarmBegin
    <2>2. StillDue(row[d], LapsedBranch(row[d]))
      BY DEF StillDue, LapsedBranch
    <2> QED
      BY <1>1, <2>1, <2>2 DEF Lone
  <1>12. CASE AlarmEnd \/ Evict
    <2>1. ~pass' /\ start'[d]["alarm"].phase = "idle"
      BY <1>2, <1>12, IdleAttempt DEF AlarmEnd, Evict, AlarmIdle
    <2> QED
      BY <2>1 DEF Lone
  <1>13. CASE \E p \in Device : Connect(p) \/ Disconnect(p) \/ SetReady(p)
    BY <1>3, <1>13 DEF Connect, Disconnect, SetReady
  <1> QED
    BY <1>1, <1>4, <1>5, <1>6, <1>7, <1>8, <1>9, <1>10, <1>11, <1>12, <1>13 DEF Next

\* An alarm pass over the only dispatch of an owner never acts on a decision that
\* went stale: it is suspended only in the start that decision led to.
LEMMA LonePassIsFresh == (\A d, e \in Dispatch : d = e) => (Spec => []FreshDecisions)
  <1> SUFFICES ASSUME \A d, e \in Dispatch : d = e PROVE Spec => []FreshDecisions
    OBVIOUS
  <1>1. Init => LoneInv
    <2> SUFFICES ASSUME Init, NEW d \in Dispatch PROVE Lone(d)
      BY DEF LoneInv
    <2>1. start[d]["alarm"] = Idle /\ ~pass
      BY DEF Init, Caller
    <2> QED
      BY <2>1, IdleAttempt DEF Lone
  <1>2. TypeOK /\ PlacementInv /\ AttemptsInv /\ [Next]_vars => AttemptsInv'
    BY AttemptsStep
  <1>3. TypeOK /\ PlacementInv /\ AttemptsInv /\ LoneInv /\ [Next]_vars => LoneInv'
    BY LoneStep
  <1>4. LoneInv => FreshDecisions
    BY DEF LoneInv, Lone, FreshDecisions, AlarmIdle
  <1> QED
    BY <1>1, <1>2, <1>3, <1>4, InitAttempts, TypeCorrect, PlacementSafe, PTL DEF Spec

\* The only dispatch of an owner is executed in the cloud at most once, whatever
\* is retried, lost, refused, stopped or evicted.
THEOREM LoneDispatchStartsOnce ==
    (\A d, e \in Dispatch : d = e) => (Spec => []CloudStartsOnce)
  BY LonePassIsFresh, StartsOnceWhenFresh, PTL

\* And once it is a chat that has ended, it stays ended.
THEOREM LoneChatStaysEnded ==
    (\A d, e \in Dispatch : d = e) => (Spec => EndedChatStaysEnded)
  BY LonePassIsFresh, EndedChatsStayWhenFresh, PTL

=============================================================================
