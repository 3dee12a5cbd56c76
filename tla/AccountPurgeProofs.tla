------------------------- MODULE AccountPurgeProofs -------------------------
(***************************************************************************)
(* Proofs about the reset and the deletion of an account, for any number   *)
(* of turns and activities, and any number of calls, failures and crashes. *)
(***************************************************************************)
EXTENDS AccountPurge, TLAPS

-----------------------------------------------------------------------------
(* Types.                                                                  *)

\* A lease in force has time left, and a pass about to begin knows its request.
TypeInv ==
    /\ TypeOK
    /\ \A h \in Holder : lease[h].state = "active" => lease[h].left \in 1 .. 2
    /\ \A p \in Pass : pass[p].step = "begin" => pass[p].request \in Nat

Op == [request : Nat, mode : PurgeMode]

\* A step that a begin may take, finished or not.
BeginSteps(op) ==
    BeginCommits(op) \/ BeginRejected(op) \/ BeginIncomplete(op) \/ BeginInterrupted(op)

LEMMA BegunTyped ==
    ASSUME TypeInv, NEW op \in Op
    PROVE  FenceBegun(op) \in FenceType
  <1>1. fence \in FenceType
    BY DEF TypeInv, TypeOK
  <1>2. CASE BeginDisposition(op) = "start"
    <2>1. /\ fence.gen + 1 \in Nat
          /\ op.mode \in PurgeMode /\ op.request \in Nat
      BY <1>1 DEF FenceType, Op
    <2>2. FenceBegun(op) = [fence EXCEPT !.state = "blocked", !.mode = op.mode,
                                         !.gen = @ + 1, !.begin = op.request]
      BY <1>2 DEF FenceBegun
    <2> QED
      BY <1>1, <2>1, <2>2 DEF FenceType
  <1>3. CASE BeginDisposition(op) # "start"
    BY <1>1, <1>3 DEF FenceBegun, FenceType, PurgeMode
  <1> QED
    BY <1>2, <1>3

LEMMA BeginTypes ==
    ASSUME TypeInv, NEW op \in Op, BeginSteps(op)
    PROVE  /\ fence' \in FenceType
           /\ grant' \in [Holder -> GrantState]
           /\ barrier' \in OperationType
           /\ lease' = lease
  <1> USE DEF BeginSteps
  <1>1. fence \in FenceType /\ barrier \in OperationType /\ grant \in [Holder -> GrantState]
    BY DEF TypeInv, TypeOK
  <1>2. ASSUME NEW deaf, RevokeAll(deaf) PROVE grant' \in [Holder -> GrantState]
    BY <1>1, <1>2 DEF RevokeAll, GrantState
  <1>3. grant' \in [Holder -> GrantState]
    BY <1>1, <1>2 DEF BeginCommits, BeginRejected, BeginIncomplete, BeginInterrupted
  <1>4. barrier' \in OperationType
    BY <1>1 DEF BeginCommits, BeginRejected, BeginIncomplete, BeginInterrupted,
                BarrierCompleted, OperationType, Op
  <1>5. lease' = lease
    BY DEF BeginCommits, BeginRejected, BeginIncomplete, BeginInterrupted
  <1>6. fence' \in FenceType
    BY <1>1, BegunTyped DEF BeginCommits, BeginRejected, BeginIncomplete, BeginInterrupted
  <1> QED
    BY <1>3, <1>4, <1>5, <1>6

LEMMA OperationTyped ==
    ASSUME TypeInv, NEW p \in Pass, pass[p].step = "begin"
    PROVE  Operation(p) \in Op
  BY DEF TypeInv, Operation, Op, PurgeMode

\* What a job that ends leaves.
LEMMA JobTypes ==
    ASSUME TypeInv, NEW p \in Pass, JobDone(p) \/ JobFailed(p)
    PROVE  /\ job' \in JobType
           /\ pass' = [pass EXCEPT ![p] = IdlePass]
  <1>1. job \in JobType /\ pass[p].job \in JobType
    BY DEF TypeInv, TypeOK, PassType
  <1>2. /\ job.on \in BOOLEAN /\ job.runAt \in Nat /\ job.attempts \in Nat
        /\ pass[p].job.attempts + 1 \in Nat /\ job.runAt + 1 \in Nat
    BY <1>1 DEF JobType
  <1>3. [job EXCEPT !.on = FALSE] \in JobType
    BY <1>1 DEF JobType
  <1>4. \A n \in Nat, m \in Nat : [job EXCEPT !.runAt = n, !.attempts = m] \in JobType
    BY <1>1 DEF JobType
  <1>5. CASE JobDone(p)
    BY <1>1, <1>3, <1>5 DEF JobDone
  <1>6. CASE JobFailed(p)
    BY <1>1, <1>2, <1>3, <1>4, <1>6 DEF JobFailed
  <1> QED
    BY <1>5, <1>6

LEMMA IdleTyped == IdlePass \in PassType
  BY DEF IdlePass, PassType, NoJob, JobType, NoRequest, NoGeneration

\* A pass that ends keeps the passes well typed and begins nothing.
LEMMA PassEnds ==
    ASSUME TypeInv, NEW p \in Pass, pass' = [pass EXCEPT ![p] = IdlePass]
    PROVE  /\ pass' \in [Pass -> PassType]
           /\ \A q \in Pass : pass'[q].step = "begin" => pass'[q].request \in Nat
  <1>1. pass' \in [Pass -> PassType]
    BY IdleTyped DEF TypeInv, TypeOK
  <1>2. \A q \in Pass : pass'[q] = IF q = p THEN IdlePass ELSE pass[q]
    BY DEF TypeInv, TypeOK
  <1> QED
    BY <1>1, <1>2 DEF TypeInv, IdlePass

\* So does a pass that moves on, if it knows what it begins.
LEMMA PassMoves ==
    ASSUME TypeInv, NEW p \in Pass, NEW s \in PassType, pass' = [pass EXCEPT ![p] = s],
           s.step = "begin" => s.request \in Nat
    PROVE  /\ pass' \in [Pass -> PassType]
           /\ \A q \in Pass : pass'[q].step = "begin" => pass'[q].request \in Nat
  <1>1. pass' \in [Pass -> PassType]
    BY DEF TypeInv, TypeOK
  <1>2. \A q \in Pass : pass'[q] = IF q = p THEN s ELSE pass[q]
    BY DEF TypeInv, TypeOK
  <1> QED
    BY <1>1, <1>2 DEF TypeInv

\* A fault counts up to its bound.
LEMMA FaultTyped ==
    ASSUME TypeInv, Fault \/ UNCHANGED faults
    PROVE  faults' \in 0 .. MaxFaults
  BY AccountAssumption DEF TypeInv, TypeOK, Fault


\* The steps that change neither the fence nor the holders.
LEMMA OwnerTypes ==
    ASSUME TypeInv, Reset \/ CloseOwner \/ BillingCloses
    PROVE  TypeInv'
  <1>1. owner \in OwnerType /\ owner.gen \in Nat /\ owner.gen + 1 \in Nat
    BY DEF TypeInv, TypeOK, OwnerType
  <1>2. job' \in JobType
    <2>1. job.runAt + 1 \in Nat
      BY DEF TypeInv, TypeOK, JobType
    <2>2. QED
      <3>1. [on |-> TRUE, runAt |-> job.runAt + 1, attempts |-> 0] \in JobType
        BY <2>1 DEF JobType
      <3>2. job \in JobType
        BY DEF TypeInv, TypeOK
      <3> QED
        BY <3>1, <3>2 DEF Reset, CloseOwner, BillingCloses, ScheduleJob
  <1>3. owner' \in OwnerType
    <2>1. CASE Reset
      <3>1. [mode |-> "reset", request |-> owner.gen + 1] \in
              [mode : {"reset", "delete"}, request : Nat] \cup {NoPurge}
        BY <1>1
      <3> QED
        BY <1>1, <2>1, <3>1 DEF Reset, OwnerType
    <2>2. CASE CloseOwner
      <3> DEFINE n == IF owner.purge = NoPurge THEN CloseRequest ELSE owner.purge.request
      <3>1. n \in Nat
        BY <1>1 DEF OwnerType, CloseRequest
      <3>2. [mode |-> "delete", request |-> n] \in
              [mode : {"reset", "delete"}, request : Nat] \cup {NoPurge}
        BY <3>1
      <3>3. owner' = [owner EXCEPT !.writable = FALSE, !.closed = TRUE,
                                   !.purge = [mode |-> "delete", request |-> n]]
        BY <2>2 DEF CloseOwner, Close
      <3> HIDE DEF n
      <3> QED
        BY <1>1, <3>2, <3>3 DEF OwnerType
    <2>3. CASE BillingCloses
      BY <1>1, <2>3 DEF BillingCloses
    <2> QED
      BY <2>1, <2>2, <2>3
  <1>4. /\ pass' \in [Pass -> PassType]
        /\ \A p \in Pass : pass'[p].step = "begin" => pass'[p].request \in Nat
    BY DEF TypeInv, TypeOK, Reset, CloseOwner, BillingCloses, PassType, Pass
  <1>5. closes' \in 0 .. MaxCloses
    BY AccountAssumption DEF TypeInv, TypeOK, Reset, CloseOwner, BillingCloses
  <1>6. faults' \in 0 .. MaxFaults
    BY FaultTyped DEF Reset, CloseOwner, BillingCloses
  <1>7. UNCHANGED <<fenceVars, holder, stored>>
    BY DEF Reset, CloseOwner, BillingCloses
  <1> QED
    BY <1>2, <1>3, <1>4, <1>5, <1>6, <1>7 DEF TypeInv, TypeOK, fenceVars

\* Steps of a pass that move it on without touching the fence.
LEMMA AdvanceTypes ==
    ASSUME TypeInv, NEW p \in Pass,
           TakeJob(p) \/ ReadPurge(p) \/ Quiesced(p) \/ PurgeStores(p)
    PROVE  TypeInv'
  <1>1. /\ pass[p] \in PassType /\ pass \in [Pass -> PassType] /\ job \in JobType
        /\ owner.purge # NoPurge => /\ owner.purge.mode \in {"reset", "delete"}
                                    /\ owner.purge.request \in Nat
    BY DEF TypeInv, TypeOK, OwnerType
  <1>2. /\ pass' \in [Pass -> PassType]
        /\ \A q \in Pass : pass'[q].step = "begin" => pass'[q].request \in Nat
    <2>1. CASE TakeJob(p)
      <3> DEFINE s == [pass[p] EXCEPT !.step = "run", !.job = job]
      <3>1. s \in PassType /\ s.step = "run"
        BY <1>1 DEF PassType
      <3>2. pass' = [pass EXCEPT ![p] = s]
        BY <1>1, <2>1 DEF TakeJob
      <3> QED
        BY <3>1, <3>2, PassMoves
    <2>2. CASE ReadPurge(p)
      <3> DEFINE s == [pass[p] EXCEPT !.step = "begin", !.mode = owner.purge.mode,
                                      !.request = owner.purge.request]
      <3>1. s \in PassType /\ s.request \in Nat
        BY <1>1, <2>2 DEF PassType, ReadPurge
      <3>2. pass' = [pass EXCEPT ![p] = s]
        BY <1>1, <2>2 DEF ReadPurge
      <3> QED
        BY <3>1, <3>2, PassMoves
    <2>3. ASSUME NEW t \in {"purge", "release", "finish"},
                 pass' = [pass EXCEPT ![p].step = t]
          PROVE  /\ pass' \in [Pass -> PassType]
                 /\ \A q \in Pass : pass'[q].step = "begin" => pass'[q].request \in Nat
      <3> DEFINE s == [pass[p] EXCEPT !.step = t]
      <3>1. s \in PassType /\ s.step = t
        BY <1>1 DEF PassType
      <3>2. pass' = [pass EXCEPT ![p] = s]
        BY <1>1, <2>3
      <3> QED
        BY <3>1, <3>2, PassMoves
    <2> QED
      BY <2>1, <2>2, <2>3 DEF Quiesced, PurgeStores
  <1>3. /\ UNCHANGED <<fenceVars, owner, job, holder, closes, faults>>
        /\ stored' \subseteq Bytes
    BY DEF TakeJob, ReadPurge, Quiesced, PurgeStores, TypeInv, TypeOK
  <1> QED
    BY <1>2, <1>3 DEF TypeInv, TypeOK, fenceVars

\* Steps of a pass that end it.
LEMMA EndTypes ==
    ASSUME TypeInv, NEW p \in Pass,
           \/ NoneDue(p) \/ NothingToPurge(p) \/ QuiesceTimesOut(p)
           \/ PurgePending(p) \/ ReleaseRefused(p) \/ Finish(p)
    PROVE  TypeInv'
  <1>1. job' \in JobType /\ pass' = [pass EXCEPT ![p] = IdlePass]
    BY JobTypes DEF NoneDue, NothingToPurge, QuiesceTimesOut, PurgePending, ReleaseRefused,
                    Finish, TypeInv, TypeOK
  <1>2. faults' \in 0 .. MaxFaults
    BY FaultTyped DEF NoneDue, NothingToPurge, QuiesceTimesOut, PurgePending, ReleaseRefused,
                      Finish
  <1>3. owner' \in OwnerType
    <2>1. CASE Finish(p)
      <3>1. owner \in OwnerType /\ NoPurge \in {NoPurge}
        BY DEF TypeInv, TypeOK
      <3>2. \A b \in BOOLEAN : [owner EXCEPT !.purge = NoPurge, !.writable = b] \in OwnerType
        BY <3>1 DEF OwnerType
      <3>3. (pass[p].mode = "reset") \in BOOLEAN
        OBVIOUS
      <3> QED
        BY <2>1, <3>1, <3>2, <3>3 DEF Finish
    <2>2. CASE ~Finish(p)
      BY <2>2 DEF NoneDue, NothingToPurge, QuiesceTimesOut, PurgePending, ReleaseRefused,
                  TypeInv, TypeOK
    <2> QED
      BY <2>1, <2>2
  <1>4. stored' \subseteq Bytes
    <2>1. CASE PurgePending(p)
      BY <2>1 DEF PurgePending, TypeInv, TypeOK
    <2>2. CASE ~PurgePending(p)
      BY <2>2 DEF NoneDue, NothingToPurge, QuiesceTimesOut, ReleaseRefused, Finish,
                  TypeInv, TypeOK
    <2> QED
      BY <2>1, <2>2
  <1>5. UNCHANGED <<fenceVars, holder, closes>>
    BY DEF NoneDue, NothingToPurge, QuiesceTimesOut, PurgePending, ReleaseRefused, Finish
  <1> QED
    BY <1>1, <1>2, <1>3, <1>4, <1>5, PassEnds DEF TypeInv, TypeOK, fenceVars

\* Steps of a pass that call the fence.
LEMMA FenceTypes ==
    ASSUME TypeInv, NEW p \in Pass, Begin(p) \/ BeginFails(p) \/ Release(p)
    PROVE  TypeInv'
  <1>1. CASE Begin(p)
    <2>1. Operation(p) \in Op
      BY <1>1, OperationTyped DEF Begin
    <2>2. /\ fence' \in FenceType /\ grant' \in [Holder -> GrantState]
          /\ barrier' \in OperationType /\ lease' = lease
      BY <1>1, <2>1, BeginTypes DEF Begin, BeginSteps
    <2>3. fence'.gen \in Nat
      BY <2>2 DEF FenceType
    <2>4. /\ pass' \in [Pass -> PassType]
          /\ \A q \in Pass : pass'[q].step = "begin" => pass'[q].request \in Nat
      <3> DEFINE s == [pass[p] EXCEPT !.step = "quiesce", !.gen = fence'.gen]
      <3>1. s \in PassType /\ s.step = "quiesce"
        BY <2>3 DEF TypeInv, TypeOK, PassType
      <3>2. pass' = [pass EXCEPT ![p] = s]
        BY <1>1 DEF Begin, TypeInv, TypeOK
      <3> QED
        BY <3>1, <3>2, PassMoves
    <2> QED
      BY <1>1, <2>2, <2>4 DEF Begin, TypeInv, TypeOK
  <1>2. CASE BeginFails(p)
    <2>1. Operation(p) \in Op
      BY <1>2, OperationTyped DEF BeginFails
    <2>2. /\ fence' \in FenceType /\ grant' \in [Holder -> GrantState]
          /\ barrier' \in OperationType /\ lease' = lease
      BY <1>2, <2>1, BeginTypes DEF BeginFails, BeginSteps, fenceVars, TypeInv, TypeOK
    <2>3. faults' \in 0 .. MaxFaults
      BY <1>2, FaultTyped DEF BeginFails
    <2>4. job' \in JobType /\ pass' = [pass EXCEPT ![p] = IdlePass]
      BY <1>2, JobTypes DEF BeginFails
    <2> QED
      BY <1>2, <2>2, <2>3, <2>4, PassEnds DEF BeginFails, TypeInv, TypeOK
  <1>3. CASE Release(p)
    <2>1. fence \in FenceType /\ fence.gen + 1 \in Nat /\ fence.gen \in Nat
      BY DEF TypeInv, TypeOK, FenceType
    <2>2. fence' \in FenceType
      BY <1>3, <2>1 DEF Release, ReleaseFence, FenceType, NoRequest
    <2>3. /\ pass' \in [Pass -> PassType]
          /\ \A q \in Pass : pass'[q].step = "begin" => pass'[q].request \in Nat
      <3>1. pass[p] \in PassType
        BY DEF TypeInv, TypeOK
      <3>2. [pass[p] EXCEPT !.step = "finish"] \in PassType
        BY <3>1 DEF PassType
      <3>3. pass' = [pass EXCEPT ![p] = [pass[p] EXCEPT !.step = "finish"]]
        BY <1>3 DEF Release
      <3>4. [pass[p] EXCEPT !.step = "finish"].step = "finish"
        BY <3>1 DEF PassType
      <3> QED
        BY <3>2, <3>3, <3>4, PassMoves
    <2> QED
      BY <1>3, <2>2, <2>3 DEF Release, TypeInv, TypeOK
  <1> QED
    BY <1>1, <1>2, <1>3

\* The loss of the object leaves the fence alone or inside one begin.
LEMMA LostBegin ==
    ASSUME TypeInv, GateCrashes
    PROVE  UNCHANGED fenceVars \/ \E op \in Op : BeginInterrupted(op)
  <1>1. barrier # NoOperation => barrier \in Op
    BY DEF TypeInv, TypeOK, OperationType, Op
  <1>2. \A p \in Pass : pass[p].step = "begin" => Operation(p) \in Op
    BY OperationTyped
  <1> QED
    BY <1>1, <1>2 DEF GateCrashes

LEMMA AlarmTypes ==
    ASSUME TypeInv, AlarmFires \/ GateCrashes
    PROVE  TypeInv'
  <1>1. CASE AlarmFires
    <2>1. /\ fence' \in FenceType /\ grant' \in [Holder -> GrantState]
          /\ barrier' \in OperationType /\ lease' = lease
      <3>1. CASE barrier = NoOperation
        BY <1>1, <3>1 DEF AlarmFires, fenceVars, TypeInv, TypeOK
      <3>2. CASE barrier # NoOperation
        <4>1. barrier \in Op
          BY <3>2 DEF TypeInv, TypeOK, OperationType, Op
        <4> QED
          BY <1>1, <3>2, <4>1, BeginTypes DEF AlarmFires, BeginSteps
      <3> QED
        BY <3>1, <3>2
    <2>2. faults' \in 0 .. MaxFaults
      BY <1>1, FaultTyped DEF AlarmFires
    <2>3. /\ pass' \in [Pass -> PassType]
          /\ \A q \in Pass : pass'[q].step = "begin" => pass'[q].request \in Nat
      BY <1>1 DEF AlarmFires, TypeInv, TypeOK, PassType, Pass
    <2> QED
      BY <1>1, <2>1, <2>2, <2>3 DEF AlarmFires, TypeInv, TypeOK
  <1>2. CASE GateCrashes
    <2>1. /\ fence' \in FenceType /\ grant' \in [Holder -> GrantState]
          /\ barrier' \in OperationType /\ lease' = lease
      <3>1. CASE UNCHANGED fenceVars
        BY <3>1 DEF fenceVars, TypeInv, TypeOK
      <3>2. ASSUME ~UNCHANGED fenceVars PROVE \E op \in Op : BeginInterrupted(op)
        BY <1>2, <3>2, LostBegin
      <3> QED
        BY <3>1, <3>2, BeginTypes DEF BeginSteps
    <2>2. /\ pass' \in [Pass -> PassType]
          /\ \A q \in Pass : pass'[q].step = "begin" => pass'[q].request \in Nat
      <3>1. \A q \in Pass : pass'[q] = IdlePass
        BY <1>2 DEF GateCrashes
      <3>2. pass' \in [Pass -> PassType]
        BY <1>2, IdleTyped DEF GateCrashes
      <3> QED
        BY <3>1, <3>2 DEF IdlePass
    <2>3. faults' \in 0 .. MaxFaults
      BY <1>2, FaultTyped DEF GateCrashes
    <2> QED
      BY <1>2, <2>1, <2>2, <2>3 DEF GateCrashes, TypeInv, TypeOK
  <1> QED
    BY <1>1, <1>2

LeaseInForce(l) == l.state = "active" => l.left \in 1 .. 2

\* Writing a lease that is typed, and in force only with time left.
LEMMA LeaseMoves ==
    ASSUME TypeInv, NEW h \in Holder, NEW l \in LeaseType, LeaseInForce(l),
           lease' = [lease EXCEPT ![h] = l]
    PROVE  /\ lease' \in [Holder -> LeaseType]
           /\ \A g \in Holder : lease'[g].state = "active" => lease'[g].left \in 1 .. 2
  <1>1. lease' \in [Holder -> LeaseType]
    BY DEF TypeInv, TypeOK
  <1>2. \A g \in Holder : lease'[g] = IF g = h THEN l ELSE lease[g]
    BY DEF TypeInv, TypeOK
  <1> QED
    BY <1>1, <1>2 DEF TypeInv, LeaseInForce

LEMMA AgedLease ==
    ASSUME NEW x \in LeaseType, x.left \in 1 .. 2
    PROVE  LET l == [x EXCEPT !.left = @ - 1, !.state = IF x.left = 1 THEN "retired" ELSE @]
           IN  l \in LeaseType /\ (l.state = "active" => l.left \in 1 .. 2)
  <1>1. ASSUME NEW n \in 0 .. 2, NEW t \in {"none", "active", "retired"}
        PROVE  [x EXCEPT !.left = n, !.state = t] \in LeaseType
    BY DEF LeaseType
  <1>2. x.left = 1 \/ x.left = 2
    OBVIOUS
  <1>3. x.left - 1 \in 0 .. 2 /\ x.state \in {"none", "active", "retired"}
    BY DEF LeaseType
  <1>4. [x EXCEPT !.left = @ - 1, !.state = IF x.left = 1 THEN "retired" ELSE @] \in LeaseType
    BY <1>1, <1>3
  <1>5. x = [state |-> x.state, left |-> x.left, owner |-> x.owner, gen |-> x.gen]
    BY DEF LeaseType
  <1> QED
    BY <1>2, <1>3, <1>4, <1>5

LEMMA LeaseCalls ==
    ASSUME TypeInv, NEW h \in Holder, NEW n \in Nat,
           RegisterLease(h, n) \/ AssertLease(h) \/ UnregisterLease(h) \/ LeaseAges(h)
    PROVE  /\ lease' \in [Holder -> LeaseType]
           /\ \A g \in Holder : lease'[g].state = "active" => lease'[g].left \in 1 .. 2
  <1>1. /\ lease \in [Holder -> LeaseType] /\ lease[h] \in LeaseType
        /\ fence.gen \in Nat
        /\ lease[h].state = "active" => lease[h].left \in 1 .. 2
    BY DEF TypeInv, TypeOK, FenceType
  <1>2. CASE RegisterLease(h, n)
    <2> DEFINE l == [state |-> "active", left |-> 2, owner |-> n, gen |-> fence.gen]
    <2>1. l \in LeaseType /\ LeaseInForce(l)
      BY <1>1 DEF LeaseType, LeaseInForce
    <2>2. lease' = [lease EXCEPT ![h] = l]
      BY <1>2 DEF RegisterLease
    <2> QED
      BY <2>1, <2>2, LeaseMoves
  <1>3. CASE AssertLease(h)
    <2> DEFINE l == [lease[h] EXCEPT !.left = 2]
    <2>1. l \in LeaseType /\ LeaseInForce(l)
      BY <1>1 DEF LeaseType, LeaseInForce
    <2>2. lease' = [lease EXCEPT ![h] = l]
      BY <1>1, <1>3 DEF AssertLease
    <2> QED
      BY <2>1, <2>2, LeaseMoves
  <1>4. CASE UnregisterLease(h)
    <2> DEFINE l == [lease[h] EXCEPT !.state = IF @ = "active" THEN "retired" ELSE @]
    <2>1. l \in LeaseType /\ LeaseInForce(l)
      BY <1>1 DEF LeaseType, LeaseInForce
    <2>2. lease' = [lease EXCEPT ![h] = l]
      BY <1>1, <1>4 DEF UnregisterLease
    <2> QED
      BY <2>1, <2>2, LeaseMoves
  <1>5. CASE LeaseAges(h)
    <2> DEFINE l == [lease[h] EXCEPT !.left = @ - 1,
                                     !.state = IF lease[h].left = 1 THEN "retired" ELSE @]
    <2>1. lease[h].left \in 1 .. 2 /\ lease[h].left - 1 \in 0 .. 2
      BY <1>1, <1>5 DEF LeaseAges
    <2>2. l \in LeaseType /\ LeaseInForce(l)
      BY <1>1, <2>1, AgedLease DEF LeaseInForce
    <2>3. lease' = [lease EXCEPT ![h] = l]
      BY <1>1, <1>5 DEF LeaseAges
    <2> QED
      BY <2>2, <2>3, LeaseMoves
  <1> QED
    BY <1>2, <1>3, <1>4, <1>5

LEMMA HolderTypes ==
    ASSUME TypeInv, NEW h \in Holder, HolderSteps(h) \/ \E p \in Pass : CancelTurn(p, h)
    PROVE  TypeInv'
  <1>1. /\ holder \in [Holder -> [step : HolderStep, gen : Nat]] /\ holder[h].gen \in Nat
        /\ owner.gen \in Nat /\ stored \subseteq Bytes
        /\ lease \in [Holder -> LeaseType] /\ grant \in [Holder -> GrantState]
    BY DEF TypeInv, TypeOK, OwnerType
  <1>2. holder' \in [Holder -> [step : HolderStep, gen : Nat]]
    <2>1. \A t \in HolderStep : [holder EXCEPT ![h].step = t]
            \in [Holder -> [step : HolderStep, gen : Nat]]
      BY <1>1
    <2>2. \A t \in HolderStep : [holder EXCEPT ![h] = [step |-> t, gen |-> owner.gen]]
            \in [Holder -> [step : HolderStep, gen : Nat]]
      BY <1>1
    <2>3. /\ Ready(h) \in HolderStep
          /\ {"new", "admitted", "held", "begun", "writing", "late", "retiring", "done"}
               \subseteq HolderStep
      BY DEF HolderStep, Ready
    <2>4. holder[h].step \in HolderStep
      BY <1>1
    <2> QED
      BY <1>1, <2>1, <2>2, <2>3, <2>4
         DEF HolderSteps, Admit, Register, RegisterRefused, AdmitAndRegister, BeginUpload,
             Ready, StartWrite, Write, StopWork, Retire, Abandon, AcquireGrant, TimePasses,
             CancelTurn
  <1>3. faults' \in 0 .. MaxFaults
    BY FaultTyped
       DEF HolderSteps, Admit, Register, RegisterRefused, AdmitAndRegister, BeginUpload,
           Ready, StartWrite, Write, StopWork, Retire, Abandon, AcquireGrant, TimePasses,
           CancelTurn
  <1>4. stored' \subseteq Bytes
    <2>1. [by |-> h, gen |-> holder[h].gen] \in Bytes
      BY <1>1 DEF Bytes
    <2> QED
      BY <1>1, <2>1
       DEF HolderSteps, Admit, Register, RegisterRefused, AdmitAndRegister, BeginUpload,
           Ready, StartWrite, Write, StopWork, Retire, Abandon, AcquireGrant, TimePasses,
           CancelTurn
  <1>5. /\ lease' \in [Holder -> LeaseType]
        /\ \A g \in Holder : lease'[g].state = "active" => lease'[g].left \in 1 .. 2
    <2>1. CASE UNCHANGED lease
      BY <2>1 DEF TypeInv, TypeOK
    <2>2. CASE ~UNCHANGED lease
      <3>1. \/ RegisterLease(h, holder[h].gen) \/ RegisterLease(h, owner.gen)
            \/ AssertLease(h) \/ UnregisterLease(h) \/ LeaseAges(h)
        BY <2>2
           DEF HolderSteps, Admit, Register, RegisterRefused, AdmitAndRegister, BeginUpload,
               Ready, StartWrite, Write, StopWork, Retire, Abandon, AcquireGrant, TimePasses,
               CancelTurn, fenceVars
      <3> QED
        BY <1>1, <3>1, LeaseCalls
    <2> QED
      BY <2>1, <2>2
  <1>6. grant' \in [Holder -> GrantState]
    BY <1>1
       DEF HolderSteps, Admit, Register, RegisterRefused, AdmitAndRegister, BeginUpload,
           Ready, StartWrite, Write, StopWork, Retire, Abandon, AcquireGrant, TimePasses,
           CancelTurn, fenceVars, RetireGrant, IssueGrant, GrantState
  <1>7. UNCHANGED <<fence, barrier, owner, job, pass, closes>>
    BY DEF HolderSteps, Admit, Register, RegisterRefused, AdmitAndRegister, BeginUpload,
           Ready, StartWrite, Write, StopWork, Retire, Abandon, AcquireGrant, TimePasses,
           CancelTurn, fenceVars, accountVars
  <1> QED
    BY <1>2, <1>3, <1>4, <1>5, <1>6, <1>7 DEF TypeInv, TypeOK

LEMMA InitTypes == Init => TypeInv
  <1> SUFFICES ASSUME Init PROVE TypeInv
    OBVIOUS
  <1> USE DEF Init, FenceInit
  <1>1. fence \in FenceType /\ barrier \in OperationType
    BY DEF FenceType, OperationType, NoRequest, NoGeneration
  <1>2. /\ lease \in [Holder -> LeaseType] /\ grant \in [Holder -> GrantState]
        /\ \A h \in Holder : lease[h].state = "none"
    BY DEF LeaseType, GrantState
  <1>3. owner \in OwnerType
    BY DEF OwnerType
  <1>4. job \in JobType /\ stored \subseteq Bytes
    BY DEF JobType, NoJob
  <1>5. pass \in [Pass -> PassType] /\ \A p \in Pass : pass[p].step = "idle"
    BY IdleTyped DEF IdlePass
  <1>6. holder \in [Holder -> [step : HolderStep, gen : Nat]]
    BY DEF HolderStep
  <1>7. closes \in 0 .. MaxCloses /\ faults \in 0 .. MaxFaults
    BY AccountAssumption
  <1> HIDE DEF Init, FenceInit
  <1> QED
    BY <1>1, <1>2, <1>3, <1>4, <1>5, <1>6, <1>7 DEF TypeInv, TypeOK

\* One conjunct for each group of steps.
LEMMA NextCases ==
    ASSUME Next
    PROVE  \/ Reset \/ CloseOwner \/ BillingCloses
           \/ AlarmFires \/ GateCrashes
           \/ \E p \in Pass :
                \/ TakeJob(p) \/ ReadPurge(p) \/ Quiesced(p) \/ PurgeStores(p)
                \/ NoneDue(p) \/ NothingToPurge(p) \/ QuiesceTimesOut(p)
                \/ PurgePending(p) \/ ReleaseRefused(p) \/ Finish(p)
                \/ Begin(p) \/ BeginFails(p) \/ Release(p)
           \/ \E h \in Holder : HolderSteps(h) \/ \E p \in Pass : CancelTurn(p, h)
  BY DEF Next, PassSteps

LEMMA TypeStep == TypeInv /\ [Next]_vars => TypeInv'
  <1> SUFFICES ASSUME TypeInv, [Next]_vars PROVE TypeInv'
    OBVIOUS
  <1>1. CASE Next
    BY <1>1, NextCases, OwnerTypes, AdvanceTypes, EndTypes, FenceTypes, AlarmTypes, HolderTypes
  <1>2. CASE UNCHANGED vars
    BY <1>2 DEF TypeInv, TypeOK, vars, fenceVars, accountVars
  <1> QED
    BY <1>1, <1>2

LEMMA TypeHolds == Spec => []TypeInv
  BY InitTypes, TypeStep, PTL DEF Spec

\* The variables keep their types: the rows of the owner, of the job and of
\* every lease, and the local variables of both passes.
THEOREM PurgeTypeCorrect == Spec => []TypeOK
  <1>1. TypeInv => TypeOK
    BY DEF TypeInv
  <1> QED
    BY <1>1, TypeHolds, PTL

-----------------------------------------------------------------------------
(* A purge deletes in peace.  Three things carry the argument.  Whoever is  *)
(* on its way to a store still holds a lease: an assert renews it, and a    *)
(* write takes less than the half lifetime that then remains.  The pass of  *)
(* closeOwner never runs a reset, so of two passes in one generation one is *)
(* a deletion.  And a deletion makes the fence permanent before it waits    *)
(* for the leases, so the reset beside it cannot open the fence again.      *)

WriterHolds(h) ==
    /\ holder[h].step = "writing" => lease[h].state = "active" /\ lease[h].left = 2
    /\ holder[h].step = "late" => lease[h].state = "active" /\ lease[h].left = 1

Begun(p) == pass[p].step \in {"quiesce", "purge", "release", "finish"}

\* What a pass has read of the request, and when a release is its next step.
ModeKnown(p) ==
    /\ pass[p].step = "begin" \/ Begun(p) => pass[p].mode \in {"reset", "delete"}
    /\ pass[p].step = "release" => pass[p].mode = "reset"

ClosePassDeletes ==
    /\ owner.closed => owner.purge.mode # "reset"
    /\ pass["close"].step # "idle" => owner.closed
    /\ pass["close"].mode # "reset"

DeletionIsPermanent(p) ==
    /\ pass[p].gen <= fence.gen
    /\ Begun(p) /\ pass[p].mode = "delete" /\ AssertsBlocked(pass[p].gen)
         => fence.mode = "permanent"

Fenced(p) == Deleting(p) => AssertsBlocked(pass[p].gen) /\ Active = {}

PeaceInv ==
    /\ TypeInv
    /\ ClosePassDeletes
    /\ \A h \in Holder : WriterHolds(h)
    /\ \A p \in Pass : ModeKnown(p) /\ DeletionIsPermanent(p) /\ Fenced(p)

LEMMA PeaceSuffices == PeaceInv => PurgedInPeace
  BY DEF PeaceInv, PurgedInPeace, Fenced, WriterHolds, Active

LEMMA InitPeace == Init => PeaceInv
  <1> SUFFICES ASSUME Init PROVE PeaceInv
    OBVIOUS
  <1>1. \A p \in Pass : pass[p].step = "idle" /\ pass[p].mode = "none" /\ pass[p].gen = -1
    BY DEF Init, IdlePass, NoGeneration
  <1>2. fence.gen = 0 /\ "close" \in Pass /\ ~owner.closed
    BY DEF Init, FenceInit, Pass
  <1>3. \A h \in Holder : holder[h].step = "new"
    BY DEF Init
  <1> QED
    BY <1>1, <1>2, <1>3, InitTypes
       DEF PeaceInv, ClosePassDeletes, WriterHolds, ModeKnown, DeletionIsPermanent, Fenced,
           Begun, Deleting

\* A holder's step leaves the passes alone, and registers no lease under a
\* fence that is blocked.
LEMMA HolderPeace ==
    ASSUME PeaceInv, TypeInv', NEW h \in Holder,
           HolderSteps(h) \/ \E p \in Pass : CancelTurn(p, h)
    PROVE  PeaceInv'
  <1>1. UNCHANGED <<fence, owner, pass>>
    BY DEF HolderSteps, Admit, Register, RegisterRefused, AdmitAndRegister, BeginUpload,
           Ready, StartWrite, Write, StopWork, Retire, Abandon, AcquireGrant, TimePasses,
           CancelTurn, fenceVars, accountVars
  <1>2. /\ holder \in [Holder -> [step : HolderStep, gen : Nat]]
        /\ lease \in [Holder -> LeaseType] /\ lease[h].left \in 0 .. 2
        /\ lease[h].state = "active" => lease[h].left \in 1 .. 2
    BY DEF PeaceInv, TypeInv, TypeOK, LeaseType
  <1>3. \A g \in Holder : g # h => holder'[g] = holder[g] /\ lease'[g] = lease[g]
    BY <1>2
       DEF HolderSteps, Admit, Register, RegisterRefused, AdmitAndRegister, BeginUpload,
           Ready, StartWrite, Write, StopWork, Retire, Abandon, AcquireGrant, TimePasses,
           CancelTurn, fenceVars, RegisterLease, AssertLease, UnregisterLease, LeaseAges
  <1>4. WriterHolds(h)'
    <2>1. WriterHolds(h)
      BY DEF PeaceInv
    <2>2. CASE StartWrite(h)
      BY <1>2, <2>2 DEF StartWrite, AssertLease, Asserts, WriterHolds
    <2>3. CASE TimePasses(h)
      <3>1. /\ lease[h].state = "active" /\ holder[h].step # "late"
            /\ holder'[h].step = IF holder[h].step = "writing" THEN "late" ELSE holder[h].step
            /\ lease'[h].left = lease[h].left - 1
            /\ lease'[h].state = IF lease[h].left = 1 THEN "retired" ELSE lease[h].state
        BY <1>2, <2>3 DEF TimePasses, LeaseAges, LeaseType
      <3> QED
        BY <2>1, <3>1 DEF WriterHolds
    <2>4. CASE AcquireGrant(h)
      BY <2>1, <2>4 DEF AcquireGrant, WriterHolds
    <2>5. CASE Retire(h)
      BY <1>2, <2>1, <2>5 DEF Retire, WriterHolds
    <2>6. CASE \/ Admit(h) \/ Register(h) \/ RegisterRefused(h) \/ AdmitAndRegister(h)
               \/ BeginUpload(h) \/ Write(h) \/ StopWork(h) \/ Abandon(h)
               \/ \E p \in Pass : CancelTurn(p, h)
      <3>1. holder'[h].step \notin {"writing", "late"}
        BY <1>2, <2>6
           DEF Admit, Register, RegisterRefused, AdmitAndRegister, BeginUpload, Write, Ready,
               StopWork, Abandon, CancelTurn
      <3> QED
        BY <3>1 DEF WriterHolds
    <2> QED
      BY <2>2, <2>3, <2>4, <2>5, <2>6 DEF HolderSteps
  <1>5. \A g \in Holder : WriterHolds(g)'
    BY <1>3, <1>4 DEF PeaceInv, WriterHolds
  <1>6. fence.state = "blocked" => Active' \subseteq Active
    <2> SUFFICES ASSUME fence.state = "blocked", lease'[h].state = "active"
                 PROVE  lease[h].state = "active"
      BY <1>3 DEF Active
    <2>1. \/ UNCHANGED lease
          \/ RegisterLease(h, holder[h].gen) \/ RegisterLease(h, owner.gen)
          \/ AssertLease(h) \/ UnregisterLease(h) \/ LeaseAges(h)
      BY DEF HolderSteps, Admit, Register, RegisterRefused, AdmitAndRegister, BeginUpload,
             Ready, StartWrite, Write, StopWork, Retire, Abandon, AcquireGrant, TimePasses,
             CancelTurn, fenceVars
    <2>2. CASE UnregisterLease(h)
      BY <1>2, <2>2 DEF UnregisterLease, LeaseType
    <2>3. CASE ~UnregisterLease(h)
      BY <2>1, <2>3 DEF RegisterLease, AssertLease, Asserts, LeaseAges
    <2> QED
      BY <2>2, <2>3
  <1> QED
    BY <1>1, <1>5, <1>6
       DEF PeaceInv, ClosePassDeletes, ModeKnown, DeletionIsPermanent, Fenced,
           Begun, Deleting, AssertsBlocked

\* What a begin does to the fence.
LEMMA BeginMoves ==
    ASSUME TypeInv, NEW op \in Op,
           BeginSteps(op)
    PROVE  /\ fence.state = "blocked" =>
                /\ fence'.state = "blocked" /\ fence'.gen = fence.gen
                /\ fence.mode = "permanent" => fence'.mode = "permanent"
           /\ fence.state # "blocked" =>
                \/ fence' = fence
                \/ fence'.gen = fence.gen + 1
           /\ BeginCommits(op) => /\ fence'.state = "blocked"
                                  /\ op.mode = "permanent" => fence'.mode = "permanent"
  <1>1. fence \in FenceType
    BY DEF TypeInv, TypeOK
  <1>2. CASE fence' = FenceBegun(op) /\ BeginDisposition(op) # "reject"
    <2>1. CASE fence.state = "open"
      BY <1>1, <1>2, <2>1 DEF FenceBegun, BeginDisposition, FenceType
    <2>2. CASE fence.state # "open"
      BY <1>1, <1>2, <2>2 DEF FenceBegun, BeginDisposition, FenceType
    <2> QED
      BY <2>1, <2>2
  <1>3. CASE fence' = fence /\ ~BeginCommits(op)
    BY <1>1, <1>3
  <1>4. BeginCommits(op) => fence' = FenceBegun(op) /\ BeginDisposition(op) # "reject"
    BY DEF BeginCommits
  <1>5. BeginInterrupted(op) =>
          \/ fence' = fence
          \/ fence' = FenceBegun(op) /\ BeginDisposition(op) # "reject"
    BY DEF BeginInterrupted, ChangesAuthority
  <1> QED
    BY <1>2, <1>3, <1>4, <1>5 DEF BeginSteps, BeginRejected, BeginIncomplete

\* The fence moves on, or stays blocked in its generation and permanent if it
\* was; everything a pass knows of it stays true.
FenceKept ==
    \/ fence'.gen > fence.gen
    \/ /\ fence'.gen = fence.gen
       /\ fence'.state = "blocked" => fence.state = "blocked"
       /\ fence.state = "blocked" =>
            /\ fence'.state = "blocked"
            /\ fence.mode = "permanent" => fence'.mode = "permanent"

StillBlocked ==
    fence.state = "blocked" => fence'.state = "blocked" /\ fence'.gen = fence.gen

\* A pass whose fields a step leaves alone.
LEMMA PassKept ==
    ASSUME PeaceInv, TypeInv', NEW p \in Pass, pass'[p] = pass[p], FenceKept,
           Deleting(p) => StillBlocked, lease' = lease
    PROVE  ModeKnown(p)' /\ DeletionIsPermanent(p)' /\ Fenced(p)'
  <1>1. /\ fence.gen \in Nat /\ fence'.gen \in Nat
        /\ pass[p].gen \in Int
    BY DEF TypeInv, PeaceInv, TypeOK, FenceType, PassType, NoGeneration
  <1>2. ModeKnown(p)'
    BY DEF PeaceInv, ModeKnown, Begun
  <1>3. DeletionIsPermanent(p)'
    BY <1>1 DEF PeaceInv, DeletionIsPermanent, Begun, AssertsBlocked, FenceKept
  <1>4. Fenced(p)'
    BY DEF PeaceInv, Fenced, Deleting, AssertsBlocked, StillBlocked, Active
  <1> QED
    BY <1>2, <1>3, <1>4

\* A pass that is idle, or that a step leaves before its begin, promises nothing.
LEMMA PassEarly ==
    ASSUME PeaceInv, TypeInv', NEW p \in Pass,
           pass'[p].step \in {"idle", "billing", "jobs", "run"},
           pass'[p].gen \in {pass[p].gen, NoGeneration}, fence'.gen >= fence.gen
    PROVE  ModeKnown(p)' /\ DeletionIsPermanent(p)' /\ Fenced(p)'
  <1>1. /\ fence.gen \in Nat /\ fence'.gen \in Nat
        /\ pass[p].gen \in Int
    BY DEF TypeInv, PeaceInv, TypeOK, FenceType, PassType, NoGeneration
  <1> QED
    BY <1>1 DEF PeaceInv, ModeKnown, DeletionIsPermanent, Fenced, Begun, Deleting,
                AssertsBlocked, NoGeneration

\* The calls of the user.
LEMMA OwnerPeace ==
    ASSUME PeaceInv, TypeInv', Reset \/ CloseOwner \/ BillingCloses
    PROVE  PeaceInv'
  <1>1. /\ owner \in OwnerType /\ pass \in [Pass -> PassType]
        /\ pass["close"] \in PassType /\ "close" \in Pass
        /\ fence.gen \in Nat
    BY DEF PeaceInv, TypeInv, TypeOK, Pass, FenceType
  <1>2. UNCHANGED <<fence, lease, holder>>
    BY DEF Reset, CloseOwner, BillingCloses, fenceVars
  <1>3. FenceKept /\ StillBlocked /\ fence'.gen >= fence.gen
    BY <1>1, <1>2 DEF FenceKept, StillBlocked
  <1>4. /\ pass'["close"].gen = pass["close"].gen /\ pass'["close"].mode = pass["close"].mode
        /\ pass'["alarm"] = pass["alarm"]
        /\ \/ pass'["close"] = pass["close"]
           \/ pass'["close"].step \in {"billing", "jobs", "idle"}
    BY <1>1 DEF Reset, CloseOwner, BillingCloses, PassType, Pass
  <1>5. ClosePassDeletes'
    <2>1. CASE Reset
      <3>1. owner'.closed = FALSE /\ pass' = pass
        BY <1>1, <2>1 DEF Reset, OwnerType
      <3> QED
        BY <2>1, <3>1 DEF PeaceInv, ClosePassDeletes, Reset
    <2>2. CASE CloseOwner
      <3>1. owner'.closed = TRUE /\ owner'.purge.mode = "delete"
        BY <1>1, <2>2 DEF CloseOwner, Close, OwnerType
      <3> QED
        BY <1>4, <3>1 DEF PeaceInv, ClosePassDeletes
    <2>3. CASE BillingCloses
      BY <1>4, <2>3 DEF PeaceInv, ClosePassDeletes, BillingCloses
    <2> QED
      BY <2>1, <2>2, <2>3
  <1>6. \A p \in Pass : ModeKnown(p)' /\ DeletionIsPermanent(p)' /\ Fenced(p)'
    <2>1. "alarm" \in Pass
      BY DEF Pass
    <2>2. ModeKnown("alarm")' /\ DeletionIsPermanent("alarm")' /\ Fenced("alarm")'
      BY <1>2, <1>3, <1>4, <2>1, PassKept
    <2>3. ModeKnown("close")' /\ DeletionIsPermanent("close")' /\ Fenced("close")'
      <3>1. CASE pass'["close"] = pass["close"]
        BY <1>1, <1>2, <1>3, <3>1, PassKept
      <3>2. CASE pass'["close"].step \in {"billing", "jobs", "idle"}
        BY <1>1, <1>3, <1>4, <3>2, PassEarly
      <3> QED
        BY <1>4, <3>1, <3>2
    <2> QED
      BY <2>2, <2>3 DEF Pass
  <1>7. \A h \in Holder : WriterHolds(h)'
    BY <1>2 DEF PeaceInv, WriterHolds
  <1> QED
    BY <1>5, <1>6, <1>7 DEF PeaceInv

\* A begin keeps what the passes know of the fence.
LEMMA BeginKeepsFence ==
    ASSUME TypeInv, TypeInv', NEW op \in Op, BeginSteps(op)
    PROVE  /\ FenceKept /\ StillBlocked /\ fence'.gen >= fence.gen /\ lease' = lease
           /\ BeginCommits(op) => /\ fence'.state = "blocked"
                                  /\ op.mode = "permanent" => fence'.mode = "permanent"
  <1>1. fence.gen \in Nat /\ fence'.gen \in Nat /\ fence.state \in {"open", "blocked"}
    BY DEF TypeInv, TypeOK, FenceType
  <1>2. lease' = lease
    BY DEF BeginSteps, BeginCommits, BeginRejected, BeginIncomplete, BeginInterrupted
  <1> QED
    BY <1>1, <1>2, BeginMoves DEF FenceKept, StillBlocked

\* The alarm and the loss of the object.
LEMMA AlarmPeace ==
    ASSUME PeaceInv, TypeInv', AlarmFires \/ GateCrashes
    PROVE  PeaceInv'
  <1>1. /\ pass \in [Pass -> PassType] /\ pass["alarm"] \in PassType
        /\ "close" \in Pass /\ "alarm" \in Pass /\ "close" # "alarm"
        /\ fence.gen \in Nat /\ TypeInv
    BY DEF PeaceInv, TypeInv, TypeOK, Pass, FenceType
  <1>2. UNCHANGED <<owner, holder>>
    BY DEF AlarmFires, GateCrashes
  <1>3. FenceKept /\ StillBlocked /\ fence'.gen >= fence.gen /\ lease' = lease
    <2>1. CASE fence' = fence /\ lease' = lease
      BY <1>1, <2>1 DEF FenceKept, StillBlocked
    <2>2. CASE AlarmFires /\ barrier # NoOperation
      <3>1. barrier \in Op
        BY <2>2 DEF PeaceInv, TypeInv, TypeOK, OperationType, Op
      <3>2. BeginSteps(barrier)
        BY <2>2 DEF AlarmFires, BeginSteps
      <3> QED
        BY <1>1, <3>1, <3>2, BeginKeepsFence
    <2>3. CASE \E op \in Op : BeginInterrupted(op)
      BY <1>1, <2>3, BeginKeepsFence DEF BeginSteps
    <2> QED
      BY <1>1, <2>1, <2>2, <2>3, LostBegin DEF AlarmFires, fenceVars
  <1>4. CASE AlarmFires
    <2>1. /\ pass'["close"] = pass["close"] /\ pass'["alarm"].step = "jobs"
          /\ pass'["alarm"].gen = pass["alarm"].gen
      BY <1>1, <1>4 DEF AlarmFires, PassType
    <2>2. ModeKnown("close")' /\ DeletionIsPermanent("close")' /\ Fenced("close")'
      BY <1>1, <1>3, <2>1, PassKept
    <2>3. ModeKnown("alarm")' /\ DeletionIsPermanent("alarm")' /\ Fenced("alarm")'
      BY <1>1, <1>3, <2>1, PassEarly
    <2>4. \A p \in Pass : ModeKnown(p)' /\ DeletionIsPermanent(p)' /\ Fenced(p)'
      BY <2>2, <2>3 DEF Pass
    <2>5. ClosePassDeletes' /\ \A h \in Holder : WriterHolds(h)'
      BY <1>2, <1>3, <2>1 DEF PeaceInv, ClosePassDeletes, WriterHolds
    <2> QED
      BY <2>4, <2>5 DEF PeaceInv
  <1>5. CASE GateCrashes
    <2>1. \A p \in Pass : /\ pass'[p].step = "idle" /\ pass'[p].gen = NoGeneration
                          /\ pass'[p].mode = "none"
      BY <1>5 DEF GateCrashes, IdlePass
    <2>2. \A p \in Pass : ModeKnown(p)' /\ DeletionIsPermanent(p)' /\ Fenced(p)'
      BY <1>3, <2>1, PassEarly
    <2>3. ClosePassDeletes' /\ \A h \in Holder : WriterHolds(h)'
      BY <1>1, <1>2, <1>3, <2>1 DEF PeaceInv, ClosePassDeletes, WriterHolds
    <2> QED
      BY <2>2, <2>3 DEF PeaceInv
  <1> QED
    BY <1>4, <1>5

\* A pass that ends.
LEMMA EndPeace ==
    ASSUME PeaceInv, TypeInv', NEW p \in Pass,
           \/ NoneDue(p) \/ NothingToPurge(p) \/ QuiesceTimesOut(p)
           \/ PurgePending(p) \/ ReleaseRefused(p) \/ Finish(p) \/ BeginFails(p)
    PROVE  PeaceInv'
  <1>1. /\ pass \in [Pass -> PassType] /\ owner \in OwnerType
        /\ fence.gen \in Nat /\ TypeInv
    BY DEF PeaceInv, TypeInv, TypeOK, FenceType
  <1>2. holder' = holder
    BY DEF NoneDue, NothingToPurge, QuiesceTimesOut, PurgePending, ReleaseRefused, Finish,
           BeginFails
  <1>3. FenceKept /\ StillBlocked /\ fence'.gen >= fence.gen /\ lease' = lease
    <2>1. CASE UNCHANGED fenceVars
      BY <1>1, <2>1 DEF FenceKept, StillBlocked, fenceVars
    <2>2. CASE BeginFails(p) /\ ~UNCHANGED fenceVars
      <3>1. Operation(p) \in Op
        BY <1>1, <2>2, OperationTyped DEF BeginFails
      <3>2. BeginSteps(Operation(p))
        BY <2>2 DEF BeginFails, BeginSteps
      <3> QED
        BY <1>1, <3>1, <3>2, BeginKeepsFence
    <2> QED
      BY <2>1, <2>2 DEF NoneDue, NothingToPurge, QuiesceTimesOut, PurgePending,
                        ReleaseRefused, Finish
  <1>4. pass' = [pass EXCEPT ![p] = IdlePass]
    BY DEF NoneDue, NothingToPurge, QuiesceTimesOut, PurgePending, ReleaseRefused, Finish,
           BeginFails, JobDone, JobFailed
  <1>5. \A q \in Pass : pass'[q] = IF q = p THEN IdlePass ELSE pass[q]
    BY <1>1, <1>4
  <1>6. \A q \in Pass : ModeKnown(q)' /\ DeletionIsPermanent(q)' /\ Fenced(q)'
    <2>1. ASSUME NEW q \in Pass, q # p
          PROVE  ModeKnown(q)' /\ DeletionIsPermanent(q)' /\ Fenced(q)'
      BY <1>3, <1>5, <2>1, PassKept
    <2>2. ModeKnown(p)' /\ DeletionIsPermanent(p)' /\ Fenced(p)'
      BY <1>3, <1>5, PassEarly DEF IdlePass
    <2> QED
      BY <2>1, <2>2
  <1>7. ClosePassDeletes'
    <2>1. owner'.closed = owner.closed /\ owner'.purge \in {owner.purge, NoPurge}
      BY <1>1 DEF NoneDue, NothingToPurge, QuiesceTimesOut, PurgePending, ReleaseRefused,
                  Finish, BeginFails, OwnerType
    <2>2. "close" \in Pass /\ NoPurge.mode = "none"
      BY DEF Pass, NoPurge
    <2> QED
      BY <1>5, <2>1, <2>2 DEF PeaceInv, ClosePassDeletes, IdlePass
  <1> QED
    BY <1>2, <1>3, <1>6, <1>7 DEF PeaceInv, WriterHolds

\* A pass that moves on without calling the fence: it starts to delete only
\* when its fence stands and no lease is active.
LEMMA AdvancePeace ==
    ASSUME PeaceInv, TypeInv', NEW p \in Pass,
           TakeJob(p) \/ ReadPurge(p) \/ Quiesced(p) \/ PurgeStores(p)
    PROVE  PeaceInv'
  <1>1. /\ pass \in [Pass -> PassType] /\ pass[p] \in PassType /\ owner \in OwnerType
        /\ fence.gen \in Nat /\ TypeInv
    BY DEF PeaceInv, TypeInv, TypeOK, FenceType
  <1>2. UNCHANGED <<fence, lease, holder, owner>>
    BY DEF TakeJob, ReadPurge, Quiesced, PurgeStores, fenceVars
  <1>3. FenceKept /\ StillBlocked /\ fence'.gen >= fence.gen
    BY <1>1, <1>2 DEF FenceKept, StillBlocked
  <1>4. \A q \in Pass : q # p => pass'[q] = pass[q]
    BY <1>1 DEF TakeJob, ReadPurge, Quiesced, PurgeStores
  <1>5. pass[p].step \notin {"idle", "billing"}
    BY DEF TakeJob, ReadPurge, Quiesced, PurgeStores
  <1>6. /\ pass'[p].gen = pass[p].gen
        /\ \/ TakeJob(p) /\ pass'[p].step = "run" /\ pass'[p].mode = pass[p].mode
           \/ ReadPurge(p) /\ pass'[p].step = "begin" /\ pass'[p].mode = owner.purge.mode
           \/ Quiesced(p) /\ pass'[p].step = "purge" /\ pass'[p].mode = pass[p].mode
           \/ /\ PurgeStores(p) /\ pass'[p].mode = pass[p].mode
              /\ pass'[p].step = IF pass[p].mode = "reset" THEN "release" ELSE "finish"
    BY <1>1 DEF TakeJob, ReadPurge, Quiesced, PurgeStores, PassType
  <1>7. ModeKnown(p)' /\ DeletionIsPermanent(p)' /\ Fenced(p)'
    <2>1. CASE TakeJob(p) /\ pass'[p].step = "run"
      BY <1>3, <1>6, <2>1, PassEarly
    <2>2. CASE /\ ReadPurge(p) /\ pass'[p].step = "begin"
               /\ pass'[p].mode = owner.purge.mode
      <3>1. owner.purge.mode \in {"reset", "delete"}
        BY <1>1, <2>2 DEF ReadPurge, OwnerType
      <3> QED
        BY <1>2, <1>6, <2>2, <3>1
           DEF PeaceInv, ModeKnown, DeletionIsPermanent, Fenced, Begun, Deleting
    <2>3. CASE Quiesced(p) /\ pass'[p].step = "purge" /\ pass'[p].mode = pass[p].mode
      BY <1>2, <1>6, <2>3
         DEF PeaceInv, ModeKnown, DeletionIsPermanent, Fenced, Begun, Deleting, Quiesced,
             AssertsBlocked, Active
    <2>4. CASE /\ PurgeStores(p) /\ pass'[p].mode = pass[p].mode
               /\ pass'[p].step = IF pass[p].mode = "reset" THEN "release" ELSE "finish"
      BY <1>2, <1>6, <2>4
         DEF PeaceInv, ModeKnown, DeletionIsPermanent, Fenced, Begun, Deleting, PurgeStores,
             AssertsBlocked, Active
    <2> QED
      BY <1>6, <2>1, <2>2, <2>3, <2>4
  <1>8. \A q \in Pass : ModeKnown(q)' /\ DeletionIsPermanent(q)' /\ Fenced(q)'
    BY <1>2, <1>3, <1>4, <1>7, PassKept
  <1>9. ClosePassDeletes'
    <2>1. "close" \in Pass
      BY DEF Pass
    <2>2. CASE p = "close"
      BY <1>2, <1>5, <1>6, <2>2 DEF PeaceInv, ClosePassDeletes
    <2>3. CASE p # "close"
      BY <1>2, <1>4, <2>1, <2>3 DEF PeaceInv, ClosePassDeletes
    <2> QED
      BY <2>2, <2>3
  <1> QED
    BY <1>2, <1>8, <1>9 DEF PeaceInv, WriterHolds

\* A pass that calls the fence: a release opens no fence under another pass
\* that deletes, since that one is a deletion and its fence permanent.
LEMMA FencePeace ==
    ASSUME PeaceInv, TypeInv', NEW p \in Pass, Begin(p) \/ Release(p)
    PROVE  PeaceInv'
  <1>1. /\ pass \in [Pass -> PassType] /\ pass[p] \in PassType /\ owner \in OwnerType
        /\ fence.gen \in Nat /\ fence \in FenceType /\ TypeInv
        /\ fence'.gen \in Nat
    BY DEF PeaceInv, TypeInv, TypeOK, FenceType
  <1>2. UNCHANGED <<lease, holder, owner>>
    BY DEF Begin, Release, BeginCommits
  <1>3. \A q \in Pass : q # p => pass'[q] = pass[q]
    BY <1>1 DEF Begin, Release
  <1>4. pass[p].step # "idle" /\ pass'[p].step # "idle" /\ pass'[p].mode = pass[p].mode
    BY <1>1 DEF Begin, Release, PassType
  <1>5. ClosePassDeletes'
    <2>1. "close" \in Pass
      BY DEF Pass
    <2>2. CASE p = "close"
      BY <1>2, <1>4, <2>2 DEF PeaceInv, ClosePassDeletes
    <2>3. CASE p # "close"
      BY <1>2, <1>3, <2>1, <2>3 DEF PeaceInv, ClosePassDeletes
    <2> QED
      BY <2>2, <2>3
  <1>6. CASE Begin(p)
    <2>1. Operation(p) \in Op
      BY <1>1, <1>6, OperationTyped DEF Begin
    <2>2. /\ FenceKept /\ StillBlocked /\ fence'.state = "blocked"
          /\ Operation(p).mode = "permanent" => fence'.mode = "permanent"
      BY <1>1, <1>6, <2>1, BeginKeepsFence DEF Begin, BeginSteps
    <2>3. pass'[p].step = "quiesce" /\ pass'[p].gen = fence'.gen
      BY <1>1, <1>6 DEF Begin, PassType
    <2>4. ModeKnown(p)' /\ DeletionIsPermanent(p)' /\ Fenced(p)'
      <3>1. pass[p].mode \in {"reset", "delete"}
        BY <1>6 DEF Begin, PeaceInv, ModeKnown
      <3> QED
        BY <1>1, <1>4, <2>2, <2>3, <3>1
           DEF ModeKnown, DeletionIsPermanent, Fenced, Begun, Deleting, Operation
    <2>5. \A q \in Pass : ModeKnown(q)' /\ DeletionIsPermanent(q)' /\ Fenced(q)'
      BY <1>2, <1>3, <2>2, <2>4, PassKept
    <2> QED
      BY <1>2, <1>5, <2>5 DEF PeaceInv, WriterHolds
  <1>7. CASE Release(p)
    <2>1. /\ pass'[p].step = "finish" /\ pass'[p].gen = pass[p].gen
          /\ pass[p].step = "release"
      BY <1>1, <1>7 DEF Release, PassType
    <2>2. \/ fence' = fence
          \/ /\ Releases(pass[p].gen)
             /\ fence'.gen = fence.gen + 1 /\ fence'.state = "open"
      BY <1>7 DEF Release, ReleaseFence
    <2>3. FenceKept
      BY <1>1, <2>2 DEF FenceKept
    <2>4. pass[p].mode = "reset"
      BY <2>1 DEF PeaceInv, ModeKnown
    <2>5. ModeKnown(p)' /\ DeletionIsPermanent(p)' /\ Fenced(p)'
      <3>1. pass[p].gen \in Int /\ pass[p].gen <= fence.gen
        BY <1>1 DEF PeaceInv, DeletionIsPermanent, PassType, NoGeneration
      <3> QED
        BY <1>1, <1>4, <2>1, <2>2, <2>4, <3>1
           DEF ModeKnown, DeletionIsPermanent, Fenced, Begun, Deleting
    <2>6. ASSUME NEW q \in Pass, q # p
          PROVE  ModeKnown(q)' /\ DeletionIsPermanent(q)' /\ Fenced(q)'
      <3>1. ASSUME Deleting(q), fence' # fence PROVE FALSE
        <4>1. AssertsBlocked(pass[p].gen) /\ fence.mode = "temporary"
          BY <2>2, <3>1 DEF Releases
        <4>2. AssertsBlocked(pass[q].gen)
          BY <3>1 DEF PeaceInv, Fenced
        <4>3. pass["close"].mode # "reset"
          BY DEF PeaceInv, ClosePassDeletes
        <4>4. p = "alarm" /\ q = "close"
          BY <2>4, <2>6, <4>3 DEF Pass
        <4>5. pass[q].mode = "delete" /\ Begun(q)
          BY <3>1, <4>3, <4>4 DEF PeaceInv, ModeKnown, Deleting, Begun
        <4> QED
          BY <4>1, <4>2, <4>5 DEF PeaceInv, DeletionIsPermanent
      <3>2. Deleting(q) => StillBlocked
        BY <3>1 DEF StillBlocked
      <3> QED
        BY <1>2, <1>3, <2>3, <2>6, <3>2, PassKept
    <2> QED
      BY <1>2, <1>5, <2>5, <2>6 DEF PeaceInv, WriterHolds
  <1> QED
    BY <1>6, <1>7

LEMMA PeaceStep == PeaceInv /\ [Next]_vars => PeaceInv'
  <1> SUFFICES ASSUME PeaceInv, [Next]_vars PROVE PeaceInv'
    OBVIOUS
  <1>1. TypeInv'
    BY TypeStep DEF PeaceInv
  <1>2. CASE Next
    BY <1>1, <1>2, NextCases, OwnerPeace, AlarmPeace, EndPeace, AdvancePeace, FencePeace,
       HolderPeace
  <1>3. CASE UNCHANGED vars
    BY <1>1, <1>3
       DEF PeaceInv, vars, fenceVars, accountVars, ClosePassDeletes, WriterHolds, ModeKnown,
           DeletionIsPermanent, Fenced, Begun, Deleting, AssertsBlocked, Active
  <1> QED
    BY <1>2, <1>3

LEMMA PeaceHolds == Spec => []PeaceInv
  BY InitPeace, PeaceStep, PTL DEF Spec

\* While runOwnerPurge empties the stores of an owner, its fence stands, no
\* lease is active and no turn or activity is on its way to a store: for any
\* number of turns, and of calls, failures and evictions of the object.
THEOREM PurgesInPeace == Spec => []PurgedInPeace
  BY PeaceSuffices, PeaceHolds, PTL

-----------------------------------------------------------------------------
(* No reader behind a blocked fence.                                       *)

\* A begin that starts a fence has revoked every reader, and behind a blocked
\* fence there is none left for a later begin to wait for.
LEMMA BeginFreezes ==
    ASSUME TypeInv, NoReaderBehindFence, NEW op \in Op, BeginSteps(op)
    PROVE  NoReaderBehindFence'
  <1>1. ASSUME RevokeAll({}), NEW h \in Holder
        PROVE  grant'[h] \notin {"active", "revoking"}
    BY <1>1 DEF RevokeAll, Revocable
  <1>2. CASE BeginCommits(op)
    <2>1. CASE ChangesAuthority(op)
      BY <1>1, <1>2, <2>1 DEF BeginCommits, NoReaderBehindFence
    <2>2. CASE ~ChangesAuthority(op)
      <3>1. fence.state # "open" /\ grant' = grant
        BY <1>2, <2>2 DEF BeginCommits, ChangesAuthority, BeginDisposition
      <3>2. fence.state = "blocked"
        BY <3>1 DEF TypeInv, TypeOK, FenceType
      <3> QED
        BY <3>1, <3>2 DEF NoReaderBehindFence
    <2> QED
      BY <2>1, <2>2
  <1>3. CASE BeginRejected(op)
    BY <1>3 DEF BeginRejected, NoReaderBehindFence
  <1>4. CASE BeginIncomplete(op)
    <2>1. Revocable # {} /\ fence' = fence
      <3>1. PICK deaf \in SUBSET Revocable : deaf # {}
        BY <1>4 DEF BeginIncomplete
      <3>2. PICK h : h \in deaf
        BY <3>1
      <3> QED
        BY <1>4, <3>2 DEF BeginIncomplete
    <2>2. fence.state # "blocked"
      BY <2>1 DEF NoReaderBehindFence, Revocable
    <2> QED
      BY <2>1, <2>2 DEF NoReaderBehindFence
  <1>5. CASE BeginInterrupted(op)
    <2>1. CASE RevokeAll({})
      BY <1>1, <2>1 DEF NoReaderBehindFence
    <2>2. CASE UNCHANGED <<fence, grant>>
      BY <2>2 DEF NoReaderBehindFence
    <2>3. ASSUME NEW deaf, RevokeAll(deaf), UNCHANGED fence PROVE NoReaderBehindFence'
      BY <2>3 DEF RevokeAll, Revocable, NoReaderBehindFence
    <2> QED
      BY <1>5, <2>1, <2>2, <2>3 DEF BeginInterrupted
  <1> QED
    BY <1>2, <1>3, <1>4, <1>5 DEF BeginSteps

LEMMA ReaderStep == TypeInv /\ NoReaderBehindFence /\ [Next]_vars => NoReaderBehindFence'
  <1> SUFFICES ASSUME TypeInv, NoReaderBehindFence, [Next]_vars PROVE NoReaderBehindFence'
    OBVIOUS
  <1>1. CASE fence' = fence /\ grant' = grant
    BY <1>1 DEF NoReaderBehindFence
  <1>2. ASSUME NEW h \in Holder, HolderSteps(h) PROVE NoReaderBehindFence'
    <2>1. fence' = fence /\ (grant' = grant \/ RetireGrant(h) \/ IssueGrant(h))
      BY <1>2
         DEF HolderSteps, Admit, Register, RegisterRefused, AdmitAndRegister, BeginUpload,
             Ready, StartWrite, Write, StopWork, Retire, Abandon, AcquireGrant, TimePasses,
             fenceVars
    <2>2. grant \in [Holder -> GrantState]
      BY DEF TypeInv, TypeOK
    <2> QED
      BY <2>1, <2>2 DEF NoReaderBehindFence, RetireGrant, IssueGrant, Asserts
  <1>3. CASE AlarmFires
    <2>1. CASE barrier = NoOperation
      BY <1>1, <1>3, <2>1 DEF AlarmFires, fenceVars
    <2>2. CASE barrier # NoOperation
      <3>1. barrier \in Op
        BY <2>2 DEF TypeInv, TypeOK, OperationType, Op
      <3> QED
        BY <1>3, <2>2, <3>1, BeginFreezes DEF AlarmFires, BeginSteps
    <2> QED
      BY <2>1, <2>2
  <1>4. ASSUME NEW p \in Pass, Begin(p) \/ BeginFails(p) PROVE NoReaderBehindFence'
    <2>1. Operation(p) \in Op
      BY <1>4, OperationTyped DEF Begin, BeginFails
    <2> QED
      BY <1>1, <1>4, <2>1, BeginFreezes DEF Begin, BeginFails, BeginSteps, fenceVars
  <1>5. ASSUME NEW p \in Pass, Release(p) PROVE NoReaderBehindFence'
    BY <1>5 DEF Release, ReleaseFence, NoReaderBehindFence
  <1>6. CASE Next
    <2>1. \/ fence' = fence /\ grant' = grant
          \/ AlarmFires \/ \E op \in Op : BeginInterrupted(op)
          \/ \E p \in Pass : Begin(p) \/ BeginFails(p) \/ Release(p)
          \/ \E h \in Holder : HolderSteps(h)
      BY <1>6, NextCases, LostBegin
         DEF Reset, CloseOwner, BillingCloses, TakeJob, ReadPurge, Quiesced,
             PurgeStores, NoneDue, NothingToPurge, QuiesceTimesOut, PurgePending,
             ReleaseRefused, Finish, CancelTurn, fenceVars
    <2>2. ASSUME NEW op \in Op, BeginInterrupted(op) PROVE NoReaderBehindFence'
      BY <2>2, BeginFreezes DEF BeginSteps
    <2> QED
      BY <1>1, <1>2, <1>3, <1>4, <1>5, <2>1, <2>2
  <1> QED
    BY <1>1, <1>6 DEF vars, fenceVars

\* A blocked fence leaves no model grant active or half revoked, whichever
\* begins were interrupted, refused or replayed by the alarm (beginOwnerPurge
\* revokes before it writes the fence, and issueModelGrant asserts it open).
THEOREM NoReadersBehindFence == Spec => []NoReaderBehindFence
  <1>1. Init => NoReaderBehindFence
    BY DEF Init, FenceInit, NoReaderBehindFence
  <1> QED
    BY <1>1, ReaderStep, TypeHolds, PTL DEF Spec

-----------------------------------------------------------------------------
(* What a reset leaves.  From the step that empties the stores to the one   *)
(* that reopens the owner its request is pending, so no later reset changes *)
(* the generation.  Whoever may write meanwhile was let through in that     *)
(* generation: a chat's turn because its lease is taken where the snapshot  *)
(* is read, an activity because the gate looks again under its lease.  The  *)
(* numbers of the requests grow with the generation, so an older pass never *)
(* takes a later request for its own.                                       *)

PendingIsClosed == owner.purge # NoPurge => ~owner.writable

RequestsGrow ==
    /\ owner.purge.request <= owner.gen
    /\ owner.purge.mode = "reset" => owner.purge.request >= 1
    /\ \A p \in Pass : /\ pass[p].request <= owner.gen
                       /\ pass[p].mode = "reset" => pass[p].request >= 1

Emptied(p) ==
    /\ pass[p].step \in {"release", "finish"} /\ pass[p].mode = "reset"
    /\ pass[p].request = owner.purge.request

\* A holder that may reach a store without another look at the owner.
LetThrough(h) ==
    /\ h \in Active
    /\ \/ h \in Together
       \/ h \in Activity /\ holder[h].step \in {"begun", "writing", "late"}

OnlyCurrent ==
    /\ \A b \in stored : b.by \in Together \cup Activity => b.gen = owner.gen
    /\ \A h \in Holder : LetThrough(h) => holder[h].gen = owner.gen

CurrentWhileOpen == owner.writable \/ (\E p \in Pass : Emptied(p)) => OnlyCurrent

NobodyWaits == \A h \in Together : holder[h].step # "admitted"

FreshInv ==
    /\ PendingIsClosed
    /\ RequestsGrow
    /\ CurrentWhileOpen
    /\ NobodyWaits

LEMMA InitFresh == Init => FreshInv
  <1> SUFFICES ASSUME Init PROVE FreshInv
    OBVIOUS
  <1>1. /\ owner.purge = NoPurge /\ owner.gen = 0 /\ stored = {}
        /\ NoPurge.request = -1 /\ NoPurge.mode = "none"
    BY DEF Init, NoPurge, NoRequest
  <1>2. \A p \in Pass : /\ pass[p].step = "idle" /\ pass[p].mode = "none"
                        /\ pass[p].request = -1
    BY DEF Init, IdlePass, NoRequest
  <1>3. Active = {}
    BY DEF Init, FenceInit, Active
  <1>4. \A h \in Holder : holder[h].step # "admitted"
    BY DEF Init
  <1>5. OnlyCurrent
    BY <1>1, <1>3 DEF OnlyCurrent, LetThrough
  <1> QED
    BY <1>1, <1>2, <1>4, <1>5, AccountAssumption
       DEF FreshInv, PendingIsClosed, RequestsGrow, CurrentWhileOpen, NobodyWaits

\* A holder's step keeps the stores current: each of those let through, and
\* each write, is of the generation that was current when it was let through.
LEMMA HolderCurrent ==
    ASSUME PeaceInv, FreshInv, OnlyCurrent, NEW h \in Holder,
           HolderSteps(h) \/ \E p \in Pass : CancelTurn(p, h), owner' = owner
    PROVE  OnlyCurrent'
  <1>1. /\ holder \in [Holder -> [step : HolderStep, gen : Nat]]
        /\ lease \in [Holder -> LeaseType]
    BY DEF PeaceInv, TypeInv, TypeOK
  <1>2. \A g \in Holder : g # h => holder'[g] = holder[g] /\ lease'[g] = lease[g]
    BY <1>1
       DEF HolderSteps, Admit, Register, RegisterRefused, AdmitAndRegister, BeginUpload,
           StartWrite, Write, StopWork, Retire, Abandon, AcquireGrant, TimePasses,
           CancelTurn, fenceVars, RegisterLease, AssertLease, UnregisterLease, LeaseAges
  <1>3. ASSUME LetThrough(h)' PROVE holder'[h].gen = owner.gen
    <2>1. h \in Together => holder[h].step # "admitted"
      BY DEF FreshInv, NobodyWaits
    <2>2. CASE AdmitAndRegister(h) \/ BeginUpload(h)
      BY <1>1, <2>2 DEF AdmitAndRegister, BeginUpload
    <2>3. CASE Admit(h) \/ Register(h) \/ RegisterRefused(h)
      <3>1. h \notin Together
        BY <2>1, <2>3 DEF Admit, Register, RegisterRefused
      <3>2. holder'[h].step \notin {"begun", "writing", "late"}
        BY <1>1, <2>3 DEF Admit, Register, RegisterRefused
      <3> QED
        BY <1>3, <3>1, <3>2 DEF LetThrough
    <2>4. CASE \/ StartWrite(h) \/ Write(h) \/ StopWork(h) \/ Retire(h) \/ Abandon(h)
               \/ AcquireGrant(h) \/ TimePasses(h) \/ \E p \in Pass : CancelTurn(p, h)
      <3>1. lease'[h].state = "active" => lease[h].state = "active"
        <4>1. CASE Retire(h)
          BY <1>1, <4>1 DEF Retire, UnregisterLease, LeaseType
        <4>2. CASE StartWrite(h) \/ TimePasses(h)
          BY <4>2 DEF StartWrite, AssertLease, Asserts, TimePasses, LeaseAges
        <4>3. CASE \/ Write(h) \/ StopWork(h) \/ Abandon(h) \/ AcquireGrant(h)
                   \/ \E p \in Pass : CancelTurn(p, h)
          BY <4>3 DEF Write, StopWork, Abandon, AcquireGrant, CancelTurn, fenceVars
        <4> QED
          BY <2>4, <4>1, <4>2, <4>3
      <3>2. /\ holder'[h].gen = holder[h].gen
            /\ h \in Activity /\ holder'[h].step \in {"begun", "writing", "late"} =>
                 holder[h].step \in {"begun", "writing", "late"}
        BY <1>1, <2>4
           DEF StartWrite, Ready, Write, StopWork, Retire, Abandon, AcquireGrant, TimePasses,
               CancelTurn
      <3>3. LetThrough(h)
        BY <1>3, <3>1, <3>2 DEF LetThrough, Active
      <3> QED
        BY <3>2, <3>3 DEF OnlyCurrent
    <2> QED
      BY <2>2, <2>3, <2>4 DEF HolderSteps
  <1>4. \A g \in Holder : LetThrough(g)' => holder'[g].gen = owner.gen
    BY <1>2, <1>3 DEF OnlyCurrent, LetThrough, Active
  <1>5. ASSUME NEW b \in stored', b.by \in Together \cup Activity
        PROVE  b.gen = owner.gen
    <2>1. CASE Write(h)
      <3>1. h \in Active /\ holder[h].step \in {"writing", "late"}
        BY <2>1 DEF Write, PeaceInv, WriterHolds, Active
      <3>2. h \in Together \cup Activity => holder[h].gen = owner.gen
        BY <3>1 DEF OnlyCurrent, LetThrough
      <3> QED
        BY <1>5, <2>1, <3>2 DEF Write, OnlyCurrent
    <2>2. CASE ~Write(h)
      <3>1. stored' = stored
        BY <2>2
           DEF HolderSteps, Admit, Register, RegisterRefused, AdmitAndRegister, BeginUpload,
               StartWrite, StopWork, Retire, Abandon, AcquireGrant, TimePasses, CancelTurn
      <3> QED
        BY <1>5, <3>1 DEF OnlyCurrent
    <2> QED
      BY <2>1, <2>2
  <1> QED
    BY <1>4, <1>5 DEF OnlyCurrent

LEMMA HolderFresh ==
    ASSUME PeaceInv, FreshInv, NEW h \in Holder,
           HolderSteps(h) \/ \E p \in Pass : CancelTurn(p, h)
    PROVE  FreshInv'
  <1>1. UNCHANGED <<owner, pass>>
    BY DEF HolderSteps, Admit, Register, RegisterRefused, AdmitAndRegister, BeginUpload,
           StartWrite, Write, StopWork, Retire, Abandon, AcquireGrant, TimePasses, CancelTurn,
           fenceVars, accountVars
  <1>2. CurrentWhileOpen'
    BY <1>1, HolderCurrent DEF FreshInv, CurrentWhileOpen, Emptied
  <1>3. NobodyWaits'
    <2>1. holder \in [Holder -> [step : HolderStep, gen : Nat]]
      BY DEF PeaceInv, TypeInv, TypeOK
    <2>2. \A g \in Holder : g # h => holder'[g] = holder[g]
      BY <2>1
         DEF HolderSteps, Admit, Register, RegisterRefused, AdmitAndRegister, BeginUpload,
             StartWrite, Write, StopWork, Retire, Abandon, AcquireGrant, TimePasses, CancelTurn
    <2>3. h \in Together /\ holder[h].step # "admitted" => holder'[h].step # "admitted"
      BY <2>1
         DEF HolderSteps, Admit, Register, RegisterRefused, AdmitAndRegister, BeginUpload, Ready,
             StartWrite, Write, StopWork, Retire, Abandon, AcquireGrant, TimePasses, CancelTurn
    <2> QED
      BY <2>2, <2>3, AccountAssumption DEF FreshInv, NobodyWaits
  <1> QED
    BY <1>1, <1>2, <1>3 DEF FreshInv, PendingIsClosed, RequestsGrow

\* What a step that leaves the holders alone keeps.
LEMMA CurrentKept ==
    ASSUME OnlyCurrent, UNCHANGED <<holder, lease>>, owner'.gen = owner.gen,
           stored' \subseteq stored
    PROVE  OnlyCurrent'
  BY DEF OnlyCurrent, LetThrough, Active

\* The calls of the user: a reset takes a new number, and a deletion the
\* number of the purge it joins or one that no reset has.
LEMMA OwnerFresh ==
    ASSUME PeaceInv, FreshInv, Reset \/ CloseOwner \/ BillingCloses
    PROVE  FreshInv'
  <1>1. /\ owner \in OwnerType /\ pass \in [Pass -> PassType] /\ owner.gen \in Nat
        /\ pass["close"] \in PassType /\ TypeInv
        /\ \A p \in Pass : pass[p].request \in Int
    BY DEF PeaceInv, TypeInv, TypeOK, OwnerType, Pass, PassType, NoRequest
  <1>2. UNCHANGED <<lease, holder, stored>> /\ NobodyWaits'
    BY DEF Reset, CloseOwner, BillingCloses, fenceVars, FreshInv, NobodyWaits
  <1>3. \A p \in Pass : /\ pass'[p].request = pass[p].request /\ pass'[p].mode = pass[p].mode
                        /\ pass'[p].step \in {"release", "finish"} =>
                             pass'[p].step = pass[p].step
    BY <1>1 DEF Reset, CloseOwner, BillingCloses, PassType
  <1>4. CASE Reset
    <2>1. /\ owner'.gen = owner.gen + 1 /\ ~owner'.writable
          /\ owner'.purge.request = owner.gen + 1
      BY <1>1, <1>4 DEF Reset, OwnerType
    <2>2. RequestsGrow'
      BY <1>1, <1>3, <2>1 DEF FreshInv, RequestsGrow
    <2>3. \A p \in Pass : ~Emptied(p)'
      BY <1>1, <1>3, <2>1 DEF FreshInv, RequestsGrow, Emptied
    <2> QED
      BY <1>2, <2>1, <2>2, <2>3 DEF FreshInv, PendingIsClosed, CurrentWhileOpen
  <1>5. CASE CloseOwner
    <2>1. /\ owner'.gen = owner.gen /\ ~owner'.writable /\ owner'.purge.mode = "delete"
          /\ owner'.purge.request =
               IF owner.purge = NoPurge THEN 0 ELSE owner.purge.request
      BY <1>1, <1>5 DEF CloseOwner, Close, CloseRequest, OwnerType
    <2>2. RequestsGrow'
      BY <1>1, <1>3, <2>1 DEF FreshInv, RequestsGrow
    <2>3. ASSUME NEW p \in Pass, Emptied(p)' PROVE Emptied(p)
      <3>1. /\ pass[p].step \in {"release", "finish"} /\ pass[p].mode = "reset"
            /\ pass[p].request = owner'.purge.request
        BY <1>3, <2>3 DEF Emptied
      <3>2. pass[p].request >= 1
        BY <3>1 DEF FreshInv, RequestsGrow
      <3> QED
        BY <2>1, <3>1, <3>2 DEF Emptied
    <2>4. CurrentWhileOpen'
      BY <1>2, <2>1, <2>3, CurrentKept DEF FreshInv, CurrentWhileOpen
    <2> QED
      BY <1>2, <2>1, <2>2, <2>4 DEF FreshInv, PendingIsClosed
  <1>6. CASE BillingCloses
    <2>1. owner' = owner
      BY <1>6 DEF BillingCloses
    <2>2. \A p \in Pass : Emptied(p)' => Emptied(p)
      BY <1>3, <2>1 DEF Emptied
    <2>3. RequestsGrow' /\ CurrentWhileOpen'
      BY <1>2, <1>3, <2>1, <2>2, CurrentKept DEF FreshInv, RequestsGrow, CurrentWhileOpen
    <2> QED
      BY <1>2, <2>1, <2>3 DEF FreshInv, PendingIsClosed
  <1> QED
    BY <1>4, <1>5, <1>6

\* A step that moves passes and may empty stores.
LEMMA QuietFresh ==
    ASSUME FreshInv, UNCHANGED <<owner, holder, lease>>, stored' \subseteq stored,
           \A p \in Pass :
             /\ pass'[p].request <= owner.gen
             /\ pass'[p].mode = "reset" => pass'[p].request >= 1
             /\ Emptied(p)' => Emptied(p) \/ (stored' = {} /\ Active = {})
    PROVE  FreshInv'
  <1>1. CurrentWhileOpen'
    <2>1. stored' = {} /\ Active = {} => OnlyCurrent'
      BY DEF OnlyCurrent, LetThrough, Active
    <2> QED
      BY <2>1, CurrentKept DEF FreshInv, CurrentWhileOpen
  <1>2. RequestsGrow'
    BY DEF FreshInv, RequestsGrow
  <1> QED
    BY <1>1, <1>2 DEF FreshInv, PendingIsClosed, NobodyWaits

\* A pass that ends, other than by finishing its purge, and the loss of the object.
LEMMA EndFresh ==
    ASSUME PeaceInv, FreshInv,
           \/ GateCrashes
           \/ \E p \in Pass :
                \/ NoneDue(p) \/ NothingToPurge(p) \/ QuiesceTimesOut(p)
                \/ PurgePending(p) \/ ReleaseRefused(p) \/ BeginFails(p)
    PROVE  FreshInv'
  <1>1. pass \in [Pass -> PassType] /\ owner.gen \in Nat
    BY DEF PeaceInv, TypeInv, TypeOK, OwnerType
  <1>2. UNCHANGED <<owner, holder, lease>> /\ stored' \subseteq stored
    BY DEF GateCrashes, NoneDue, NothingToPurge, QuiesceTimesOut, PurgePending,
           ReleaseRefused, BeginFails, BeginRejected, BeginIncomplete, BeginInterrupted,
           fenceVars
  <1>3. \A q \in Pass : pass'[q] \in {pass[q], IdlePass}
    BY <1>1
       DEF GateCrashes, NoneDue, NothingToPurge, QuiesceTimesOut, PurgePending,
           ReleaseRefused, BeginFails, JobDone, JobFailed
  <1>4. IdlePass.step = "idle" /\ IdlePass.mode = "none" /\ IdlePass.request = -1
    BY DEF IdlePass, NoRequest
  <1>5. ASSUME NEW q \in Pass
        PROVE  /\ pass'[q].request <= owner.gen
               /\ pass'[q].mode = "reset" => pass'[q].request >= 1
               /\ Emptied(q)' => Emptied(q)
    <2>1. CASE pass'[q] = pass[q]
      BY <1>2, <2>1 DEF FreshInv, RequestsGrow, Emptied
    <2>2. CASE pass'[q] = IdlePass
      BY <1>1, <1>4, <2>2 DEF Emptied
    <2> QED
      BY <1>3, <2>1, <2>2
  <1>6. \A p \in Pass :
             /\ pass'[p].request <= owner.gen
             /\ pass'[p].mode = "reset" => pass'[p].request >= 1
             /\ Emptied(p)' => Emptied(p) \/ (stored' = {} /\ Active = {})
    BY <1>5
  <1> QED
    BY <1>2, <1>6, QuietFresh

\* A pass that moves on: it empties the stores when no lease is active.
LEMMA AdvanceFresh ==
    ASSUME PeaceInv, FreshInv,
           \/ AlarmFires
           \/ \E p \in Pass : \/ TakeJob(p) \/ ReadPurge(p) \/ Quiesced(p) \/ PurgeStores(p)
                              \/ Begin(p) \/ Release(p)
    PROVE  FreshInv'
  <1>1. /\ pass \in [Pass -> PassType] /\ owner.gen \in Nat /\ "alarm" \in Pass
        /\ barrier # NoOperation => barrier \in Op
    BY DEF PeaceInv, TypeInv, TypeOK, OwnerType, Pass, OperationType, Op
  <1>2. UNCHANGED <<owner, holder, lease>>
    BY DEF AlarmFires, TakeJob, ReadPurge, Quiesced, PurgeStores, Begin, Release, fenceVars,
           BeginCommits, BeginRejected, BeginIncomplete
  <1>3. \A r \in Pass :
          \/ pass'[r] = pass[r]
          \/ /\ (r = "alarm" /\ AlarmFires) \/ TakeJob(r) \/ Quiesced(r) \/ PurgeStores(r)
                \/ Begin(r) \/ Release(r)
             /\ pass'[r].request = pass[r].request /\ pass'[r].mode = pass[r].mode
             /\ pass'[r].step \in {"release", "finish"} => PurgeStores(r) \/ Release(r)
          \/ /\ ReadPurge(r) /\ pass'[r].step = "begin"
             /\ pass'[r].request = owner.purge.request /\ pass'[r].mode = owner.purge.mode
    <2>1. CASE AlarmFires
      BY <1>1, <2>1 DEF AlarmFires, PassType
    <2>2. ASSUME NEW p \in Pass,
                 \/ TakeJob(p) \/ ReadPurge(p) \/ Quiesced(p) \/ PurgeStores(p)
                 \/ Begin(p) \/ Release(p),
                 NEW r \in Pass
          PROVE  \/ pass'[r] = pass[r]
                 \/ /\ TakeJob(r) \/ Quiesced(r) \/ PurgeStores(r) \/ Begin(r) \/ Release(r)
                    /\ pass'[r].request = pass[r].request /\ pass'[r].mode = pass[r].mode
                    /\ pass'[r].step \in {"release", "finish"} => PurgeStores(r) \/ Release(r)
                 \/ /\ ReadPurge(r) /\ pass'[r].step = "begin"
                    /\ pass'[r].request = owner.purge.request /\ pass'[r].mode = owner.purge.mode
      <3>1. CASE r # p
        <4>1. CASE TakeJob(p) \/ ReadPurge(p) \/ Quiesced(p)
          BY <1>1, <3>1, <4>1 DEF TakeJob, ReadPurge, Quiesced
        <4>2. CASE PurgeStores(p) \/ Begin(p) \/ Release(p)
          BY <1>1, <3>1, <4>2 DEF PurgeStores, Begin, Release
        <4> QED
          BY <2>2, <4>1, <4>2
      <3>2. CASE r = p
        <4>1. CASE TakeJob(p) \/ Quiesced(p) \/ PurgeStores(p) \/ Begin(p) \/ Release(p)
          BY <1>1, <3>2, <4>1
             DEF TakeJob, Quiesced, PurgeStores, Begin, Release, PassType
        <4>2. CASE ReadPurge(p)
          BY <1>1, <3>2, <4>2 DEF ReadPurge, PassType
        <4> QED
          BY <2>2, <4>1, <4>2
      <3> QED
        BY <3>1, <3>2
    <2> QED
      BY <2>1, <2>2
  <1>4. stored' \in {stored, {}}
    BY DEF AlarmFires, TakeJob, ReadPurge, Quiesced, PurgeStores, Begin, Release
  <1>5. ASSUME NEW r \in Pass
        PROVE  /\ pass'[r].request <= owner.gen
               /\ pass'[r].mode = "reset" => pass'[r].request >= 1
               /\ Emptied(r)' => Emptied(r) \/ (stored' = {} /\ Active = {})
    <2>1. /\ pass'[r].request <= owner.gen
          /\ pass'[r].mode = "reset" => pass'[r].request >= 1
      BY <1>3 DEF FreshInv, RequestsGrow
    <2>2. ASSUME PurgeStores(r) PROVE stored' = {} /\ Active = {}
      BY <2>2 DEF PurgeStores, PeaceInv, Fenced, Deleting
    <2>3. ASSUME Release(r), Emptied(r)', pass'[r].request = pass[r].request,
                 pass'[r].mode = pass[r].mode
          PROVE  Emptied(r)
      BY <1>2, <2>3 DEF Release, Emptied
    <2>4. pass'[r] = pass[r] /\ Emptied(r)' => Emptied(r)
      BY <1>2 DEF Emptied
    <2> QED
      BY <1>3, <2>1, <2>2, <2>3, <2>4 DEF Emptied
  <1> QED
    BY <1>2, <1>4, <1>5, QuietFresh

\* The end of a purge: a reset reopens the owner over empty stores.
LEMMA FinishFresh ==
    ASSUME PeaceInv, FreshInv, NEW p \in Pass, Finish(p)
    PROVE  FreshInv'
  <1>1. /\ pass \in [Pass -> PassType] /\ owner.gen \in Nat /\ owner \in OwnerType
        /\ \A q \in Pass : pass[q].request \in Int
    BY DEF PeaceInv, TypeInv, TypeOK, OwnerType, PassType, NoRequest
  <1>2. /\ UNCHANGED <<holder, lease, stored>>
        /\ \A q \in Pass : pass'[q] = IF q = p THEN IdlePass ELSE pass[q]
    BY <1>1 DEF Finish, JobDone, fenceVars
  <1>3. /\ IdlePass.step = "idle" /\ IdlePass.mode = "none" /\ IdlePass.request = -1
        /\ NoPurge.request = -1 /\ NoPurge.mode = "none"
    BY DEF IdlePass, NoPurge, NoRequest
  <1>4. \A q \in Pass : /\ pass'[q].request <= owner.gen
                        /\ pass'[q].mode = "reset" => pass'[q].request >= 1
    BY <1>1, <1>2, <1>3 DEF FreshInv, RequestsGrow
  <1>5. CASE owner.purge.request # pass[p].request
    <2>1. owner' = owner
      BY <1>5 DEF Finish
    <2>2. \A q \in Pass : Emptied(q)' => Emptied(q) \/ (stored' = {} /\ Active = {})
      BY <1>2, <1>3, <2>1 DEF Emptied
    <2> QED
      BY <1>2, <1>4, <2>1, <2>2, QuietFresh
  <1>6. CASE owner.purge.request = pass[p].request
    <2>1. /\ owner'.purge = NoPurge /\ owner'.gen = owner.gen
          /\ owner'.writable = (pass[p].mode = "reset")
      BY <1>1, <1>6 DEF Finish, OwnerType
    <2>2. RequestsGrow'
      BY <1>1, <1>3, <1>4, <2>1 DEF RequestsGrow
    <2>3. \A q \in Pass : ~Emptied(q)'
      BY <1>1, <1>2, <1>3, <1>4, <2>1 DEF Emptied
    <2>4. CurrentWhileOpen'
      <3>1. pass[p].mode = "reset" => Emptied(p)
        BY <1>6 DEF Finish, Emptied
      <3> QED
        BY <1>2, <2>1, <2>3, <3>1, CurrentKept DEF FreshInv, CurrentWhileOpen
    <2> QED
      BY <1>2, <2>1, <2>2, <2>4 DEF FreshInv, PendingIsClosed, NobodyWaits
  <1> QED
    BY <1>5, <1>6

LEMMA FreshStep == PeaceInv /\ FreshInv /\ [Next]_vars => FreshInv'
  <1> SUFFICES ASSUME PeaceInv, FreshInv, [Next]_vars PROVE FreshInv'
    OBVIOUS
  <1>1. CASE Next
    BY <1>1, NextCases, OwnerFresh, EndFresh, AdvanceFresh, FinishFresh, HolderFresh
  <1>2. CASE UNCHANGED vars
    BY <1>2
       DEF vars, fenceVars, accountVars, FreshInv, PendingIsClosed, RequestsGrow,
           CurrentWhileOpen, Emptied, OnlyCurrent, LetThrough, NobodyWaits, Active
  <1> QED
    BY <1>1, <1>2

\* An owner that accepts writes has no bytes that a chat's turn or an activity
\* wrote in a generation a reset retired, however late its lease was taken
\* (register looks at the fence alone; admitWithFenceLease looks at the owner in
\* the same call, and ownerInternal once more under an activity's lease), for
\* any number of builds beside them and whichever passes overlapped, failed or
\* were joined by a deletion.
THEOREM ResetsLeaveFresh == Spec => []FreshAfterReset
  <1>1. FreshInv => FreshAfterReset
    BY DEF FreshInv, CurrentWhileOpen, OnlyCurrent, FreshAfterReset
  <1> QED
    BY <1>1, InitFresh, FreshStep, PeaceHolds, PTL DEF Spec

-----------------------------------------------------------------------------
(* What becomes of the job of a purge that is pending.  A pass carries the  *)
(* row it took and the request it read; while the row in owner_jobs is      *)
(* still that one nobody has asked for anything since, so what is pending   *)
(* is the request of the pass, and its end is the end of the purge.  A row  *)
(* that was scheduled again has a later runAt.                              *)

Serving == {"begin", "quiesce", "purge", "release", "finish"}
Runs(p) == pass[p].step \in Serving \cup {"run"}

RowsAreOlder == \A p \in Pass : Runs(p) => pass[p].job.runAt <= job.runAt

ServesItsRow ==
    \A p \in Pass :
        pass[p].step \in Serving /\ pass[p].job.runAt = job.runAt =>
            owner.purge = NoPurge \/ owner.purge.request = pass[p].request

JobInv == RowsAreOlder /\ ServesItsRow

LEMMA InitJob == Init => JobInv
  BY DEF Init, JobInv, RowsAreOlder, ServesItsRow, Runs, Serving, IdlePass

\* A pass ends, or goes on with the row and the request it has.
GoesOn(p) ==
    \/ pass'[p].step \notin Serving \cup {"run"}
    \/ /\ pass'[p].job = pass[p].job /\ pass'[p].request = pass[p].request
       /\ Runs(p) /\ (pass'[p].step \in Serving => pass[p].step \in Serving)

\* A step that asks for no purge, or that schedules the row for what it asks.
LEMMA JobKept ==
    ASSUME TypeInv, JobInv, job' \in JobType,
           \A p \in Pass : GoesOn(p),
           \/ job'.runAt > job.runAt
           \/ job'.runAt = job.runAt /\ owner'.purge \in {owner.purge, NoPurge}
    PROVE  JobInv'
  <1>1. /\ job.runAt \in Nat /\ job'.runAt \in Nat
        /\ \A p \in Pass : pass[p].job.runAt \in Nat
    BY DEF TypeInv, TypeOK, PassType, JobType
  <1>2. RowsAreOlder'
    BY <1>1 DEF JobInv, RowsAreOlder, GoesOn, Runs
  <1>3. ServesItsRow'
    BY <1>1 DEF JobInv, RowsAreOlder, ServesItsRow, GoesOn, Runs
  <1> QED
    BY <1>2, <1>3 DEF JobInv

\* A job that ends never moves the row back.
LEMMA EndedRow ==
    ASSUME TypeInv, NEW p \in Pass, JobDone(p) \/ JobFailed(p)
    PROVE  /\ job' \in JobType /\ \A q \in Pass : GoesOn(q)
           /\ job'.runAt = job.runAt \/ job'.runAt > job.runAt
  <1>1. job \in JobType /\ pass \in [Pass -> PassType] /\ job.runAt \in Nat
    BY DEF TypeInv, TypeOK, JobType
  <1>2. \A q \in Pass : pass'[q] = IF q = p THEN IdlePass ELSE pass[q]
    BY <1>1 DEF JobDone, JobFailed
  <1>3. \A q \in Pass : GoesOn(q)
    BY <1>2 DEF GoesOn, Runs, Serving, IdlePass
  <1>4. CASE job' = job
    BY <1>1, <1>3, <1>4, JobTypes
  <1>5. CASE job' = [job EXCEPT !.on = FALSE]
    <2>1. job'.runAt = job.runAt
      BY <1>1, <1>5 DEF JobType
    <2> QED
      BY <1>3, <2>1, JobTypes
  <1>6. CASE job' = [job EXCEPT !.runAt = job.runAt + 1, !.attempts = pass[p].job.attempts + 1]
    <2>1. job'.runAt = job.runAt + 1
      BY <1>1, <1>6 DEF JobType
    <2> QED
      BY <1>1, <1>3, <2>1, JobTypes
  <1> QED
    BY <1>1, <1>4, <1>5, <1>6 DEF JobDone, JobFailed

LEMMA JobStep == TypeInv /\ JobInv /\ [Next]_vars => JobInv'
  <1> SUFFICES ASSUME TypeInv, JobInv, [Next]_vars PROVE JobInv'
    OBVIOUS
  <1>1. /\ job \in JobType /\ pass \in [Pass -> PassType] /\ job.runAt \in Nat
        /\ "close" \in Pass /\ "alarm" \in Pass
    BY DEF TypeInv, TypeOK, JobType, Pass
  <1>2. CASE Reset \/ CloseOwner
    <2>1. job' = [on |-> TRUE, runAt |-> job.runAt + 1, attempts |-> 0]
      BY <1>2 DEF Reset, CloseOwner, ScheduleJob
    <2>2. \A p \in Pass : GoesOn(p)
      BY <1>1, <1>2 DEF Reset, CloseOwner, GoesOn, Runs, Serving, PassType
    <2>3. job' \in JobType /\ job'.runAt > job.runAt
      BY <1>1, <2>1 DEF JobType
    <2> QED
      BY <2>2, <2>3, JobKept
  <1>3. CASE BillingCloses \/ AlarmFires \/ GateCrashes
    <2>1. UNCHANGED <<owner, job>>
      BY <1>3 DEF BillingCloses, AlarmFires, GateCrashes
    <2>2. \A p \in Pass : GoesOn(p)
      BY <1>1, <1>3
         DEF BillingCloses, AlarmFires, GateCrashes, GoesOn, Runs, Serving, PassType, IdlePass
    <2> QED
      BY <1>1, <2>1, <2>2, JobKept
  <1>4. ASSUME NEW p \in Pass, TakeJob(p) PROVE JobInv'
    <2>1. /\ UNCHANGED <<owner, job>>
          /\ \A q \in Pass : q # p => pass'[q] = pass[q]
          /\ pass'[p].step = "run" /\ pass'[p].job = job
      BY <1>1, <1>4 DEF TakeJob, PassType
    <2> QED
      BY <1>1, <2>1 DEF JobInv, RowsAreOlder, ServesItsRow, Runs, Serving
  <1>5. ASSUME NEW p \in Pass, ReadPurge(p) PROVE JobInv'
    <2>1. /\ UNCHANGED <<owner, job>> /\ pass[p].step = "run"
          /\ \A q \in Pass : q # p => pass'[q] = pass[q]
          /\ pass'[p].job = pass[p].job /\ pass'[p].request = owner.purge.request
      BY <1>1, <1>5 DEF ReadPurge, PassType
    <2> QED
      BY <2>1 DEF JobInv, RowsAreOlder, ServesItsRow, Runs, Serving
  <1>6. ASSUME NEW p \in Pass,
               Quiesced(p) \/ PurgeStores(p) \/ NoneDue(p) \/ Begin(p) \/ Release(p)
        PROVE  JobInv'
    <2>1. UNCHANGED <<owner, job>>
      BY <1>6 DEF Quiesced, PurgeStores, NoneDue, Begin, Release
    <2>2. \A q \in Pass : q # p => pass'[q] = pass[q]
      BY <1>1, <1>6 DEF Quiesced, PurgeStores, NoneDue, Begin, Release
    <2>3. GoesOn(p)
      BY <1>1, <1>6
         DEF Quiesced, PurgeStores, NoneDue, Begin, Release, GoesOn, Runs, Serving, PassType,
             IdlePass
    <2>4. \A q \in Pass : GoesOn(q)
      BY <2>2, <2>3 DEF GoesOn, Runs, Serving
    <2> QED
      BY <1>1, <2>1, <2>4, JobKept
  <1>7. ASSUME NEW p \in Pass,
               \/ NothingToPurge(p) \/ QuiesceTimesOut(p) \/ PurgePending(p)
               \/ ReleaseRefused(p) \/ BeginFails(p) \/ Finish(p)
        PROVE  JobInv'
    <2>1. JobDone(p) \/ JobFailed(p)
      BY <1>7
         DEF NothingToPurge, QuiesceTimesOut, PurgePending, ReleaseRefused, BeginFails, Finish
    <2>2. owner'.purge \in {owner.purge, NoPurge}
      <3>1. owner \in OwnerType
        BY DEF TypeInv, TypeOK
      <3> QED
        BY <1>7, <3>1
           DEF NothingToPurge, QuiesceTimesOut, PurgePending, ReleaseRefused, BeginFails, Finish,
               OwnerType
    <2> QED
      BY <2>1, <2>2, EndedRow, JobKept
  <1>8. CASE UNCHANGED <<owner, job, pass>>
    BY <1>8 DEF JobInv, RowsAreOlder, ServesItsRow, Runs
  <1>9. ASSUME NEW h \in Holder, HolderSteps(h) \/ \E p \in Pass : CancelTurn(p, h)
        PROVE  UNCHANGED <<owner, job, pass>>
    BY <1>9
       DEF HolderSteps, Admit, Register, RegisterRefused, AdmitAndRegister, BeginUpload,
           StartWrite, Write, StopWork, Retire, Abandon, AcquireGrant, TimePasses, CancelTurn,
           accountVars
  <1>10. UNCHANGED vars => UNCHANGED <<owner, job, pass>>
    BY DEF vars, accountVars
  <1> QED
    BY <1>2, <1>3, <1>4, <1>5, <1>6, <1>7, <1>8, <1>9, <1>10, NextCases

LEMMA JobHolds == Spec => [](TypeInv /\ JobInv)
  BY InitJob, JobStep, TypeHolds, PTL DEF Spec

\* A step that deletes the row of a purge that stays pending.
LEMMA RowDropped ==
    ASSUME TypeInv, JobInv, [Next]_vars, job.on, ~job'.on, owner'.purge # NoPurge
    PROVE  \E p \in Pass : Ends(p) /\ pass[p].job.attempts + 1 >= MaxAttempts
  <1>1. job \in JobType /\ pass \in [Pass -> PassType] /\ owner \in OwnerType
    BY DEF TypeInv, TypeOK
  <1>2. job' # job
    OBVIOUS
  <1>3. ~Reset /\ ~CloseOwner
    BY DEF Reset, CloseOwner, ScheduleJob
  <1>4. PICK p \in Pass :
          \/ NothingToPurge(p) \/ QuiesceTimesOut(p) \/ PurgePending(p)
          \/ ReleaseRefused(p) \/ BeginFails(p) \/ Finish(p)
    BY <1>2, <1>3, NextCases
       DEF BillingCloses, AlarmFires, GateCrashes, TakeJob, ReadPurge, Quiesced, PurgeStores,
           NoneDue, Begin, Release, CancelTurn, HolderSteps, Admit, Register, RegisterRefused,
           AdmitAndRegister, BeginUpload, StartWrite, Write, StopWork, Retire, Abandon,
           AcquireGrant, TimePasses, accountVars, vars
  <1>5. ~NothingToPurge(p)
    BY DEF NothingToPurge
  <1>6. ASSUME Finish(p) PROVE FALSE
    <2>1. job = pass[p].job /\ pass[p].step = "finish"
      BY <1>2, <1>6 DEF Finish, JobDone
    <2>2. owner.purge = NoPurge \/ owner.purge.request = pass[p].request
      BY <2>1 DEF JobInv, ServesItsRow, Serving
    <2>3. owner'.purge = NoPurge
      BY <1>1, <1>6, <2>2 DEF Finish, OwnerType
    <2> QED
      BY <2>3
  <1>7. JobFailed(p) /\ pass[p].step # "idle"
    BY <1>4, <1>5, <1>6
       DEF QuiesceTimesOut, PurgePending, ReleaseRefused, BeginFails
  <1>8. Ends(p)
    BY <1>1, <1>7 DEF JobFailed, Ends, IdlePass
  <1>9. pass[p].job.attempts + 1 >= MaxAttempts
    BY <1>1, <1>7 DEF JobFailed, JobType
  <1> QED
    BY <1>8, <1>9

\* "A pass that leaves stores pending is retried by the job" (owner-gate.ts:572):
\* whichever calls, passes, failures and crashes overlap, the row of a purge
\* that is pending leaves owner_jobs only when a pass fails whose own row was on
\* its last attempt.  (The row it deletes need not be its own: the last failure
\* deletes by id, store.ts:704.)
THEOREM PendingJobsAreKept == Spec => PendingJobIsKept
  <1>1. ASSUME TypeInv, JobInv, [Next]_vars
        PROVE  [job.on /\ ~job'.on /\ owner'.purge # NoPurge
                  => \E p \in Pass : Ends(p) /\ pass[p].job.attempts + 1 >= MaxAttempts]_vars
    BY <1>1, RowDropped
  <1> QED
    BY <1>1, JobHolds, PTL DEF Spec, PendingJobIsKept

=============================================================================
