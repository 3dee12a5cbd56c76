---------------------------- MODULE AccountPurge ----------------------------
(***************************************************************************)
(* Resetting and deleting an account: owner_state and the account.purge    *)
(* job (owner-store/domains/account.ts, owner-store/store.ts), the passes  *)
(* that run it (owner-purge.ts, build-session/owner-purge-transfer.ts),    *)
(* and those who write the owner's data under a lease: the turns of chats, *)
(* which the gate admits and leases in one call, the turns of builds       *)
(* (build-session/owner-fence-leases.ts), admitted first and leased later, *)
(* and activities (owner-activity-lease.ts): uploads to the cloud home,    *)
(* which read a generation, take a lease and ask the gate for their keys.  *)
(*                                                                         *)
(* Two passes can run at once: the alarm's, and closeOwner's own.          *)
(***************************************************************************)
EXTENDS OwnerFence

CONSTANTS
    Calls,        \* which of "reset" and "delete" the user asks for
    Together,     \* the turns of chats, admitted and registered by one call
    MaxAttempts,  \* maxAttempts of the account.purge job (100)
    MaxResets,    \* bounds
    MaxCloses,
    MaxFaults

ASSUME AccountAssumption ==
    /\ Calls \subseteq {"reset", "delete"}
    /\ Together \subseteq Holder \ Activity
    /\ MaxAttempts \in Nat \ {0}
    /\ {MaxResets, MaxCloses, MaxFaults} \subseteq Nat

VARIABLES
    owner,    \* the owner_state row
    job,      \* the account.purge row of owner_jobs
    pass,     \* the passes under way
    holder,   \* what each turn or activity is doing
    stored,   \* what the owner's stores keep: by whom, of which generation
    closes,   \* closeOwner calls so far
    faults    \* failures so far

accountVars == <<owner, job, pass, closes>>
vars == <<fenceVars, accountVars, holder, stored, faults>>

Pass == {"alarm", "close"}

NoPurge == [mode |-> "none", request |-> NoRequest]
CloseRequest == 0     \* `close:${ownerId}`; a reset's request names its generation

OwnerType ==
    [gen : Nat, writable : BOOLEAN, closed : BOOLEAN,
     purge : [mode : {"reset", "delete"}, request : Nat] \cup {NoPurge}]

\* runAt tells one scheduling of the row from the next.
JobType == [on : BOOLEAN, runAt : Nat, attempts : Nat]

PassType ==
    [step : {"idle", "billing", "jobs", "run", "begin", "quiesce", "purge",
             "release", "finish"},
     job : JobType, mode : {"none", "reset", "delete"},
     request : Nat \cup {NoRequest}, gen : Nat \cup {NoGeneration}]

\* admitted: its generation is read, its lease not yet registered; begun: an
\* activity has its keys; writing: asserted and on its way to a store; late:
\* so for up to half a lease already.
HolderStep == {"new", "admitted", "held", "begun", "writing", "late", "retiring",
               "done"}

Bytes == [by : Holder, gen : Nat]

NoJob == [on |-> FALSE, runAt |-> 0, attempts |-> 0]

IdlePass == [step |-> "idle", job |-> NoJob, mode |-> "none",
             request |-> NoRequest, gen |-> NoGeneration]

Init ==
    /\ FenceInit
    /\ owner = [gen |-> 0, writable |-> TRUE, closed |-> FALSE,
                purge |-> NoPurge]
    /\ job = NoJob
    /\ pass = [p \in Pass |-> IdlePass]
    /\ holder = [h \in Holder |-> [step |-> "new", gen |-> 0]]
    /\ stored = {}
    /\ closes = 0
    /\ faults = 0

Fault ==
    /\ faults < MaxFaults
    /\ faults' = faults + 1

-----------------------------------------------------------------------------
(* The user's calls.                                                       *)

ScheduleJob == job' = [on |-> TRUE, runAt |-> job.runAt + 1, attempts |-> 0]

\* beginOwnerPurge(ctx, "reset").
Reset ==
    /\ "reset" \in Calls /\ owner.gen < MaxResets
    /\ ~owner.closed
    /\ owner.purge = NoPurge
    /\ owner' = [owner EXCEPT
                   !.gen = @ + 1, !.writable = FALSE,
                   !.purge = [mode |-> "reset", request |-> owner.gen + 1]]
    /\ ScheduleJob
    /\ UNCHANGED <<fenceVars, pass, holder, stored, closes, faults>>

\* beginOwnerPurge(ctx, "delete"): joins the request of a purge under way.
Close ==
    owner' = [owner EXCEPT
                !.writable = FALSE, !.closed = TRUE,
                !.purge = [mode |-> "delete",
                           request |-> IF owner.purge = NoPurge THEN CloseRequest
                                       ELSE owner.purge.request]]

\* closeOwner() up to the Stripe call.
CloseOwner ==
    /\ "delete" \in Calls /\ closes < MaxCloses
    /\ pass["close"].step = "idle"
    /\ Close
    /\ ScheduleJob
    /\ pass' = [pass EXCEPT !["close"].step = "billing"]
    /\ closes' = closes + 1
    /\ UNCHANGED <<fenceVars, holder, stored, faults>>

BillingCloses ==
    /\ pass["close"].step = "billing"
    /\ \/ pass' = [pass EXCEPT !["close"].step = "jobs"] /\ UNCHANGED faults
       \/ pass' = [pass EXCEPT !["close"].step = "idle"] /\ Fault
    /\ UNCHANGED <<fenceVars, owner, job, holder, stored, closes>>

-----------------------------------------------------------------------------
(* runDueJobs and runAccountPurge.                                         *)

\* The alarm first replays a begin that could not revoke every reader.
AlarmFires ==
    /\ pass["alarm"].step = "idle"
    /\ job.on \/ barrier # NoOperation
    /\ pass' = [pass EXCEPT !["alarm"].step = "jobs"]
    /\ IF barrier = NoOperation
       THEN UNCHANGED <<fenceVars, faults>>
       ELSE \/ BeginCommits(barrier) /\ UNCHANGED faults
            \/ BeginRejected(barrier) /\ UNCHANGED faults
            \/ BeginIncomplete(barrier) /\ Fault
    /\ UNCHANGED <<owner, job, holder, stored, closes>>

TakeJob(p) ==
    /\ pass[p].step = "jobs"
    /\ job.on
    /\ pass' = [pass EXCEPT ![p].step = "run", ![p].job = job]
    /\ UNCHANGED <<fenceVars, owner, job, holder, stored, closes, faults>>

\* No row, or one that is backing off.
NoneDue(p) ==
    /\ pass[p].step = "jobs"
    /\ job.on => job.attempts > 0
    /\ pass' = [pass EXCEPT ![p] = IdlePass]
    /\ UNCHANGED <<fenceVars, owner, job, holder, stored, closes, faults>>

\* Mutant: the row is deleted even if it was rescheduled.
JobDoneAnyway(p) ==
    /\ job' = [job EXCEPT !.on = FALSE]
    /\ pass' = [pass EXCEPT ![p] = IdlePass]

\* The row is deleted unless it was rescheduled meanwhile.
JobDone(p) ==
    /\ job' = IF job = pass[p].job THEN [job EXCEPT !.on = FALSE] ELSE job
    /\ pass' = [pass EXCEPT ![p] = IdlePass]

\* Mutant: a job that failed is not tried again.
JobFailedForGood(p) ==
    /\ job' = IF job = pass[p].job THEN [job EXCEPT !.on = FALSE] ELSE job
    /\ pass' = [pass EXCEPT ![p] = IdlePass]

\* The job threw: back off, or drop the row after the last attempt.
JobFailed(p) ==
    LET attempts == pass[p].job.attempts + 1 IN
    /\ job' = IF attempts >= MaxAttempts THEN [job EXCEPT !.on = FALSE]
              ELSE IF job.on /\ job.runAt = pass[p].job.runAt
              THEN [job EXCEPT !.runAt = @ + 1, !.attempts = attempts]
              ELSE job
    /\ pass' = [pass EXCEPT ![p] = IdlePass]

\* runAccountPurge up to its first await.
ReadPurge(p) ==
    /\ pass[p].step = "run"
    /\ owner.purge # NoPurge
    /\ pass' = [pass EXCEPT ![p].step = "begin", ![p].mode = owner.purge.mode,
                            ![p].request = owner.purge.request]
    /\ UNCHANGED <<fenceVars, owner, job, holder, stored, closes, faults>>

NothingToPurge(p) ==
    /\ pass[p].step = "run"
    /\ owner.purge = NoPurge
    /\ JobDone(p)
    /\ UNCHANGED <<fenceVars, owner, holder, stored, closes, faults>>

-----------------------------------------------------------------------------
(* runOwnerPurge: one pass.                                                *)

Operation(p) ==
    [request |-> pass[p].request,
     mode |-> IF pass[p].mode = "delete" THEN "permanent" ELSE "temporary"]

Begin(p) ==
    /\ pass[p].step = "begin"
    /\ BeginCommits(Operation(p))
    /\ pass' = [pass EXCEPT ![p].step = "quiesce", ![p].gen = fence'.gen]
    /\ UNCHANGED <<owner, job, holder, stored, closes, faults>>

BeginFails(p) ==
    /\ pass[p].step = "begin"
    /\ \/ BeginRejected(Operation(p)) /\ UNCHANGED faults
       \/ BarrierBusy(Operation(p)) /\ UNCHANGED <<fenceVars, faults>>
       \/ BeginIncomplete(Operation(p)) /\ Fault
    /\ JobFailed(p)
    /\ UNCHANGED <<owner, holder, stored, closes>>

\* /owner-purge-cancel stops a turn that holds a lease.
CancelTurn(p, h) ==
    /\ pass[p].step = "quiesce"
    /\ h \in Active \ Activity
    /\ holder[h].step = "held"
    /\ holder' = [holder EXCEPT ![h].step = "retiring"]
    /\ UNCHANGED <<fenceVars, accountVars, stored, faults>>

\* Mutant: only the leases a cancel can reach are waited for.
QuiescedTurns(p) ==
    /\ pass[p].step = "quiesce"
    /\ AssertsBlocked(pass[p].gen)
    /\ Active \subseteq Activity
    /\ pass' = [pass EXCEPT ![p].step = "purge"]
    /\ UNCHANGED <<fenceVars, owner, job, holder, stored, closes, faults>>

Quiesced(p) ==
    /\ pass[p].step = "quiesce"
    /\ AssertsBlocked(pass[p].gen)
    /\ Active = {}
    /\ pass' = [pass EXCEPT ![p].step = "purge"]
    /\ UNCHANGED <<fenceVars, owner, job, holder, stored, closes, faults>>

\* 200 rounds of 250 ms were not enough.
QuiesceTimesOut(p) ==
    /\ pass[p].step = "quiesce"
    /\ Active # {}
    /\ Fault
    /\ JobFailed(p)
    /\ UNCHANGED <<fenceVars, owner, holder, stored, closes>>

PurgeStores(p) ==
    /\ pass[p].step = "purge"
    /\ stored' = {}
    /\ pass' = [pass EXCEPT ![p].step = IF pass[p].mode = "reset"
                                        THEN "release" ELSE "finish"]
    /\ UNCHANGED <<fenceVars, owner, job, holder, closes, faults>>

\* Some store is pending: the others may have been emptied.
PurgePending(p) ==
    /\ pass[p].step = "purge"
    /\ \E kept \in SUBSET stored : stored' = kept
    /\ Fault
    /\ JobFailed(p)
    /\ UNCHANGED <<fenceVars, owner, holder, closes>>

Release(p) ==
    /\ pass[p].step = "release"
    /\ ReleaseFence(pass[p].gen)
    /\ pass' = [pass EXCEPT ![p].step = "finish"]
    /\ UNCHANGED <<lease, grant, barrier, owner, job, holder, stored, closes,
                   faults>>

\* A deletion made the fence permanent.
ReleaseRefused(p) ==
    /\ pass[p].step = "release"
    /\ ~Releases(pass[p].gen) /\ ~AlreadyReleased(pass[p].gen)
    /\ JobFailed(p)
    /\ UNCHANGED <<fenceVars, owner, holder, stored, closes, faults>>

\* The last statement of runAccountPurge, conditional on the request.
Finish(p) ==
    /\ pass[p].step = "finish"
    /\ owner' = IF owner.purge.request = pass[p].request
                THEN [owner EXCEPT !.purge = NoPurge,
                                   !.writable = pass[p].mode = "reset"]
                ELSE owner
    /\ JobDone(p)
    /\ UNCHANGED <<fenceVars, holder, stored, closes, faults>>

\* The object is evicted, inside a begin or the alarm's replay of one too:
\* its passes are gone.
GateCrashes ==
    /\ Fault
    /\ \/ (\E p \in Pass : pass[p].step # "idle") /\ UNCHANGED fenceVars
       \/ \E p \in Pass : pass[p].step = "begin" /\ BeginInterrupted(Operation(p))
       \/ /\ pass["alarm"].step = "idle" /\ barrier # NoOperation
          /\ BeginInterrupted(barrier)
    /\ pass' = [p \in Pass |-> IdlePass]
    /\ UNCHANGED <<owner, job, holder, stored, closes>>

-----------------------------------------------------------------------------
(* The holders of leases.                                                  *)

\* A build's turn is admitted by the gate; an activity reads the generation and
\* does not ask whether the owner is writable (ownerAccess).
Admit(h) ==
    /\ h \notin Together
    /\ holder[h].step = "new"
    /\ owner.writable \/ h \in Activity
    /\ holder' = [holder EXCEPT ![h] = [step |-> "admitted", gen |-> owner.gen]]
    /\ UNCHANGED <<fenceVars, accountVars, stored, faults>>

\* registerBuildOwnerFenceLease and withOwnerActivityLease, at any later time;
\* when the answer is lost the work fails and retires what it may have
\* registered.
Register(h) ==
    /\ holder[h].step = "admitted"
    /\ RegisterLease(h, holder[h].gen)
    /\ \/ holder' = [holder EXCEPT ![h].step = "held"] /\ UNCHANGED faults
       \/ holder' = [holder EXCEPT ![h].step = "retiring"] /\ Fault
    /\ UNCHANGED <<fence, grant, barrier, accountVars, stored>>

RegisterRefused(h) ==
    /\ holder[h].step = "admitted"
    /\ fence.state = "blocked"
    /\ holder' = [holder EXCEPT ![h].step = "done"]
    /\ UNCHANGED <<fenceVars, accountVars, stored, faults>>

\* snapshotWithFenceLease / admitWithFenceLease: both in one call.
AdmitAndRegister(h) ==
    /\ h \in Together
    /\ holder[h].step = "new"
    /\ owner.writable
    /\ RegisterLease(h, owner.gen)
    /\ holder' = [holder EXCEPT ![h] = [step |-> "held", gen |-> owner.gen]]
    /\ UNCHANGED <<fence, grant, barrier, accountVars, stored, faults>>

\* Mutant: the gate serves an upload of any generation.
BeginUploadAnyway(h) ==
    /\ h \in Activity
    /\ holder[h].step = "held"
    /\ holder' = [holder EXCEPT ![h].step = "begun"]
    /\ UNCHANGED <<fenceVars, accountVars, stored, faults>>

\* skills.begin, which ownerInternal refuses to a generation that is not the
\* current one.
BeginUpload(h) ==
    /\ h \in Activity
    /\ holder[h].step = "held"
    /\ holder[h].gen = owner.gen
    /\ holder' = [holder EXCEPT ![h].step = "begun"]
    /\ UNCHANGED <<fenceVars, accountVars, stored, faults>>

\* From where a holder writes.
Ready(h) == IF h \in Activity THEN "begun" ELSE "held"

\* assertTurnWritable or assertExternalWrite before a write ...
StartWrite(h) ==
    /\ holder[h].step = Ready(h)
    /\ AssertLease(h)
    /\ holder' = [holder EXCEPT ![h].step = "writing"]
    /\ UNCHANGED <<fence, grant, barrier, accountVars, stored, faults>>

\* ... and the write itself, at any later time.
Write(h) ==
    /\ holder[h].step \in {"writing", "late"}
    /\ stored' = stored \cup {[by |-> h, gen |-> holder[h].gen]}
    /\ holder' = [holder EXCEPT ![h].step = Ready(h)]
    /\ UNCHANGED <<fenceVars, accountVars, faults>>

\* The gate or an assert refuses, the work ends, or its isolate is lost: the
\* lease is retired by its holder or later from its receipt.
StopWork(h) ==
    /\ holder[h].step \in {"held", "begun"}
    /\ holder' = [holder EXCEPT ![h].step = "retiring"]
    /\ UNCHANGED <<fenceVars, accountVars, stored, faults>>

\* A lost answer leaves the receipt, and the unregister is repeated.
Retire(h) ==
    /\ holder[h].step = "retiring"
    /\ UnregisterLease(h)
    /\ RetireGrant(h)
    /\ \/ holder' = [holder EXCEPT ![h].step = "done"] /\ UNCHANGED faults
       \/ UNCHANGED holder /\ Fault
    /\ UNCHANGED <<fence, barrier, accountVars, stored>>

\* An activity has no receipt: a lost isolate leaves its lease to expire.
Abandon(h) ==
    /\ h \in Activity
    /\ holder[h].step \in {"held", "begun", "writing", "late", "retiring"}
    /\ Fault
    /\ holder' = [holder EXCEPT ![h].step = "done"]
    /\ UNCHANGED <<fenceVars, accountVars, stored>>

\* acquireModelGrant, for a turn's own model.
AcquireGrant(h) ==
    /\ h \notin Activity
    /\ holder[h].step = "held"
    /\ IssueGrant(h)
    /\ UNCHANGED <<fence, lease, barrier, accountVars, holder, stored, faults>>

\* A write takes less than half a lease.
TimePasses(h) ==
    /\ holder[h].step # "late"
    /\ LeaseAges(h)
    /\ holder' = [holder EXCEPT ![h].step = IF @ = "writing" THEN "late" ELSE @]
    /\ UNCHANGED <<fence, grant, barrier, accountVars, stored, faults>>

-----------------------------------------------------------------------------
PassSteps(p) ==
    \/ TakeJob(p) \/ NoneDue(p) \/ ReadPurge(p) \/ NothingToPurge(p)
    \/ Begin(p) \/ BeginFails(p) \/ Quiesced(p) \/ QuiesceTimesOut(p)
    \/ PurgeStores(p) \/ PurgePending(p) \/ Release(p) \/ ReleaseRefused(p)
    \/ Finish(p)
    \/ \E h \in Holder : CancelTurn(p, h)

HolderSteps(h) ==
    \/ Admit(h) \/ Register(h) \/ RegisterRefused(h) \/ AdmitAndRegister(h)
    \/ BeginUpload(h) \/ StartWrite(h) \/ Write(h) \/ StopWork(h) \/ Retire(h)
    \/ Abandon(h) \/ AcquireGrant(h) \/ TimePasses(h)

Next ==
    \/ Reset \/ CloseOwner \/ BillingCloses \/ AlarmFires \/ GateCrashes
    \/ \E p \in Pass : PassSteps(p)
    \/ \E h \in Holder : HolderSteps(h)

Spec == Init /\ [][Next]_vars

\* Jobs are retried, alarms fire again, time passes, and what was sent is
\* answered; nothing makes the user call, a turn start or a fault happen.
Fairness ==
    /\ WF_vars(AlarmFires) /\ WF_vars(BillingCloses)
    /\ SF_vars(TakeJob("alarm"))
    /\ \A p \in Pass : WF_vars(PassSteps(p))
    /\ \A h \in Holder : /\ WF_vars(Register(h) \/ RegisterRefused(h))
                         /\ WF_vars(Write(h))
                         /\ WF_vars(TimePasses(h))

FairSpec == Spec /\ Fairness

-----------------------------------------------------------------------------
(* Properties.                                                             *)

\* The types of the variables.
TypeOK ==
    /\ fence \in FenceType
    /\ lease \in [Holder -> LeaseType]
    /\ grant \in [Holder -> GrantState]
    /\ barrier \in OperationType
    /\ owner \in OwnerType
    /\ job \in JobType
    /\ pass \in [Pass -> PassType]
    /\ holder \in [Holder -> [step : HolderStep, gen : Nat]]
    /\ stored \subseteq Bytes
    /\ closes \in 0..MaxCloses
    /\ faults \in 0..MaxFaults

Deleting(p) == pass[p].step \in {"purge", "release"}

\* "an owner purge waits for it instead of deleting state underneath it"
\* (owner-activity-lease.ts:11): while a pass empties the owner's stores its
\* fence stands in the generation the pass began, no lease is active, and
\* nobody who was allowed to write is still writing, whatever expired,
\* crashed, or joined the purge meanwhile.
PurgedInPeace ==
    \A p \in Pass : Deleting(p) =>
        /\ AssertsBlocked(pass[p].gen)
        /\ Active = {}
        /\ \A h \in Holder : holder[h].step \notin {"writing", "late"}

\* A blocked fence has no reader left (owner-gate/gate-base.ts:558): no grant is
\* active or half revoked, and no interrupted or replayed begin leaves one.
NoReaderBehindFence ==
    fence.state = "blocked" =>
        \A h \in Holder : grant[h] \notin {"active", "revoking"}

\* "a stale or fenced-off caller never leaves a lease behind" (owner-gate.ts:791)
\* and an upload "from before your cloud data was reset" is refused
\* (owner-gate.ts:363): an owner that accepts writes has no bytes that a chat's
\* turn or an activity wrote in a generation a reset retired, however late they
\* took their lease, whichever passes overlapped, failed or were joined.
FreshAfterReset ==
    owner.writable =>
        \A b \in stored : b.by \in Together \cup Activity => b.gen = owner.gen

\* Account deletion "closes the owner for good" (account.ts:8-9).
ClosedStaysClosed == owner.closed => ~owner.writable

Ends(p) == pass[p].step # "idle" /\ pass'[p].step = "idle"

\* "A pass that leaves stores pending is retried by the job" (owner-gate.ts:572):
\* while a purge is pending, whoever asked for it and whichever pass ran
\* beside it, its row is deleted by nothing but the last attempt of a pass.
PendingJobIsKept ==
    [][job.on /\ ~job'.on /\ owner'.purge # NoPurge
         => \E p \in Pass : Ends(p) /\ pass[p].job.attempts + 1 >= MaxAttempts]_vars

\* A reset reopens the owner, whatever failed on the way (finitely often),
\* unless the owner is deleted meanwhile.
ResetReopens == ~owner.writable /\ ~owner.closed ~> owner.writable \/ owner.closed

\* Deletion erases everything, and for good: no lease, write or reopened
\* fence brings back a byte.
DeletionErases == owner.closed ~> [](stored = {} /\ owner.purge = NoPurge)
=============================================================================
