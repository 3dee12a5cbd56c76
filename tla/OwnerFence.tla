----------------------------- MODULE OwnerFence -----------------------------
(***************************************************************************)
(* The owner fence (owner-fence-do.ts, owner-fence-store.ts,               *)
(* owner-generation.ts) and the model grants it revokes                    *)
(* (owner-model-grants.ts).  A fence is open, or blocked by one reset or   *)
(* deletion; work on the owner's data holds a lease.  Every call is one    *)
(* step of the owner's object: "begin" runs inside blockConcurrencyWhile,  *)
(* the others between two storage reads.                                   *)
(*                                                                         *)
(* Generations are UUIDs in the code and increasing numbers here.          *)
(***************************************************************************)
EXTENDS Integers, FiniteSets

CONSTANTS
    Holder,     \* turns, builds and activities; each registers at most one lease
    Activity    \* the holders a purge cannot cancel (namespace "activity")

ASSUME ActivityAssumption == Activity \subseteq Holder

VARIABLES
    fence,      \* the "ownerPurgeFence" record
    lease,      \* owner_fence_leases, one row for each holder
    grant,      \* owner_model_grants: the state of each holder's grant
    barrier     \* owner_model_grant_fence_barrier: the begin to replay

fenceVars == <<fence, lease, grant, barrier>>

NoGeneration == -1
NoRequest == -1
PurgeMode == {"temporary", "permanent"}

\* What identifies a begin: the hash of its body.
NoOperation == [request |-> NoRequest, mode |-> "none"]
OperationType == [request : Nat, mode : PurgeMode] \cup {NoOperation}

FenceType ==
    [state : {"open", "blocked"}, mode : PurgeMode \cup {"none"}, gen : Nat,
     begin : Nat \cup {NoRequest}, released : Nat \cup {NoGeneration}]

\* left: the halves of a lease's lifetime that remain, rounded up.
LeaseType ==
    [state : {"none", "active", "retired"}, left : 0..2,
     owner : Nat, gen : Nat]

GrantState == {"none", "active", "revoking", "revoked"}

FenceInit ==
    /\ fence = [state |-> "open", mode |-> "none", gen |-> 0,
                begin |-> NoRequest, released |-> NoGeneration]
    /\ lease = [h \in Holder |->
                  [state |-> "none", left |-> 0, owner |-> 0, gen |-> 0]]
    /\ grant = [h \in Holder |-> "none"]
    /\ barrier = NoOperation

Active == {h \in Holder : lease[h].state = "active"}

-----------------------------------------------------------------------------
(* Leases.                                                                 *)

\* register: refused while the fence is blocked.  The lease carries the
\* caller's owner generation, which the fence does not know better.
RegisterLease(h, owner) ==
    /\ fence.state = "open"
    /\ lease[h].state = "none"
    /\ lease' = [lease EXCEPT ![h] = [state |-> "active", left |-> 2,
                                      owner |-> owner, gen |-> fence.gen]]

\* assert: the fence is open in the caller's generation and the exact lease is
\* active.
Asserts(h) ==
    /\ fence.state = "open"
    /\ fence.gen = lease[h].gen
    /\ lease[h].state = "active"

\* ... and renews a lease with at most half its lifetime left.
AssertLease(h) ==
    /\ Asserts(h)
    /\ lease' = [lease EXCEPT ![h].left = 2]

\* unregister: a lease that is gone or retired already is answered the same.
UnregisterLease(h) ==
    lease' = [lease EXCEPT ![h].state = IF @ = "active" THEN "retired" ELSE @]

\* Mutant: a lease has no end.
LeaseAgesForever(h) ==
    /\ lease[h].state = "active"
    /\ lease' = [lease EXCEPT ![h].left = @ - 1]

\* Half a lifetime passes.  Every call expires the due leases first, so an
\* expired lease is a retired one.
LeaseAges(h) ==
    /\ lease[h].state = "active"
    /\ lease' = [lease EXCEPT
                   ![h].left = @ - 1,
                   ![h].state = IF lease[h].left = 1 THEN "retired" ELSE @]

-----------------------------------------------------------------------------
(* Model grants: what lets a turn's model read the owner's memory.         *)

\* issueModelGrant after assertCurrent, in one exclusive section: an open
\* fence of the lease's generation and no begin waiting for its replay.
IssueGrant(h) ==
    /\ Asserts(h)
    /\ barrier = NoOperation
    /\ grant[h] \in {"none", "revoked"}
    /\ grant' = [grant EXCEPT ![h] = "active"]

\* retireExactTurnLease deletes the row.
RetireGrant(h) == grant' = [grant EXCEPT ![h] = "none"]

\* Mutant: a reader whose revocation was begun is not asked again.
RevocableOnce == {h \in Holder : grant[h] = "active"}

\* revokeAll closes every grant before it asks their readers to freeze.
Revocable == {h \in Holder : grant[h] \in {"active", "revoking"}}

\* The readers outside "deaf" freeze; the grants of the others stay revoking.
RevokeAll(deaf) ==
    grant' = [h \in Holder |->
                IF h \notin Revocable THEN grant[h]
                ELSE IF h \in deaf THEN "revoking" ELSE "revoked"]

-----------------------------------------------------------------------------
(* begin.  No caller sends an expectedGeneration, so the rejoin of a       *)
(* released fence is not modelled.                                         *)

\* ownerPurgeBeginDisposition.
BeginDisposition(op) ==
    IF fence.state = "open" THEN "start"
    ELSE IF fence.begin = op.request THEN "resume" ELSE "reject"

\* Starting a fence, or making one permanent, first revokes every reader.
ChangesAuthority(op) ==
    \/ BeginDisposition(op) = "start"
    \/ BeginDisposition(op) = "resume" /\ op.mode = "permanent"

\* FENCE_BARRIER_BUSY: another begin waits for its replay.
BarrierBusy(op) ==
    ChangesAuthority(op) /\ barrier \notin {NoOperation, op}

BarrierCompleted(op) ==
    barrier' = IF barrier = op THEN NoOperation ELSE barrier

\* The fence that a begin writes.
FenceBegun(op) ==
    IF BeginDisposition(op) = "start"
    THEN [fence EXCEPT !.state = "blocked", !.mode = op.mode,
                       !.gen = @ + 1, !.begin = op.request]
    ELSE [fence EXCEPT !.mode = IF op.mode = "permanent" THEN "permanent" ELSE @]

BeginCommits(op) ==
    /\ BeginDisposition(op) # "reject"
    /\ ~BarrierBusy(op)
    /\ IF ChangesAuthority(op) THEN RevokeAll({}) ELSE UNCHANGED grant
    /\ fence' = FenceBegun(op)
    /\ BarrierCompleted(op)
    /\ UNCHANGED lease

\* A refusal is a definite result, and closes the replay marker too.
BeginRejected(op) ==
    /\ BeginDisposition(op) = "reject"
    /\ BarrierCompleted(op)
    /\ UNCHANGED <<fence, lease, grant>>

\* REVOKE_INCOMPLETE: some reader did not answer; the marker stays for the
\* alarm and closes the issuance of grants.
BeginIncomplete(op) ==
    /\ ChangesAuthority(op) /\ ~BarrierBusy(op)
    /\ \E deaf \in (SUBSET Revocable) \ {{}} : RevokeAll(deaf)
    /\ barrier' = op
    /\ UNCHANGED <<fence, lease>>

\* The object is lost inside a begin that has written its marker: before it
\* closed the grants, while their readers freeze, or with the fence written
\* and the marker not yet cleared.
BeginInterrupted(op) ==
    /\ ChangesAuthority(op) /\ ~BarrierBusy(op)
    /\ barrier' = op
    /\ \/ UNCHANGED <<fence, grant>>
       \/ /\ \E deaf \in SUBSET Revocable : RevokeAll(deaf)
          /\ UNCHANGED fence
       \/ RevokeAll({}) /\ fence' = FenceBegun(op)
    /\ UNCHANGED lease

-----------------------------------------------------------------------------
(* release and assert-blocked.                                             *)

AssertsBlocked(gen) == fence.state = "blocked" /\ fence.gen = gen

\* ownerPurgeReleaseDisposition.
Releases(gen) ==
    /\ AssertsBlocked(gen)
    /\ fence.mode = "temporary"
    /\ Active = {}

AlreadyReleased(gen) == fence.state = "open" /\ fence.released = gen

ReleaseFence(gen) ==
    /\ Releases(gen) \/ AlreadyReleased(gen)
    /\ fence' = IF AlreadyReleased(gen) THEN fence
                ELSE [state |-> "open", mode |-> "none", gen |-> fence.gen + 1,
                      begin |-> NoRequest, released |-> fence.gen]
=============================================================================
