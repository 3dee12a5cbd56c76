-------------------------- MODULE PlacementBridge --------------------------
(***************************************************************************)
(* The computer's side of a dispatch: the execution placement bridge and   *)
(* its durable inbox (packages/runtime/host/execution-placement-*.ts).     *)
(*                                                                         *)
(* The bridge is one JavaScript process.  A handler runs to its next await *)
(* and may be interleaved there.  `inbox` is SQLite and survives a crash;  *)
(* `local` is what the process remembers of a dispatch and does not.  The  *)
(* worker that runs the prompt is another process (`work`).                *)
(*                                                                         *)
(* The operators below are the synchronous stretches of code: each takes a *)
(* context c (the row, the memory, the work of one dispatch and the frames *)
(* sent so far) and returns the context it leaves.                         *)
(***************************************************************************)
EXTENDS Naturals, Sequences, FiniteSets, DispatchPolicy

CONSTANTS Dispatch

ASSUME BridgeAssumption == IsFiniteSet(Dispatch)

VARIABLES
    inbox,      \* execution_placement_inbox
    session,    \* the presence session in execution_placement_runtime_state
    proc,       \* the life of the bridge
    sock,       \* its presence socket: none, open, proven or closing
    local,      \* its memory of each dispatch
    work,       \* the worker's execution of each dispatch (external)
    toGate,     \* frames on their way to the gate
    toDevice    \* frames on their way from the gate

Outcome == {"completed", "failed", "canceled"}

Executable == {"claimed", "accepted", "running"}
Unfinished == Executable \cup {"terminal_pending"}

InboxType ==
    [state   : Unfinished \cup {"absent", "terminal", "orphaned"},
     sess    : Nat,
     cancel  : BOOLEAN,                 \* cancel_rpc_pending
     orphan  : BOOLEAN,                 \* cancel_orphan_on_ack
     outcome : Outcome \cup {"none"}]   \* terminal_outcome

NoInboxRow == [state |-> "absent", sess |-> 0, cancel |-> FALSE,
               orphan |-> FALSE, outcome |-> "none"]

\* offer: an offer being claimed, or the answer of the computer's own submit;
\* task: resumeLocal, awaiting the run or somebody's cancellation or receipt;
\* cancel: the single flight retryCancellation; flush: the single flight
\* flushTerminal, awaiting the echo or the status read after it;
\* beat: a heartbeat holding the row it listed, or the status it then read.
LocalType ==
    [offer  : {"idle", "check", "wait", "submitted"},
     task   : {"idle", "run", "join"},
     cancel : {"idle", "rpc", "done"},
     flush  : {"idle", "wait", "ask"},
     beat   : [phase : {"idle", "row", "asked"},
               row : InboxType, state : DispatchState \cup {"absent"},
               placement : {"none", "computer", "cloud"}]]

NoBeat == [phase |-> "idle", row |-> NoInboxRow, state |-> "absent", placement |-> "none"]

Forgotten == [offer |-> "idle", task |-> "idle", cancel |-> "idle",
              flush |-> "idle", beat |-> NoBeat]

WorkType == [worker : {"none", "live", "done", "stopped"}, launches : Nat]

\* reconciling: started, and no socket until every staged cancellation is
\* acknowledged; rotating: the account changed under a live bridge;
\* stopping and draining: the two halves of stopAndQuiesce.
Life == {"down", "reconciling", "up", "rotating", "stopping", "draining"}

BridgeInit ==
    /\ inbox = [d \in Dispatch |-> NoInboxRow]
    /\ session = 1
    /\ proc = "up"
    /\ sock = "none"
    /\ local = [d \in Dispatch |-> Forgotten]
    /\ work = [d \in Dispatch |-> [worker |-> "none", launches |-> 0]]
    /\ toGate = <<>>
    /\ toDevice = <<>>

-----------------------------------------------------------------------------
(* The inbox.  Each statement is one UPDATE; its WHERE clause is the test.  *)

PersistClaim(sess) == [NoInboxRow EXCEPT !.state = "claimed", !.sess = sess]

StageCancellation(row, outcome, orphan) ==
    IF row.state \in Unfinished
    THEN [row EXCEPT !.cancel = TRUE, !.orphan = @ \/ orphan, !.outcome = outcome]
    ELSE row

AcknowledgeCancellation(row) ==
    IF row.cancel
    THEN [row EXCEPT !.state = IF row.orphan THEN "orphaned" ELSE "terminal_pending",
                     !.cancel = FALSE, !.orphan = FALSE]
    ELSE row

AcknowledgeClaimRelease(row) ==
    IF row.state = "claimed"
    THEN [row EXCEPT !.state = "orphaned", !.cancel = FALSE, !.orphan = FALSE]
    ELSE row

MarkAccepted(row) ==
    IF ~row.cancel /\ row.state \in {"claimed", "accepted"}
    THEN [row EXCEPT !.state = "accepted"] ELSE row

MarkRunning(row) ==
    IF ~row.cancel /\ row.state \in {"accepted", "running"}
    THEN [row EXCEPT !.state = "running"] ELSE row

MarkTerminalPending(row, outcome) ==
    IF ~row.cancel /\ row.state \in Unfinished
    THEN [row EXCEPT !.state = "terminal_pending", !.outcome = outcome] ELSE row

MarkTerminal(row) == IF row.cancel THEN row ELSE [row EXCEPT !.state = "terminal"]

MarkOrphaned(row) == IF row.cancel THEN row ELSE [row EXCEPT !.state = "orphaned"]

\* A new session strands what the old one started: the cancellation it owes is
\* recorded, everything else of the old session is orphaned.
OpenSession(row) ==
    IF row.state \in Executable
    THEN [row EXCEPT !.cancel = TRUE, !.orphan = TRUE, !.outcome = "canceled"]
    ELSE IF row.state = "terminal_pending" /\ ~row.cancel
    THEN [row EXCEPT !.state = "orphaned"]
    ELSE row

-----------------------------------------------------------------------------
(* Synchronous stretches of the bridge.                                    *)

Context(d) == [d |-> d, row |-> inbox[d], loc |-> local[d], work |-> work[d], out |-> <<>>]

Stopped == proc \in {"down", "stopping", "draining"}

\* send() succeeds on a proven socket, whether or not the gate still has it.
CanSend == sock = "proven"

Send(c, type, outcome) ==
    IF CanSend
    THEN [c EXCEPT !.out = Append(@, [type |-> type, d |-> c.d, outcome |-> outcome])]
    ELSE c

RetryCancellation(c) ==
    IF c.row.cancel /\ c.loc.cancel = "idle"
    THEN [c EXCEPT !.loc.cancel = "rpc"] ELSE c

\* Mutant: the receipt carries the wrong column.
FlushTerminalState(c) ==
    IF c.loc.flush = "idle" /\ c.row.state = "terminal_pending" /\ ~c.row.cancel /\ CanSend
    THEN [Send(c, "complete", c.row.state) EXCEPT !.loc.flush = "wait"]
    ELSE c

FlushTerminal(c) ==
    IF c.loc.flush = "idle" /\ c.row.state = "terminal_pending" /\ ~c.row.cancel /\ CanSend
    THEN [Send(c, "complete", c.row.outcome) EXCEPT !.loc.flush = "wait"]
    ELSE c

\* stageCancellation on the row as it is now, then retryCancellation.
StageAndRetry(c, outcome, orphan) ==
    RetryCancellation([c EXCEPT !.row = StageCancellation(@, outcome, orphan)])

\* Mutant: the outcome is recorded before the run is joined.
CancelAcceptedAtOnce(c, row) ==
    IF row.state \in {"terminal", "orphaned"} THEN c
    ELSE FlushTerminal([c EXCEPT !.row = MarkTerminalPending(@, "canceled")])

\* row is the caller's copy.
CancelAccepted(c, row) ==
    IF row.state \in {"terminal", "orphaned"} THEN c
    ELSE StageAndRetry(c, "canceled", FALSE)

Join(c) ==
    IF c.loc.cancel = "idle" /\ c.loc.flush = "idle" THEN c ELSE [c EXCEPT !.loc.task = "join"]

\* From markRunning to the call of runExecution; a row staged for cancellation
\* by then is not run.
RunLocal(c) ==
    LET marked == Send([c EXCEPT !.row = MarkRunning(@)], "running", "none") IN
    IF marked.row.cancel THEN Join(RetryCancellation(marked))
    ELSE [marked EXCEPT !.loc.task = "run",
                        !.work = [worker |-> "live", launches |-> @.launches + 1]]

\* resumeLocal on the caller's copy of the row and of the remote state.
ResumeLocal(c, row, remote) ==
    IF row.cancel THEN Join(RetryCancellation(c))
    ELSE IF remote = "cancel_pending" THEN Join(CancelAccepted(c, row))
    ELSE IF row.state = "claimed"
    THEN IF ~CanSend THEN c
         ELSE LET acked == [Send(c, "ack", "none") EXCEPT !.row = MarkAccepted(@)] IN
              IF acked.row.cancel THEN Join(RetryCancellation(acked)) ELSE RunLocal(acked)
    ELSE IF row.state = "terminal_pending" THEN Join(FlushTerminal(c))
    ELSE RunLocal(c)

\* Mutant: the set of executing dispatches is not consulted.
LaunchLocalAgain(c, row, remote) == IF Stopped THEN c ELSE ResumeLocal(c, row, remote)

LaunchLocal(c, row, remote) ==
    IF c.loc.task # "idle" \/ Stopped THEN c ELSE ResumeLocal(c, row, remote)

-----------------------------------------------------------------------------
(* Steps.                                                                  *)

Take(c) ==
    /\ inbox' = [inbox EXCEPT ![c.d] = c.row]
    /\ local' = [local EXCEPT ![c.d] = c.loc]
    /\ work' = [work EXCEPT ![c.d] = c.work]
    /\ toGate' = toGate \o c.out

Keep == UNCHANGED <<session, proc, sock, toDevice>>

\* The close event: a claim and a receipt that wait for a frame stop waiting.
SocketClosed ==
    /\ sock' = "none"
    /\ toDevice' = <<>>
    /\ local' = [d \in Dispatch |->
                   [local[d] EXCEPT !.offer = IF @ = "wait" THEN "idle" ELSE @,
                                    !.flush = IF @ = "wait" THEN "ask" ELSE @]]

Drop ==
    /\ sock # "none"
    /\ SocketClosed
    /\ UNCHANGED <<inbox, session, proc, work, toGate>>

\* The token is about to expire: re-authentication is a reconnect.
TokenRefresh ==
    /\ sock \in {"open", "proven"}
    /\ sock' = "closing"
    /\ UNCHANGED <<inbox, session, proc, local, work, toGate, toDevice>>

\* Availability is known: the claim goes out, unless the bridge is stopping,
\* the computer is not ready or the socket is gone.
ClaimOffer(d) ==
    /\ local[d].offer = "check"
    /\ LET c == Context(d) IN
       \/ Take([c EXCEPT !.loc.offer = "idle"])
       \/ /\ proc = "up" /\ CanSend
          /\ Take([Send(c, "claim", "none") EXCEPT !.loc.offer = "wait"])
    /\ Keep

ClaimTimesOut(d) ==
    /\ local[d].offer = "wait"
    /\ Take([Context(d) EXCEPT !.loc.offer = "idle"])
    /\ Keep

\* The answer of the computer's own submit.  The payload it sent becomes the
\* inbox row; the answer may also never come.
AdoptCommittedDispatch(d) ==
    /\ local[d].offer = "submitted"
    /\ LET c == [Context(d) EXCEPT !.loc.offer = "idle"]
           adopted == [c EXCEPT !.row = MarkAccepted(PersistClaim(session))] IN
       \/ Take(c)
       \/ Take(LaunchLocal(adopted, adopted.row, "computer_accepted"))
    /\ Keep

-----------------------------------------------------------------------------
(* Frames from the gate.                                                   *)

HandleOffer(c) ==
    IF proc = "up" /\ c.loc.task = "idle" /\ c.loc.offer = "idle" /\ c.row.state = "absent"
    THEN [c EXCEPT !.loc.offer = "check"] ELSE c

\* claimOffer goes on: the payload is committed before the ack.  A bridge that
\* stopped meanwhile hands the work back.
HandleClaimed(c) ==
    IF c.loc.offer # "wait" THEN c
    ELSE LET persisted == [c EXCEPT !.loc.offer = "idle", !.row = PersistClaim(session)] IN
         IF proc = "up" THEN LaunchLocal(persisted, persisted.row, "computer_claimed")
         ELSE StageAndRetry(persisted, "canceled", FALSE)

\* The inbox transaction failed: the claim is given back at once.
ClaimNotPersisted(c) ==
    IF c.loc.offer # "wait" THEN c
    ELSE Send([c EXCEPT !.loc.offer = "idle"], "release", "none")

HandleWithdrawn(c) == IF c.loc.offer = "wait" THEN [c EXCEPT !.loc.offer = "idle"] ELSE c

HandleCancel(c) == IF c.row.state = "absent" THEN c ELSE CancelAccepted(c, c.row)

ApplyDispatchUpdate(c, state) ==
    IF c.loc.flush = "wait" /\ IsTerminalDispatchState(state)
    THEN [c EXCEPT !.loc.flush = "idle", !.row = MarkTerminal(@)]
    ELSE IF c.row.state = "absent" THEN c
    ELSE IF state = "cancel_pending" THEN CancelAccepted(c, c.row)
    ELSE IF IsTerminalDispatchState(state)
    THEN IF c.row.state = "terminal_pending" THEN [c EXCEPT !.row = MarkTerminal(@)] ELSE c
    ELSE IF state \in {"computer_accepted", "computer_running"} /\ ~c.row.cancel
    THEN LaunchLocal(c, c.row, state)
    ELSE c

\* Every frame but `error` and `connected`.
Receive ==
    /\ toDevice # <<>> /\ sock \in {"proven", "closing"}
    /\ LET f == Head(toDevice) IN
       /\ f.type \notin {"error", "connected"}
       /\ \/ f.type = "offer" /\ Take(HandleOffer(Context(f.d)))
          \/ f.type = "claimed" /\ Take(HandleClaimed(Context(f.d)))
          \/ f.type = "claimed" /\ Take(ClaimNotPersisted(Context(f.d)))
          \/ f.type = "withdrawn" /\ Take(HandleWithdrawn(Context(f.d)))
          \/ f.type = "cancel" /\ Take(HandleCancel(Context(f.d)))
          \/ f.type = "dispatch" /\ Take(ApplyDispatchUpdate(Context(f.d), f.state))
    /\ toDevice' = Tail(toDevice)
    /\ UNCHANGED <<session, proc, sock>>

\* A refusal the gate does not call retryable closes the socket; frames behind
\* it are still delivered until the close event.
ReceiveError ==
    /\ toDevice # <<>> /\ Head(toDevice).type = "error"
    /\ sock \in {"proven", "closing"}
    /\ sock' = "closing"
    /\ toDevice' = Tail(toDevice)
    /\ UNCHANGED <<inbox, session, proc, local, work, toGate>>

\* The runs of this session that nobody stopped.
Announced == {d \in Dispatch : /\ inbox[d].state = "running" /\ inbox[d].sess = session
                               /\ ~inbox[d].cancel}

\* The socket is proven: resumeAfterConnect announces what is running.  The
\* cancellations and receipts it retries are steps of their own below.
ReceiveConnected ==
    /\ toDevice # <<>> /\ Head(toDevice).type = "connected"
    /\ sock = "open"
    /\ sock' = "proven"
    /\ toDevice' = Tail(toDevice)
    /\ \E order \in [1 .. Cardinality(Announced) -> Announced] :
         /\ \A d \in Announced : \E i \in DOMAIN order : order[i] = d
         /\ toGate' = toGate \o
              [i \in DOMAIN order |-> [type |-> "running", d |-> order[i], outcome |-> "none"]]
    /\ UNCHANGED <<inbox, session, proc, local, work>>

-----------------------------------------------------------------------------
(* The local run, its cancellation and its receipt.                        *)

WorkerEnds(d) ==
    /\ work[d].worker = "live"
    /\ work' = [work EXCEPT ![d].worker = "done"]
    /\ UNCHANGED <<inbox, local, toGate>> /\ Keep

\* runExecution resolves.  A cancellation staged meanwhile owns the outcome.
RunReturns(d) ==
    /\ local[d].task = "run" /\ work[d].worker \in {"done", "stopped"}
    /\ LET c == [Context(d) EXCEPT !.loc.task = "idle"] IN
       \/ /\ \/ c.row.cancel \/ c.row.state = "terminal"
             \/ c.row.state = "terminal_pending" /\ c.row.outcome = "canceled"
          /\ Take(Join(FlushTerminal(c)))
       \/ /\ ~c.row.cancel /\ c.row.state # "terminal"
          /\ ~(c.row.state = "terminal_pending" /\ c.row.outcome = "canceled")
          /\ \E outcome \in IF c.work.worker = "done" THEN {"completed", "failed"}
                            ELSE {"canceled"} :
               Take(Join(FlushTerminal([c EXCEPT !.row = MarkTerminalPending(@, outcome)])))
    /\ Keep

\* Mutant: a failed call is taken for a failed run.
RunThrowsFails(d) ==
    /\ local[d].task = "run"
    /\ LET c == [Context(d) EXCEPT !.loc.task = "idle"] IN
       Take(Join(FlushTerminal([c EXCEPT !.row = MarkTerminalPending(@, "failed")])))
    /\ Keep

\* The call of the worker failed, which says nothing about the run.
RunThrows(d) ==
    /\ local[d].task = "run"
    /\ LET c == [Context(d) EXCEPT !.loc.task = "idle"] IN
       Take(IF c.row.cancel \/ c.row.state \in {"terminal_pending", "terminal"} THEN c
              ELSE Join(StageAndRetry(c, "failed", FALSE)))
    /\ Keep

\* What the task awaited is over.
TaskJoins(d) ==
    /\ local[d].task = "join" /\ local[d].cancel = "idle" /\ local[d].flush = "idle"
    /\ Take([Context(d) EXCEPT !.loc.task = "idle"])
    /\ Keep

\* Mutant: the heartbeat retries cancellations and forgets receipts.
RetryOwedCancels(d) ==
    /\ proc \in {"reconciling", "up", "draining"}
    /\ inbox[d].cancel /\ local[d].cancel = "idle"
    /\ Take(RetryCancellation(Context(d)))
    /\ Keep

\* The heartbeat, a reconnect or a stop retries what is owed.
RetryOwed(d) ==
    /\ proc \in {"reconciling", "up", "draining"}
    /\ \/ inbox[d].cancel /\ local[d].cancel = "idle"
       \/ /\ inbox[d].state = "terminal_pending" /\ inbox[d].sess = session
          /\ proc \in {"up", "draining"} /\ local[d].flush = "idle" /\ CanSend
          /\ ~inbox[d].cancel
    /\ Take(FlushTerminal(RetryCancellation(Context(d))))
    /\ Keep

\* cancelExecution joined the run.
CancelExecution(d) ==
    /\ local[d].cancel = "rpc"
    /\ Take([Context(d) EXCEPT !.loc.cancel = "done",
                               !.work.worker = IF @ = "live" THEN "stopped" ELSE @])
    /\ Keep

\* It threw: the heartbeat asks again.
CancelDeferred(d) ==
    /\ local[d].cancel = "rpc"
    /\ Take([Context(d) EXCEPT !.loc.cancel = "idle"])
    /\ Keep

\* retryCancellation after the run is joined: the receipt of a retired session
\* is settled here, a claim never acknowledged is released, which needs the
\* socket, and anything else becomes a receipt to flush.
Joined(c) ==
    IF ~c.row.cancel THEN c
    ELSE IF c.row.sess # session THEN [c EXCEPT !.row = AcknowledgeCancellation(@)]
    ELSE IF c.row.state = "claimed"
    THEN IF CanSend
         THEN [Send(c, "release", "none") EXCEPT !.row = AcknowledgeClaimRelease(@)]
         ELSE c
    ELSE FlushTerminal([c EXCEPT !.row = AcknowledgeCancellation(@)])

CancelJoined(d) ==
    /\ local[d].cancel = "done"
    /\ Take(Joined([Context(d) EXCEPT !.loc.cancel = "idle"]))
    /\ Keep

FlushTimesOut(d) ==
    /\ local[d].flush = "wait"
    /\ Take([Context(d) EXCEPT !.loc.flush = "ask"])
    /\ Keep

\* One status read settles the receipt or leaves it to the next heartbeat.
FlushAsks(d, remote) ==
    /\ local[d].flush = "ask"
    /\ Take([Context(d) EXCEPT !.loc.flush = "idle",
               !.row = IF IsTerminalDispatchState(remote.state) THEN MarkTerminal(@) ELSE @])
    /\ Keep

FlushDeferred(d) ==
    /\ local[d].flush = "ask"
    /\ Take([Context(d) EXCEPT !.loc.flush = "idle"])
    /\ Keep

-----------------------------------------------------------------------------
(* The heartbeat lists the unfinished rows of the session, awaits, and then *)
(* acts on the rows it listed.                                              *)

BeatBegins(d) ==
    /\ proc = "up" /\ local[d].beat.phase = "idle"
    /\ inbox[d].state \in Executable /\ inbox[d].sess = session
    /\ Take([Context(d) EXCEPT !.loc.beat = [NoBeat EXCEPT !.phase = "row", !.row = inbox[d]]])
    /\ Keep

\* Renewal of the lease.  Renewals that have failed for the whole grace period
\* stop the run.
BeatRenews(d) ==
    /\ local[d].beat.phase = "row"
    /\ LET row == local[d].beat.row
           c == [Context(d) EXCEPT !.loc.beat = NoBeat] IN
       /\ row.cancel \/ row.state # "claimed"
       /\ \/ Take(IF Stopped THEN c ELSE Send(c, "renew", "none"))
          \/ /\ ~row.cancel /\ ~CanSend /\ ~Stopped
             /\ Take(StageAndRetry(c, "canceled", FALSE))
    /\ Keep

\* A claim still unacknowledged is looked up before it is acknowledged again.
BeatAsks(d, remote) ==
    /\ local[d].beat.phase = "row"
    /\ local[d].beat.row.state = "claimed" /\ ~local[d].beat.row.cancel
    /\ LET c == Context(d) IN
       \/ Take([c EXCEPT !.loc.beat = NoBeat])
       \/ Take([c EXCEPT !.loc.beat.phase = "asked", !.loc.beat.state = remote.state,
                           !.loc.beat.placement = remote.placement])
    /\ Keep

BeatAnswered(d) ==
    /\ local[d].beat.phase = "asked"
    /\ LET b == local[d].beat
           c == [Context(d) EXCEPT !.loc.beat = NoBeat] IN
       Take(IF b.placement = "cloud" \/ IsTerminalDispatchState(b.state)
              THEN [c EXCEPT !.row = MarkOrphaned(@)]
              ELSE LaunchLocal(c, b.row, b.state))
    /\ Keep

-----------------------------------------------------------------------------
(* The life of the bridge.                                                 *)

\* A crash takes the socket and the memory; the worker may outlive it.
Crash ==
    /\ proc # "down"
    /\ proc' = "down"
    /\ sock' = "none"
    /\ toDevice' = <<>>
    /\ local' = [d \in Dispatch |-> Forgotten]
    /\ \/ UNCHANGED work
       \/ work' = [d \in Dispatch |-> [work[d] EXCEPT !.worker =
                                         IF @ = "live" THEN "stopped" ELSE @]]
    /\ UNCHANGED <<inbox, session, toGate>>

\* Mutant: a restart strands the rows of its own session too.
StartStrands(sess, stopSeen) ==
    /\ proc = "down" /\ \A d \in Dispatch : local[d].offer = "idle"
    /\ proc' = "reconciling"
    /\ session' = sess
    /\ inbox' = [d \in Dispatch |-> OpenSession(inbox[d])]
    /\ UNCHANGED <<sock, local, work, toGate, toDevice>>

\* start(): the inbox is opened for this account, then whatever a process that
\* is gone had in hand is staged for cancellation, with the outcome a status
\* read makes truthful.
Start(sess, stopSeen) ==
    /\ proc = "down" /\ \A d \in Dispatch : local[d].offer = "idle"
    /\ proc' = "reconciling"
    /\ session' = sess
    /\ LET opened(d) == IF sess = session THEN inbox[d] ELSE OpenSession(inbox[d]) IN
       inbox' = [d \in Dispatch |->
                   IF opened(d).state \in Executable /\ ~opened(d).cancel
                   THEN StageCancellation(opened(d),
                                          IF d \in stopSeen THEN "canceled" ELSE "failed", FALSE)
                   ELSE opened(d)]
    /\ UNCHANGED <<sock, local, work, toGate, toDevice>>

\* Every cancellation is acknowledged: the device is registered and the rows
\* left, all of them receipts, are compared with the gate where it answers.
Ready(answered, remote) ==
    /\ proc = "reconciling"
    /\ \A d \in Dispatch : ~inbox[d].cancel /\ local[d].task = "idle"
    /\ proc' = "up"
    /\ LET owed(d) == /\ d \in answered
                      /\ inbox[d].state = "terminal_pending" /\ inbox[d].sess = session
           stopping(d) == /\ owed(d) /\ remote[d].placement # "cloud"
                          /\ remote[d].state = "cancel_pending" IN
       /\ inbox' = [d \in Dispatch |->
             IF ~owed(d) THEN inbox[d]
             ELSE IF remote[d].placement = "cloud" THEN MarkOrphaned(inbox[d])
             ELSE IF IsTerminalDispatchState(remote[d].state) THEN MarkTerminal(inbox[d])
             ELSE IF stopping(d) THEN StageCancellation(inbox[d], "canceled", FALSE)
             ELSE inbox[d]]
       /\ local' = [d \in Dispatch |->
             IF stopping(d) THEN [local[d] EXCEPT !.cancel = "rpc", !.task = "join"] ELSE local[d]]
    /\ UNCHANGED <<session, sock, work, toGate, toDevice>>

\* The account's generation changed: offers drain, then the session rotates.
RotateBegins ==
    /\ proc = "up"
    /\ \A d \in Dispatch : local[d].beat.phase = "idle"
    /\ proc' = "rotating"
    /\ sock' = "none"
    /\ toDevice' = <<>>
    /\ UNCHANGED <<inbox, session, local, work, toGate>>

RotateEnds(sess) ==
    /\ proc = "rotating"
    /\ \A d \in Dispatch : local[d].offer \in {"idle", "submitted"}
    /\ proc' = "reconciling"
    /\ session' = sess
    /\ inbox' = [d \in Dispatch |-> OpenSession(inbox[d])]
    /\ UNCHANGED <<sock, local, work, toGate, toDevice>>

StopBegins ==
    /\ proc \in {"reconciling", "up"}
    /\ proc' = "stopping"
    /\ UNCHANGED <<inbox, session, sock, local, work, toGate, toDevice>>

\* The heartbeat and the offers are joined: what executes is staged.
StopStages ==
    /\ proc = "stopping"
    /\ \A d \in Dispatch : local[d].offer \in {"idle", "submitted"} /\ local[d].beat.phase = "idle"
    /\ proc' = "draining"
    /\ inbox' = [d \in Dispatch |->
                   IF inbox[d].state \in Executable
                   THEN StageCancellation(inbox[d], "canceled", inbox[d].sess # session)
                   ELSE inbox[d]]
    /\ UNCHANGED <<session, sock, local, work, toGate, toDevice>>

\* The stop ends when every cancellation is acknowledged and every task over;
\* a receipt that could not be flushed stays owed.
StopEnds ==
    /\ proc = "draining"
    /\ \A d \in Dispatch : /\ ~inbox[d].cancel
                           /\ local[d].task = "idle" /\ local[d].cancel = "idle"
                           /\ local[d].flush = "idle"
    /\ proc' = "down"
    /\ sock' = "none"
    /\ toDevice' = <<>>
    /\ local' = [d \in Dispatch |-> [Forgotten EXCEPT !.offer = local[d].offer]]
    /\ UNCHANGED <<inbox, session, work, toGate>>

\* A stop that could not join a cancellation closes the socket and throws; the
\* host calls it again.
StopFails ==
    /\ proc = "draining" /\ sock # "none"
    /\ \E d \in Dispatch : inbox[d].cancel /\ local[d].cancel = "idle"
    /\ SocketClosed
    /\ UNCHANGED <<inbox, session, proc, work, toGate>>

=============================================================================
