# Stella's owner plane: a TLA+ model

Stella runs a user's prompt on one of the user's own computers or in the cloud.
Around that sit the parts that every run depends on: the gate that places work
and hands it over, the bridge on the computer that takes it, the relay that lets
a cloud agent use a tool on a computer, the fence and the jobs that erase an
account while work may be going on, and the gateway that meters the model
requests all of this makes. They run in different processes that crash, reconnect and retry
independently, and each has to be right about the others. This directory models
them from the source, checks them with TLC and proves their main safety
properties with TLAPS. Paths below are relative to `src/`;
`cloud-builder` is `workers/cloud-builder/src`.

## The system

### Parts, their state and their operations

| Part | Source | State | Operations |
|---|---|---|---|
| Placement policy | `cloud-builder/dispatch-policy.ts`, `packages/contracts/turn-plane/placement.ts` | none | decide from ingress, subject and target mode: commit, offer or block |
| Owner gate, dispatches | `cloud-builder/owner-gate.ts`, `owner-gate/dispatch.ts` | tables `dispatches`, `dispatch_offers`, `cloud_dispatch_terminals`; one alarm | submit, claim, release, ack, running, renew, complete, cancel, status, terminal receipts, expiry alarm |
| Owner gate, cloud branch | `owner-gate/cloud-dispatch.ts` | chat handoff record; suspended calls | start a chat or an agent in the cloud, refuse, retry once, retire a handoff |
| Owner gate, admission | `owner-gate.ts`, `owner-gate/gate-base.ts` | table `running`, rate windows | admit, release, prune; fence lease register and unregister |
| Owner gate, presence | `owner-gate/device-sockets.ts`, `owner-gate/presence.ts` | table `device_presence`, hibernated sockets | begin, proof, availability, consent, ping, close, stale |
| Desktop bridge and inbox | `packages/runtime/host/execution-placement-*.ts` | durable inbox of dispatches, presence session, memory of each dispatch | claim, accept durably, ack, run, renew, flush the terminal, cancel, reconnect, restart, rotate account, stop |
| Device tool relay and server | `cloud-builder/device-tool-relay.ts`, `packages/runtime/host/device-tool-server.ts` | pending calls with timers; runs and kept answers | call, accept, answer, cancel, resend, replay |
| Owner fence and model grants | `cloud-builder/owner-fence-*.ts`, `owner-generation.ts`, `owner-model-grants.ts` | fence record, leases, grants, replay barrier | begin, release, register, assert, unregister, expire, issue, revoke |
| Account reset and deletion | `cloud-builder/owner-store/domains/account.ts`, `owner-store/store.ts`, `owner-purge.ts`, `build-session/owner-purge-transfer.ts` | `owner_state`, the `account.purge` job | reset, close, run a pass, retry, finish |
| Model gateway, metering | `workers/model-gateway/src/gates/owner-relay-gate.ts`, `owner-ledger-store.ts`, `managed-lane.ts`, `cloud-builder/owner-store/domains/billing.ts` | ledger, results, admissions, cancellations, controllers; receipts | begin, cancel, admit and reserve, settle, release, report, bill |
| Conversation and build session | `cloud-builder/orchestrator-session-object.ts`, `journal.ts`, `build-session/` | turns, journal, containers | start, cancel, report the terminal |
| Everything else | `workers/browser-gateway`, `packages/runtime/kernel`, user interfaces, native helpers | see PROJECT.json | not modelled |

### How they interact

A client submits a *dispatch* to the owner gate, one Durable Object per owner.
The policy commits it to a place, offers it to a computer over that computer's
presence socket, or blocks it. The computer's bridge claims the offer (30 s
lease), writes it to its durable inbox, acknowledges, and hands it to a worker
process; from the acknowledgement on the gate keeps only a lease (2 min, renewed
by heartbeats) and has deleted the payload. The outcome goes back as a
`complete` frame that the bridge repeats until the gate shows it. An offer
nobody takes (4 s) and a claim nobody acknowledges fall back to the cloud, whose
terminal comes back as an owner event, independently of the answer to the start.

An agent that runs in the cloud calls tools on the user's computer through the
same object and the same socket. The relay keeps a pending call while the socket
is replaced and sends it again; the agent itself replays a call after the object
was lost.

Whoever works on the owner's data holds a *lease* at the owner fence and asserts
it before a write: a chat's turn gets its lease with its admission, a build's turn
is admitted first and registers later, and an activity (an upload to the cloud
home) reads the owner's generation, registers, and asks the gate for its keys,
which refuses a generation that is no longer the owner's. A reset or a deletion closes the owner, schedules a job, and
the job's *pass* blocks the fence in a new generation, revokes the model grants
of readers, cancels turns, waits until no lease is active, empties the stores,
and releases the fence (reset) or leaves it (deletion).

Every managed model request goes through the owner's relay gate: it joins an
abort controller, is admitted and reserves its estimated cost in one
transaction, is sent to the provider, settles the real cost, reports a usage
event to a queue and gives its admission back. The billing ledger charges the
owner from the queue, once for each request id.

### What is hard

* **A Durable Object is single threaded but its handlers are not atomic.** At
  each await of a call to another object the event loop is free, and a row read
  before the await may be out of date after it. The gate's alarm selects every
  expired row once and then awaits a cloud start per row; a purge pass reads its
  mode and then awaits a dozen calls; the bridge's heartbeat lists rows and then
  awaits status reads.
* **Deadlines race messages**: an ack and the claim lease, a tool's answer and
  its timer, a write and its lease, a completion and the abandon age.
* **A lost answer is ambiguous**: a cloud start, a tool call, an ack, a receipt
  or a usage event may have been acted on.
* **Memory and tables part company** on an eviction, a restart or a crash: the
  inbox, the tables and the tombstones survive, controllers, pending calls,
  continuations and the alarm loop do not.
* **Retries of the same id**: offers, tool calls, purge requests and model
  requests are all presented again while the first one is still under way.
* **Things counted in several places** (admission slots, reservations, leases,
  controllers) are taken on one path and given back on many.

PROJECT.json lists each hazard at its line with the properties about it.

## The modules

| Module | What it is |
|---|---|
| `DispatchPolicy` | the vocabulary of placement and `decideDispatchPlacement` |
| `OwnerGate` | the dispatch half of the owner gate, with the cloud branch, admission and presence |
| `DispatchHandoff` | abstract: what the gate promises a computer about a dispatch's summary |
| `OwnerGateHandoff` | `OwnerGate` implements `DispatchHandoff` (`ImplementsHandoff`) |
| `PlacementBridge` | the computer's bridge and inbox: its synchronous stretches as operators, its handlers as actions |
| `Placement` | composition: `PlacementBridge`, `DispatchHandoff` and a socket that loses frames |
| `DeviceToolContract`, `DeviceToolRelay`, `DeviceToolServer`, `DeviceTools` | a tool call: the shared vocabulary, the gate's half, the computer's half, and their composition over replaced sockets |
| `OwnerFence` | fence, leases and model grants |
| `AccountPurge` | `OwnerFence` with `owner_state`, the job, the passes, and the turns of chats and builds and the activities that write |
| `ModelGateway` | metering of managed requests, from the presentation to the bill |
| `MC*` | model values and named bounds for TLC |
| `OwnerGateProofs`, `OwnerGatePlacement` | proofs: the gate's types, where a dispatch is, and its payload |
| `OwnerGateRefinement` | proof that `OwnerGate` implements `DispatchHandoff` |
| `OwnerGateWakeup` | proofs: the gate's deadlines are watched, its admission slots given back, the cloud starts of an only dispatch made once |
| `PlacementProofs` | proofs about the bridge and the gate together |
| `ModelGatewayProofs`, `AccountPurgeProofs`, `DeviceToolsProofs` | proofs about metering, purges and tool calls |

`Placement` does not use `OwnerGate` itself, whose deadlines, cloud starts and
alarm would multiply its states beyond reach. It uses `DispatchHandoff`, in
which a fallback or a lapsed lease simply happens; `gate_one` checks and
`GateImplementsHandoff` proves that every behaviour of the gate is one of
`DispatchHandoff`'s. `Placement` adds one assumption to it: the
gate's alarm acts on a row as it is (`GateFallsBack`, `GateLeaseLapses`), not on
one it read before it was suspended; the late alarm is the subject of `OwnerGate`
and of `v_twice`. Under that assumption, what holds of the bridge with the
abstract gate holds with the real one.

### OwnerGate

`row` is the `dispatches` table (columns no property tells apart, such as error
texts, are left out), `offer` `dispatch_offers`, `presence` `device_presence`
with the proven socket behind it, `running` the admission slot under the
dispatch's turn id, `handoff` the chat handoff record, `receipt`
`cloud_dispatch_terminals`, `armed` the object's alarm. `start[d][c]` is the
continuation of the caller `c` (submit, a frame, the alarm) suspended in
`runCloudBranch` for `d`; `alarm[d]` is the decision the running alarm pass took
for `d` from the row it selected; `pass` says a pass is running. `runs` counts
executions the cloud started and is invisible to the gate.

A handler runs when `Free`: no alarm pass is running or the pass is suspended in
a cloud start. A handler is one action up to its first call to another object,
including the patches, `releaseGate` and `scheduleAlarm` it ends with; the
continuations are actions of their own. Abstractions:

* A deadline is `none`, `live` or `lapsed`. Nothing orders two live deadlines, so
  every order of expiry is explored. The alarm is a Boolean that may fire early.
* A presence session is a number that never decreases; the challenge and proof
  is one step; stale, unconsented and unavailable are all "not ready".
* `LIMIT 64` and the order of the alarm's rows are left out: any order.
* Storage calls and the owner's snapshot are not suspension points.
* Admission may refuse a chat for any reason; rate windows are left out.
* `WakeNeeded` leaves out the alarm's other clients, which only add wake-ups.

### PlacementBridge and Placement

`inbox` is the SQLite inbox with its cancellation columns, `session` the
presence session of the runtime state; both survive a crash. `local` is what the
process remembers of a dispatch: the offer it is claiming, the task that awaits
the run, the cancellation or the receipt it is in, the rows the heartbeat listed.
`work` is the worker's run, which goes on when the call to it fails. `proc` is
the life of the bridge (running, reconciling after a restart, stopping, rotating
the account), `sock` its socket. A handler is a sequence of operators on a
context (row, memory, work, frames sent) up to its next await.

The socket is FIFO in each direction. A connection that breaks loses what is in
flight, and the ends notice separately. A crash empties `local` and keeps `work`,
as the worker is another process. `PromptFrames` says that no frame is slower
than the completion timeout; it is TRUE in the runs (see below for what happens
otherwise). Steering, agent messages and the consent prompt do not change a
dispatch and are left out.

### DeviceTools

`pending` holds the relay's entries with the outcome their armed timer would
give; `checking` is a call between its first await (the list of devices) and the
relay; `run`, `answers` are the server's. A connection has a number, every
frame carries it, and the computer may be on a new one before the gate has seen
the old one close. Codes that leave both sides as they were are one code
(`refused`); `no_record` is the failure a computer answers to a resent call it
never had. A computer that restarts has lost runs and answers.

### OwnerFence and AccountPurge

Generations and purge requests are UUIDs in the code and numbers here. `left` is
the halves of a lease's lifetime that remain: an assert renews it, and a write
takes less than half a lifetime, which is what the code's durations guarantee.
`begin` is atomic because it runs inside `blockConcurrencyWhile`; a reader may
fail to answer its freeze (`BeginIncomplete`), or the object may be lost anywhere
between the marker and its completion, the fence written or not
(`BeginInterrupted`, in `GateCrashes`), and then the barrier makes the same begin
be replayed. `pass` holds the alarm's pass and
`closeOwner`'s own, which may run at once; each step of a pass is a call to
another object and may fail. `stored` says which holders have bytes of which
generation in any of the owner's stores. There are three kinds of holder:

* `Together`: the turns of chats, admitted and registered by one call
  (`snapshotWithFenceLease`, `admitWithFenceLease`);
* the turns of builds: `Admit`, then `Register` at any later time
  (`registerBuildOwnerFenceLease`), which looks at the fence and not at the
  generation;
* `Activity`: the same two calls without a look at `writable`
  (`ownerAccess`, `withOwnerActivityLease`), and then `BeginUpload`, where
  `ownerInternal` compares the generation; only after it is there a key to write.

`runAt` tells every schedule of the job from every other; in the code it is a
time, and two schedules within one millisecond would look alike. Also left out:
rejoining a released fence by `expectedGeneration` (no caller sends it), two
`closeOwner` calls at once, the migration of an older lease table, and sign-out.

### ModelGateway

A *call* is one presentation of a request id, suspended at each place where the
lane awaits another object or the provider: `begun`, `reserved`, `upstream`,
`settled`, `body`. `mine` is the lane's `ownerAdmitted`, `byte` its
`firstUpstreamByte`, `aborted` the state of the signal it is on. `control` is the
map of controllers: how many references, and which calls are on the controller's
signal. Money is counted in multiples of the estimate. The module is about one
capability whose accounting is inside the owner's object (`owner-relay-v2`).

* Refusals before the reservation (network, model, price, rate) are one
  nondeterministic step, `Refused`. The tier's budget only answers yes or no.
* A stop at the running cost is one of the charged failures.
* A live call settles before its rows pass the abandon age: its upstream
  controller aborts it at 45 minutes and rows are abandoned at 46. That is the
  guard of `RowAges` and `AdmissionAges`, and the one place where the module
  relies on two durations; `RowAgesEarly` shows what would happen otherwise.
* The queue is external: it may lose an event at the send, and deliver in any
  order and again.
* Left out: expiry of capabilities, tombstones and receipts,
  `billing_grants.settled`, owner enforcement, the native lane, and capabilities
  metered in an object of their own (`ledger.ts`).

## The runs

| Run | Instance | Shows |
|---|---|---|
| `gate_one` | one chat or agent, every ingress, 2 presence sessions, 1 eviction | `TypeOK`, `PlacementInv`, `NoSplitPlacement`, `CloudStartsOnce`, `AcceptedPayloadIsGone`, `NoLeakedSlot`, `EndedChatStaysEnded`, `NeverRerouted`, `ImplementsHandoff` |
| `gate_live` | one chat, phone or browser, no eviction, fair | `NoLostWakeup`, `PlacementResolves`, `ReceiptSettles` |
| `place_offer` | one offered dispatch, 2 sessions, 2 faults, 1 stop | `TypeOK`, `LaunchedOnce`, `LiveRunIsRecorded`, `AcceptedIsHeld`, `EndedIsQuiet` |
| `place_live` | one dispatch, offered or the computer's own, 1 fault, fair | `LaunchedOnce`, `ReceiptArrives` |
| `tools_resume` | two calls, 2 connections, 1 restart | `TypeOK`, `RunsOnce`, `OkMeansFinished`, `NoRecordIsTrue` |
| `tools_replay` | one call, 3 attempts, 3 connections, 1 eviction, fair | `RunsOnce`, `CallSettles` |
| `purge_both` | a reset and two `closeOwner` calls, a chat's turn and an activity, 2 attempts, 1 fault | `TypeOK`, `PurgedInPeace`, `NoReaderBehindFence`, `FreshAfterReset`, `PendingJobIsKept` |
| `purge_live` | a reset or a deletion, an activity, two calls, 2 faults, or a build beside it, one call, 1 fault; fair | `ResetReopens`, `DeletionErases` |
| `meter` | a request presented twice beside another, 1 slot, budget 2, 2 requests, 1 eviction | `TypeOK`, `OneExecution`, `BooksBalance`, `KeptResultIsFinal`, `CancelReachesCall`, `AdmissionIsHeld`, `BilledForOneCall` |

Why the bounds are enough for the cases that matter:

* Two presence sessions (`MaxSession`) are what it takes for a computer to come
  back as somebody else; one eviction (`MaxEvictions`) interrupts each suspension
  point once; two faults (`MaxFaults`: crash, stop, rotation or lost connection)
  let a recovery be interrupted. `FewFrames` allows two frames in flight in each
  direction, which reorders an answer and a broadcast.
  `place_live` also leaves work that went to the cloud as it was committed there
  (`CloudIsQuiet`): what becomes of it is no longer the computer's business, and
  `place_offer` explores it.
* Two calls with one slot (`ConcurrentPerDevice = 1`) compete; one replayed
  twice over three connections joins, resends and starts anew.
  `MaxKeptAnswers = 2` keeps the answers of both calls (64 in the code).
* What an alarm decided about one dispatch while it is suspended in the start of
  another needs two of them. Only `v_twice` has two; `gate_one`, with one, has the
  second session, the eviction, the stops and the other ingresses, and the
  theorems about the gate are for any number.
* `purge_live` is about what comes about while attempts are left: `MaxAttempts = 9`
  is more failures than it has faults (100 in the code). `ResetOrDeletion` leaves
  out a deletion after a reset, which may be undone (`v_reopened`), and after which
  the reset owes nothing. In `purge_both` a job has two attempts, so that a last
  attempt is reached, also while its row is scheduled anew; the second call of
  `closeOwner` meets an activity and no turn (`SecondCloseWithoutTurn`).
* In `meter` a charge is twice the estimate, so one completion uses the budget
  up; two presentations (`MaxCalls`) are a request and its retry. The second
  request is there for the slot, the budget and the count; `SecondIsPlain`
  keeps it from being retried, canceled and reported, which for a single request
  id is explored with the first.

Deadlock checking is off: a settled dispatch, call, purge or request has nothing
left to do.

### Runs that fail

Three runs state what a comment of the code says and show a behaviour of the code
that does otherwise.

| Run | Property | What happens |
|---|---|---|
| `v_twice` | `CloudStartsOnce`, two agents | the alarm selects an expired claim and suspends on the other dispatch; the computer releases the claim, which starts the cloud; the alarm starts it again from the row it read (`owner-gate/dispatch.ts:966`) |
| `v_stop` | `StopReachesRun` | a stop's only cancel frame is lost with its connection; the reconnected computer announces its run, is refused because the row is `cancel_pending`, and loses its socket again; after the lease has lapsed the same frame makes the row `computer_running` (`owner-gate/dispatch.ts:637`) |
| `v_reopened` | `ClosedStaysClosed` | a deletion joins a reset whose pass has read its mode; the pass ends with an update conditional on the shared request id: the closed owner is writable again and its deletion is gone (`owner-store/domains/account.ts:164`) |

`v_twice` is bounded by the constraints of `MCOwnerGate` to the first quarter of
an hour, a computer that stays up, and no stops.

### Other behaviours met while modelling

These are reached by changing a constant or a property as said; no run claims
them, because no comment or test says otherwise or because they need an
assumption to be dropped.

*Gate.* An agent canceled while its start is out is put to `cloud_running` by the
answer, without a look at the row (`cloud-dispatch.ts:508`; `EndedChatStaysEnded`
stated of agents). With two dispatches the alarm puts a completed row to
`reconciliation_required` (`dispatch.ts:976`). An agent whose start threw has no
cloud turn id and its receipt is never matched (`ReceiptSettles` with
`Kinds = {"agent"}`). An eviction between submit's insert and its alarm loses the
wake-up (`NoLostWakeup` with `MaxEvictions = 1`, `owner-gate.ts:1751`).

*Placement.* A `dispatch` frame slower than the completion timeout is applied to
a row that has ended and launches it again (`PromptFrames = FALSE`,
`execution-placement-bridge.ts:1102`). An ack that is lost or late lets the claim
lapse, and computer and cloud both run the work (1908). The lost answer of a
computer's own submit loses the only copy of the payload (`AcceptedIsHeld` with
`Submits = {"own"}`, `host/index.ts:1608`). A bridge that restarts with an
unacknowledged claim stays reconciling, because the cancellation it waits for
needs the socket it does not open (1221, 1584), and so does one that adopts its
own submit during a rotation. A stop that failed once cannot succeed (1311). A
computer's own dispatch that was submitted before or under another presence
session is never owned by it, so its frames are refused (`owner-gate.ts:1620`);
`ReceiptArrives` therefore speaks of dispatches of the current session.

*Device tools.* An agent's replay after the computer restarted runs the tool
again (`RunsOnce` with `MaxAttempts = 2` and `MaxRestarts = 1`). Calls the gate
gave up on still run beside the limit (`device-tool-relay.ts:119`). A stop
handled while the call awaits the list of devices withdraws nothing
(`owner-gate.ts:1954`), and one that finds the computer between two sockets sends
nothing (`device-tool-relay.ts:157`). The late `no_record` of one attempt can
settle the next, whose call is still on its way and then runs (`NoRecordIsTrue`
with `MaxAttempts = 2`). With one kept answer, the answer of a call
the gate gave up on pushes out the one it waits for (`MaxKeptAnswers = 1`).

*Purge.* A build's turn is admitted in one call and takes its lease in another
(`object.ts:1131`). When a whole reset lies between the two, `register` does not
compare the generation (`owner-fence-do.ts:207`), the assert compares it with the
lease's own (400-404), and the turn is stored in an owner that is open again; only
its later control operations at the gate are refused. `FreshAfterReset` is
therefore stated of chats and activities, and fails with builds counted
(`b.by \in Holder`, `Holder = {build}`). The failure of a job's last attempt deletes
the row by id alone (`owner-store/store.ts:704`), so it can delete the row a
deletion has just scheduled, with all its attempts ahead; only a pass that
`closeOwner` had under way, or another call of it, then erases the account. Hence
the exception in `PendingJobIsKept`. A write slower than half a lease could reach a
store while a pass empties it (`TimePasses` without its guard). A memory policy
change pending before a reset is retried after it, by revision only
(`memory-policy.ts:213`; not modelled).

*Metering.* An owner may run one request more than its slots: a call settles as
failed, its retry is admitted as a duplicate of the admission not yet given back,
and the first call's release drops the row. The first usage event of a request
id claims its receipt, so a failed attempt that is ingested first leaves the
successful retry unbilled (`billing.ts:598`); `BilledForOneCall` says at most,
not at least. An abandoned row whose takeover the budget refuses is dropped, so
the next retry counts a second request. Two concurrent requests may overspend
the budget together: the hard limit of each includes the whole remainder.

### Fairness

Nothing is assumed of users, of evictions, crashes or restarts, or of work that
runs.

* `OwnerGate`: deadlines pass, a set alarm fires and its pass goes on, a
  suspended call returns or throws, a waiting client polls. Calls and polls are
  strongly fair because they queue for an event loop that a pass may hold again
  and again.
* `Placement`: frames on a connection that holds arrive, a broken one is noticed
  and reconnected, awaits and timers end. Status reads and cancellations are
  strongly fair: they are retried at every heartbeat and fail while the socket is
  down. The run itself need not end, and the gate's clock need not move.
* `DeviceTools`: timers fire, frames and RPCs are handled, broken connections are
  noticed, an interrupted tool ends. A tool that is not interrupted may run on.
* `AccountPurge`: a set alarm fires, a pass goes on, a write ends, time passes
  for leases. The alarm's taking of the job is strongly fair because the job's
  backoff ends. Faults are finitely many.

## What is proved

The theorems hold for every value of the constants that the named assumption of
the module allows; what a theorem needs beyond that is said with it. Each
inductive invariant was checked by TLC on the instances above before it was
proved.

### The owner gate

For any sets of dispatches and computers, any number of presence sessions and
evictions (`OwnerGateAssumption`: `NoDevice` is no computer and the parameters
have their types):

* `TypeCorrect` (`OwnerGateProofs`): `Spec => []TypeOK`.
* `PlacementSafe` (`OwnerGatePlacement`): `Spec => []PlacementInv`, and from it
  `OneSideExecutes`: `Spec => []NoSplitPlacement`.
* `AcceptedWorkStays`: `Spec => NeverRerouted`.
* `PayloadIsHandedOver`: `Spec => []AcceptedPayloadIsGone`.
* `GateImplementsHandoff` (`OwnerGateRefinement`): `Spec => ImplementsHandoff`.
* `DeadlinesAreWatched` (`OwnerGateWakeup`):
  `Spec => [](evictions = 0 => NoLostWakeup)`.
* `SlotsAreGivenBack`: `Spec => []NoLeakedSlot`.
* `LoneDispatchStartsOnce` and `LoneChatStaysEnded`: with one dispatch,
  `Spec => []CloudStartsOnce` and `Spec => EndedChatStaysEnded`.

`NoSplitPlacement` alone is not inductive. `PlacementInv` says of each dispatch:
its state agrees with its placement and work on the cloud side has no executor;
whatever was started, or is being started, is on the cloud side; and a decision
the suspended alarm still holds can do no harm. The last part is the heart of it:
a row the alarm found as an expired *offer* can not be claimed any more, because
its deadline stays lapsed; one it found as an expired *claim* can not be
acknowledged any more, because `ack` tests the lease; one it found due for
*retry* is on the cloud side for good. (The row may have been released, and that
is `v_twice`.) Every action changes one dispatch, so each proof reduces to that
dispatch (`Focus`), and nearly every cloud step to the fact that a row on the
cloud side satisfies the whole invariant (`CloudRowPlaced`).

The refinement maps the table to `Summary` and needs the same invariant: without
it a decision of the suspended alarm, or the answer to a start, would be a step
`DispatchHandoff` does not have. Each action of the gate is shown to be a step of
the handoff or to leave every summary alone.

A frame of a computer may give a row a deadline without setting the alarm, so
`NoLostWakeup` needs `WakeupInv`: a connected computer already keeps the alarm
set (`SocketsWatched`), and a row with a deadline is watched by the alarm, by a
running pass, or by the submit that is still to schedule. `ArmAfterStart` depends
on the number of the attempt, which needs `AttemptsInv`: starts under way have
different numbers, and while the first is out no retry is recorded. An eviction
drops the submit that was still to schedule, which is why the theorem stops at
the first one.

`NoLeakedSlot` speaks of ended dispatches only, and is kept by what holds before
they end (`SlotInv`). A slot that is taken is recorded on its row (`gateHeld`) or
belongs to a handoff that is being allocated, so whatever ends the row finds it.
The exception is a start that was ended while it was being registered: the row
gave the slot back, and then nothing can take it again, because the handoff is
retired or the payload gone. Submits and frames make first attempts, so a retry
that the alarm found due meets none of theirs (`FirstOnly`). None of this needs
the alarm to act on what is still true: a stale decision may start a dispatch
twice, and no slot is lost by it.

`CloudStartsOnce` and `EndedChatStaysEnded` are different: with two dispatches
they are false (`v_twice`), because the alarm acts on a row it selected without
looking at it again. They are proved of an owner's only dispatch, through any
number of retries, refusals, lost answers, evictions, stops and late frames.
`StartsInv` carries the argument: at most one start of a dispatch is out, nothing
has run until it is answered, and a retry is recorded only when nothing is out and
nothing has run. It needs decisions that still hold when the alarm acts on them
(`FreshDecisions`), which the code does not see to in general; an only dispatch
has them (`LoneInv`), because the pass is suspended only in the start its decision
led to, and otherwise no handler runs beside it.

### Metering

For any set of requests, any number of presentations, slots and evictions, any
budget and any charges (`GatewayAssumption`: the parameters are numbers), in
`ModelGatewayProofs`:

* `ExecutesOnce`: `Spec => []OneExecution`, and `ReplayIsFinal`:
  `Spec => []KeptResultIsFinal`, both from `ExecInv`. A call that executes owns
  the row in flight of its id *and that row is not past the abandon age*, so no
  retry can take it over; a row that is stored belongs to the one call that kept
  it.
* `CancelIsKnown`: `Spec => []CancelReachesCall`, from `CancelInv`: the
  references of a controller are exactly the calls in memory, and all of them are
  on its signal. The count is a cardinality, so the last call to leave is the one
  that removes the controller.
* `AdmissionsAreHeld`: `Spec => []AdmissionIsHeld`, from `AdmitInv`: while the
  object has stayed up each admission has its maker among the calls.
* `BilledOnce`: `Spec => []BilledForOneCall`, from `BillInv`: events on the queue
  are of calls whose outcome and charge are final, and a request without a
  receipt has not been billed.
* `LedgerIsExact`: `Spec => []BooksBalance`. Sums over a set of requests would
  need induction, so the books are counted in units of money, each told apart by
  the row or the call it belongs to, and the totals are cardinalities. What is
  reserved follows from `LedgerInv` (`ReservationsBalance`: one estimate for each
  row in flight); what is spent from `SpentInv`: a call that may yet be charged
  has not been, so a charge adds units disjoint from all others.
* `MeterTypeCorrect`: `Spec => []TypeOK`. That nothing goes below zero needs
  `LedgerInv` for the reservation and `CancelInv` for the references.

### Purges

For any set of turns and activities, any number of calls, failures and losses of
the objects (`AccountPurgeProofs`):

* `PurgeTypeCorrect`: `Spec => []TypeOK`.
* `PurgesInPeace`: `Spec => []PurgedInPeace`, from `PeaceInv`. Who is on its way
  to a store still holds a lease, because an assert renews it and a write takes
  less than what then remains; the pass of `closeOwner` never runs a reset, so of
  two passes in one generation one is a deletion; and a deletion makes the fence
  permanent before it waits for the leases, so that the reset beside it can not
  open the fence under it.
* `NoReadersBehindFence`: `Spec => []NoReaderBehindFence`, which is inductive.
* `ResetsLeaveFresh`: `Spec => []FreshAfterReset`, whatever builds there are
  beside the chats and activities, from `FreshInv`. Once the stores have been
  emptied for the request that is pending, and whenever the owner accepts writes,
  those who were let through (a chat's turn with a lease, an activity with its
  keys) are of the current generation, and so are their bytes. A lease alone lets
  an activity write nothing, so that one may come as late as it likes. Request
  numbers grow with the generation, so an older pass does not take a later request
  for its own. Of builds it is false, as said above.
* `PendingJobsAreKept`: `Spec => PendingJobIsKept`, from `JobInv`: while the row
  in `owner_jobs` is still the one a pass took, nobody has asked for anything
  since, so what is pending is the request of that pass and its end is the end of
  the purge; a later row has a later `runAt`.

### Device tools

For any finite set of calls, any number of connections, attempts, restarts and
evictions (`DeviceToolsAssumption`), in `DeviceToolsProofs`:

* `ToolsTypeCorrect`: `Spec => []TypeOK`.
* `SuccessIsReal`: `Spec => []OkMeansFinished`, from `OkInv`, which follows an
  `ok` from the run to the kept answer, to a frame and to the agent.
* `RecordsPreventReruns`: `Spec => [](restarts = 0 => RunsOnce)` where the
  computer has room for the answers of all the calls
  (`Cardinality(Request) <= MaxKeptAnswers`), with any number of replays. `KeptInv`:
  a call has at most one kept answer and then no run, and one that was started
  has a run or an answer. With one answer for each call there is never one too
  many (a pigeonhole argument), so nothing is pruned.
* `ResumesStartNothing`: `RunsOnce` while no call has been made twice, with any
  number of restarts, expired and pruned answers and evictions, from `SingleInv`:
  a call made once is on its way in at most one frame, and only until it starts.
* `NoRecordMeansNeverRan`: `NoRecordIsTrue` while no call has been made twice,
  with room for all the answers, from `NoRecordInv` on top of the other two.
  With replays it is false (see above).

The last three have conditions because a replay after a restart does run the tool
again; the conditions are those under which the code can keep its promise.

### Placement from end to end

For any finite set of dispatches (`BridgeAssumption`) and any number of presence
sessions, crashes, stops, rotations and lost connections, in `PlacementProofs`,
where no frame is slower than the completion timeout (`PromptFrames`):

* `PlacementTypeCorrect`: `Spec => []TypeOK`.
* `RunsAtMostOnce`: `Spec => []LaunchedOnce`.
* `LiveRunsAreRecorded`: `Spec => []LiveRunIsRecorded`.
* `EndedWorkIsQuiet`: `Spec => []EndedIsQuiet`.
* `AcceptedWorkIsHeld`: `Spec => []AcceptedIsHeld` for work that comes from other
  devices (`"own" \notin Submits`).

None of them is inductive: each speaks of two of five places (inbox row, memory,
worker, gate, socket) and is kept by what the others hold. `IInv` relates all
five, dispatch by dispatch:

* `RowOK`, `WorkOK`, `MemoryOK`, `Attended`: the row is ahead of the worker (a row
  that has not been marked running was never launched), the memory agrees with
  the row, and a running row nobody stops has a task that awaits it.
* `BeatOK`: the heartbeat acts on a row it listed before it awaited. A claim that
  it holds is still that claim: the gate has not seen its ack, so it sends no
  frame that would launch or cancel it, and a stop or a rotation waits for the
  heartbeat. A summary it read as ended has not come back.
* `SummaryOK`, `HandoverOK`: how far the gate got and how far the row got are
  compatible. A closed row means that the gate has ended or rerouted the work,
  belongs to an older session, or never gave it to a computer; ended computer work
  means that the row is past its run.
* `FramesOK`: each frame under way still says something true. An ack or a receipt
  was sent by a row that got that far. A `dispatch` frame that would start a run
  finds neither a closed row nor, before it in the queue, the news that the work
  has ended (`InOrder`). The last two are why the order of the socket matters.

Each step of the bridge is a composition of synchronous stretches, so the lemmas
say of each stretch that it keeps a context `Sound`, and one lemma (`TakeKeeps`)
puts a context back. Each step of the gate moves one summary and tells at most one
frame; `GateKeeps` reduces it to the relation `Follows` between the old summary
and the new one.

Both conditions are needed. A frame slower than the timeout is overtaken by the
status read of `FlushAsks`, which closes the row before a start arrives. The
answer of a computer's own submit can be lost after the gate has given away the
payload, which is not in any inbox then.

### Model-checked only

* All liveness (`PlacementResolves`, `ReceiptSettles`, `ReceiptArrives`,
  `CallSettles`, `DeletionErases`, `ResetReopens`): fairness and `ENABLED` are out
  of the prover's reach.

Every safety property of the passing runs is proved too, under the conditions said
with its theorem. `CloudStartsOnce` and `EndedChatStaysEnded` are about one
dispatch in both: of two they are not unproved but false (`v_twice`).

## Not modelled, and the plan

The repository is a monorepo of about 640,000 lines. Most of it is not a state
machine that a model could say anything about: user interfaces, generated tables
(`models.generated.ts`), provider configurations, protocol translation, native
helpers, vendored browsers and office tools. What remains worth modelling, in
the order in which it is worth doing:

1. `AgentContainers` (`owner-gate.ts:1002-1057`): container slots that outlive
   their turn.
2. The memory policy and the readers' side of model grants.
3. `device-request-relay.ts`: streamed responses from a computer to a phone or a
   browser.
4. `RunCoordinator`, the local scheduler and `RpcPeer` of the desktop runtime.
5. The journal's append protocol and turn cancellation of conversations; the
   browser gateway's profile sessions.

PROJECT.json names every component that is left out and why.
