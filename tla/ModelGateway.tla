---------------------------- MODULE ModelGateway ----------------------------
(***************************************************************************)
(* Metering of managed model requests: the owner's relay gate             *)
(* (workers/model-gateway/src/gates/owner-relay-gate.ts), the ledger of    *)
(* one capability inside it (owner-ledger-store.ts), the managed lane that *)
(* runs a request (managed-lane.ts, router.ts), and the settlement of its  *)
(* usage events in the owner's billing ledger                              *)
(* (cloud-builder/src/owner-store/domains/billing.ts).                     *)
(*                                                                         *)
(* A client may present the same request id again at any time.  A call is  *)
(* one presentation; it is suspended wherever the lane awaits another      *)
(* object or the provider.  Money is counted in multiples of the estimate. *)
(***************************************************************************)
EXTENDS Naturals, FiniteSets

CONSTANTS
    Request,        \* request ids presented under one capability
    MaxCalls,       \* presentations of one request id
    Slots,          \* requests the owner may have in flight
    Budget,         \* budgetMicroCents of the capability
    MaxRequests,    \* maxRequests of the capability
    Charges,        \* what a provider may report a completion to have cost
    MaxEvictions    \* times the owner's object is lost

ASSUME GatewayAssumption ==
    /\ {MaxCalls, Slots, Budget, MaxRequests, MaxEvictions} \subseteq Nat
    /\ Charges \subseteq Nat

VARIABLES
    ledger,     \* the ledger row: spent, reserved, requests
    result,     \* results rows: state, reserved, and past the abandon age
    admitted,   \* in_flight rows: "none", "fresh" or past the abandon age
    call,       \* the calls of each request
    control,    \* managedControllers: references, and the calls on the signal
    canceled,   \* managed_cancellations: request ids with a tombstone
    queue,      \* usage events on the queue
    receipt,    \* billing_receipts: request ids that were settled
    billed,     \* what each request was charged to the owner's account
    evictions

vars == <<ledger, result, admitted, call, control, canceled, queue, receipt,
          billed, evictions>>

money == <<queue, receipt, billed>>

Calls == 1 .. MaxCalls
Estimate == 1

Outcomes == {"none", "succeeded", "failed", "aborted"}

\* A call that holds a reservation it has not settled.
Executing(r, k) == call[r][k].at \in {"reserved", "upstream"}

\* A call in memory of the owner's object.
Live(r, k) == call[r][k].at \in {"begun", "reserved", "upstream", "settled", "body"}

\* A call that made an admission and has not given it back.
Holding(r, k) ==
    call[r][k].at \in {"reserved", "upstream", "settled"} /\ call[r][k].mine

NoCall == [at |-> "none", mine |-> FALSE, byte |-> FALSE, aborted |-> FALSE,
           outcome |-> "none", charged |-> 0, kept |-> FALSE]

NoResult == [state |-> "none", reserved |-> 0, old |-> FALSE]

NoControl == [refs |-> 0, on |-> {}]

CallType == [at : {"none", "begun", "reserved", "upstream", "settled", "body", "over"},
             mine : BOOLEAN, byte : BOOLEAN, aborted : BOOLEAN, outcome : Outcomes,
             charged : {0, Estimate} \union Charges, kept : BOOLEAN]

ResultType == [state : {"none", "in_flight", "cached"}, reserved : {0, Estimate},
               old : BOOLEAN]

\* The type invariant of the gate, the lane, the queue and the billing ledger.
TypeOK ==
    /\ ledger \in [spent : Nat, reserved : Nat, requests : 0 .. MaxRequests]
    /\ result \in [Request -> ResultType]
    /\ admitted \in [Request -> {"none", "fresh", "old"}]
    /\ call \in [Request -> [Calls -> CallType]]
    /\ control \in [Request -> [refs : 0 .. MaxCalls, on : SUBSET Calls]]
    /\ canceled \subseteq Request
    /\ queue \subseteq [req : Request, call : Calls]
    /\ receipt \subseteq Request
    /\ billed \in [Request -> Nat]
    /\ evictions \in 0 .. MaxEvictions

Init ==
    /\ ledger = [spent |-> 0, reserved |-> 0, requests |-> 0]
    /\ result = [r \in Request |-> NoResult]
    /\ admitted = [r \in Request |-> "none"]
    /\ call = [r \in Request |-> [k \in Calls |-> NoCall]]
    /\ control = [r \in Request |-> NoControl]
    /\ canceled = {}
    /\ queue = {}
    /\ receipt = {}
    /\ billed = [r \in Request |-> 0]
    /\ evictions = 0

-----------------------------------------------------------------------------
(***************************************************************************)
(* Cancellation: a tombstone for what has not begun, a shared controller   *)
(* counted by its users for what has.                                      *)
(***************************************************************************)

\* beginManagedRequest: join the controller in the map, or make one.
Joined(r, k) == [refs |-> control[r].refs + 1, on |-> control[r].on \union {k}]

\* Mutant: the first call that ends takes the controller out of the map.
ReleasedEarly(r) == NoControl

\* releaseManagedRequest: the last user takes the controller out of the map.
Released(r) ==
    IF control[r].refs <= 1 THEN NoControl ELSE [control[r] EXCEPT !.refs = @ - 1]

\* What is left of a call: how it ended.  Its local state is no more.
Gone(c) == [c EXCEPT !.at = "over", !.mine = FALSE, !.byte = FALSE, !.aborted = FALSE]

\* The call ends and its caller has the whole answer: the lane's and the
\* router's finally blocks.
Over(r, k) ==
    /\ call' = [call EXCEPT ![r][k] = Gone(@)]
    /\ control' = [control EXCEPT ![r] = Released(r)]

\* A client presents the request id.  The router refuses one with a tombstone.
Begin(r, k) ==
    /\ call[r][k].at = "none"
    /\ \A j \in Calls : j < k => call[r][j].at # "none"
    /\ IF r \in canceled
       THEN /\ call' = [call EXCEPT ![r][k].at = "over"]
            /\ UNCHANGED control
       ELSE /\ call' = [call EXCEPT ![r][k].at = "begun"]
            /\ control' = [control EXCEPT ![r] = Joined(r, k)]
    /\ UNCHANGED <<ledger, result, admitted, canceled, money, evictions>>

\* cancelManagedRequest, before the capability's expiry.
Cancel(r) ==
    /\ r \notin canceled
    /\ canceled' = canceled \union {r}
    /\ call' = [call EXCEPT ![r] = [k \in Calls |->
                   IF k \in control[r].on THEN [@[k] EXCEPT !.aborted = TRUE] ELSE @[k]]]
    /\ UNCHANGED <<ledger, result, admitted, control, money, evictions>>

-----------------------------------------------------------------------------
(***************************************************************************)
(* Admission and reservation, one transaction: admitAndReserve.            *)
(***************************************************************************)

\* admitRelaySync first drops every in_flight row past the abandon age.
Pruned == [r \in Request |-> IF admitted[r] = "old" THEN "none" ELSE admitted[r]]

InFlight == {r \in Request : Pruned[r] # "none"}

\* admitRelaySync refuses: too many in flight, or too many in this minute.
\* A refusal before admission (network, model, price) leaves the same state,
\* except for the rows it has not dropped.
Refused(r, k) ==
    /\ call[r][k].at = "begun"
    /\ \/ r \notin InFlight /\ admitted' = Pruned
       \/ UNCHANGED admitted
    /\ Over(r, k)
    /\ UNCHANGED <<ledger, result, canceled, money, evictions>>

\* The row belongs to a call that died before it settled.
Abandoned(r) == result[r].state = "in_flight" /\ result[r].old

\* The ledger row once an abandoned reservation of r has been released.
LedgerBefore(r) ==
    IF Abandoned(r) THEN [ledger EXCEPT !.reserved = @ - result[r].reserved] ELSE ledger

Admissible(r) == r \in InFlight \/ Cardinality(InFlight) < Slots

\* A returned response holds its controller until its body is read.
Returned(r, k) == call' = [call EXCEPT ![r][k].at = "body"] /\ UNCHANGED control

\* reserveSync knows the request: the stored result, or "in flight".
ReserveKnown(r, k) ==
    /\ call[r][k].at = "begun"
    /\ Admissible(r)
    /\ result[r].state # "none" /\ ~Abandoned(r)
    /\ admitted' = Pruned
    /\ \/ result[r].state = "cached" /\ Returned(r, k)
       \/ result[r].state = "in_flight" /\ Over(r, k)
    /\ UNCHANGED <<ledger, result, canceled, money, evictions>>

\* Mutant: the request limit is off by one.
WithinLimitsOffByOne(r) ==
    /\ Abandoned(r) \/ ledger.requests <= MaxRequests
    /\ LedgerBefore(r).spent + LedgerBefore(r).reserved + Estimate <= Budget

WithinLimits(r) ==
    /\ Abandoned(r) \/ ledger.requests < MaxRequests
    /\ LedgerBefore(r).spent + LedgerBefore(r).reserved + Estimate <= Budget

\* reserveSync refuses: the request limit or the budget.  An abandoned row is
\* gone all the same.
ReserveRefused(r, k) ==
    /\ call[r][k].at = "begun"
    /\ Admissible(r)
    /\ result[r].state = "none" \/ Abandoned(r)
    /\ ~WithinLimits(r)
    /\ ledger' = LedgerBefore(r)
    /\ result' = [result EXCEPT ![r] = NoResult]
    /\ admitted' = Pruned
    /\ Over(r, k)
    /\ UNCHANGED <<canceled, money, evictions>>

\* reserveSync reserves the estimate and counts the request, unless it takes
\* over an abandoned one.  The call owns the admission only if it made it.
Reserve(r, k) ==
    /\ call[r][k].at = "begun"
    /\ Admissible(r)
    /\ result[r].state = "none" \/ Abandoned(r)
    /\ WithinLimits(r)
    /\ ledger' = [LedgerBefore(r) EXCEPT
                     !.reserved = @ + Estimate,
                     !.requests = @ + (IF Abandoned(r) THEN 0 ELSE 1)]
    /\ result' = [result EXCEPT ![r] = [state |-> "in_flight", reserved |-> Estimate,
                                        old |-> FALSE]]
    /\ admitted' = [Pruned EXCEPT ![r] = IF r \in InFlight THEN @ ELSE "fresh"]
    /\ call' = [call EXCEPT ![r][k].at = "reserved", ![r][k].mine = r \notin InFlight]
    /\ UNCHANGED <<control, canceled, money, evictions>>

-----------------------------------------------------------------------------
(***************************************************************************)
(* Settlement.                                                             *)
(***************************************************************************)

Pending(r) == result[r].state = "in_flight"

\* Mutant: settlement does not give the reservation back.
SettledForgets(charge, refund, r) ==
    IF Pending(r) THEN [ledger EXCEPT !.spent = @ + charge] ELSE ledger

\* settle: a request with no pending row is left alone.
Settled(charge, refund, r) ==
    IF Pending(r)
    THEN [spent    |-> ledger.spent + charge,
          reserved |-> ledger.reserved - result[r].reserved,
          requests |-> IF refund /\ ledger.requests > 0 THEN ledger.requests - 1
                       ELSE ledger.requests]
    ELSE ledger

\* Mutant: no result is kept for replay.
StoredNever(keep, r) == NoResult

\* A completed result that fits is kept for replay; else the row is dropped.
Stored(keep, r) ==
    IF ~Pending(r) THEN result[r]
    ELSE IF keep THEN [state |-> "cached", reserved |-> 0, old |-> FALSE]
    ELSE NoResult

\* releaseRelay, by the call that made the admission.
ReleaseRelay(r, k) ==
    IF call[r][k].mine THEN [admitted EXCEPT ![r] = "none"] ELSE admitted

\* The tier's budget has room, and the request goes to the provider.
TierAccepts(r, k) ==
    /\ call[r][k].at = "reserved"
    /\ call' = [call EXCEPT ![r][k].at = "upstream"]
    /\ UNCHANGED <<ledger, result, admitted, control, canceled, money, evictions>>

\* Mutant: the admission of a request its tier refused is not given back.
TierRefusesKeepsAdmission(r, k) ==
    /\ call[r][k].at = "reserved"
    /\ ledger' = Settled(0, TRUE, r)
    /\ result' = [result EXCEPT ![r] = Stored(FALSE, r)]
    /\ Over(r, k)
    /\ UNCHANGED <<admitted, canceled, money, evictions>>

\* The tier's budget is exhausted or did not answer: the finally block gives
\* the reservation, the count and the admission back.  No usage is reported.
TierRefuses(r, k) ==
    /\ call[r][k].at = "reserved"
    /\ ledger' = Settled(0, TRUE, r)
    /\ result' = [result EXCEPT ![r] = Stored(FALSE, r)]
    /\ admitted' = ReleaseRelay(r, k)
    /\ Over(r, k)
    /\ UNCHANGED <<canceled, money, evictions>>

\* The provider's first byte of output.
FirstByte(r, k) ==
    /\ call[r][k].at = "upstream"
    /\ ~call[r][k].byte
    /\ ~call[r][k].aborted
    /\ call' = [call EXCEPT ![r][k].byte = TRUE]
    /\ UNCHANGED <<ledger, result, admitted, control, canceled, money, evictions>>

\* finish: settle, and report the usage unless the send fails.
Finish(r, k, outcome, charge, keep) ==
    /\ call[r][k].at = "upstream"
    /\ ledger' = Settled(charge, ~call[r][k].byte, r)
    /\ result' = [result EXCEPT ![r] = Stored(keep, r)]
    /\ call' = [call EXCEPT ![r][k] = [@ EXCEPT !.at = "settled", !.outcome = outcome,
                                                !.charged = charge, !.kept = keep]]
    /\ \/ queue' = queue \union {[req |-> r, call |-> k]}
       \/ UNCHANGED queue
    /\ UNCHANGED <<admitted, control, canceled, receipt, billed, evictions>>

\* The completion is assembled and metered; its result fits the cache or not.
Succeeds(r, k) ==
    /\ call[r][k].byte /\ ~call[r][k].aborted
    /\ \E charge \in Charges \union {Estimate}, keep \in BOOLEAN :
           Finish(r, k, "succeeded", charge, keep)

\* The provider fails, times out or cannot be assembled, or the running cost
\* passes what the budget has left.  Without a byte nothing is charged.
Fails(r, k) ==
    \E charge \in IF call[r][k].byte THEN Charges \union {0, Estimate} ELSE {0} :
        Finish(r, k, "failed", charge, FALSE)

\* The caller is gone or canceled the request.
Aborts(r, k) ==
    \E charge \in IF call[r][k].byte THEN Charges \union {Estimate} ELSE {0} :
        Finish(r, k, "aborted", charge, FALSE)

\* The tier has settled; the admission is given back.  A completion and an
\* error status of the provider are returned, other failures are thrown.
Releases(r, k) ==
    /\ call[r][k].at = "settled"
    /\ admitted' = ReleaseRelay(r, k)
    /\ \/ call[r][k].outcome # "aborted" /\ Returned(r, k)
       \/ call[r][k].outcome # "succeeded" /\ Over(r, k)
    /\ UNCHANGED <<ledger, result, canceled, money, evictions>>

BodyRead(r, k) ==
    /\ call[r][k].at = "body"
    /\ Over(r, k)
    /\ UNCHANGED <<ledger, result, admitted, canceled, money, evictions>>

-----------------------------------------------------------------------------
(***************************************************************************)
(* Time, evictions, and the queue.                                         *)
(***************************************************************************)

\* Mutant: the abandon age is shorter than a completion may take.
RowAgesEarly(r) ==
    /\ result[r].state = "in_flight" /\ ~result[r].old
    /\ result' = [result EXCEPT ![r].old = TRUE]
    /\ UNCHANGED <<ledger, admitted, call, control, canceled, money, evictions>>

\* A results row passes IN_FLIGHT_ABANDON_AFTER_MS.  A live call has settled
\* before: its upstream controller aborts it a minute earlier.
RowAges(r) ==
    /\ result[r].state = "in_flight" /\ ~result[r].old
    /\ \A k \in Calls : ~Executing(r, k)
    /\ result' = [result EXCEPT ![r].old = TRUE]
    /\ UNCHANGED <<ledger, admitted, call, control, canceled, money, evictions>>

\* An in_flight row does, for the same reason only when its maker is gone.
AdmissionAges(r) ==
    /\ admitted[r] = "fresh"
    /\ \A k \in Calls : ~Holding(r, k)
    /\ admitted' = [admitted EXCEPT ![r] = "old"]
    /\ UNCHANGED <<ledger, result, call, control, canceled, money, evictions>>

\* The owner's object is lost with the calls it runs; its tables are not.
Evict ==
    /\ evictions < MaxEvictions
    /\ evictions' = evictions + 1
    /\ call' = [r \in Request |-> [k \in Calls |->
                   IF Live(r, k) THEN Gone(call[r][k]) ELSE call[r][k]]]
    /\ control' = [r \in Request |-> NoControl]
    /\ UNCHANGED <<ledger, result, admitted, canceled, money>>

\* Mutant: the receipt of a request is not looked up.
ClaimReceiptBlind(r) == TRUE

\* claimReceipt: only the first event of a request id is settled.
ClaimReceipt(r) == r \notin receipt

\* applyGatewayUsage for one event of a batch.  The queue delivers in any
\* order, and again when the answer is lost or another owner's share failed.
IngestUsage(e) ==
    LET ended == call[e.req][e.call]
    IN  /\ receipt' = receipt \union {e.req}
        /\ billed' = [billed EXCEPT ![e.req] =
               @ + IF ClaimReceipt(e.req) /\ ended.outcome # "failed" THEN ended.charged ELSE 0]
        /\ \/ queue' = queue \ {e}
           \/ UNCHANGED queue
        /\ UNCHANGED <<ledger, result, admitted, call, control, canceled, evictions>>

Next ==
    \/ \E r \in Request :
           \/ Cancel(r)
           \/ RowAges(r)
           \/ AdmissionAges(r)
           \/ \E k \in Calls :
                  \/ Begin(r, k)
                  \/ Refused(r, k)
                  \/ ReserveKnown(r, k)
                  \/ ReserveRefused(r, k)
                  \/ Reserve(r, k)
                  \/ TierAccepts(r, k)
                  \/ TierRefuses(r, k)
                  \/ FirstByte(r, k)
                  \/ Succeeds(r, k)
                  \/ Fails(r, k)
                  \/ Aborts(r, k)
                  \/ Releases(r, k)
                  \/ BodyRead(r, k)
    \/ \E e \in queue : IngestUsage(e)
    \/ Evict

Spec == Init /\ [][Next]_vars

-----------------------------------------------------------------------------
(***************************************************************************)
(* Properties.                                                             *)
(***************************************************************************)

\* At most one call of a request holds a reservation that is not settled, and
\* it is the one whose row is in flight: settle finds its row by request id
\* alone, so a second one would settle the first one's reservation.
OneExecution ==
    \A r \in Request :
        /\ \A j, k \in Calls : Executing(r, j) /\ Executing(r, k) => j = k
        /\ \A k \in Calls : Executing(r, k) => Pending(r)

\* The units of money the rows in flight reserve, and those calls were charged,
\* each told apart by its owner and its number.
ReservedUnits == UNION {{r} \X (1 .. result[r].reserved) : r \in Request}

SpentUnits == UNION {{rk} \X (1 .. call[rk[1]][rk[2]].charged) : rk \in Request \X Calls}

\* The ledger's totals are those of its rows and calls: what is reserved is
\* what rows in flight hold, and what is spent is what calls were charged,
\* whatever was retried, abandoned, refused or lost.
BooksBalance ==
    /\ ledger.reserved = Cardinality(ReservedUnits)
    /\ ledger.spent = Cardinality(SpentUnits)

\* A completion kept for replay is final: one call of the request made it, it
\* stays stored, and no call runs beside it.
KeptResultIsFinal ==
    \A r \in Request : \A k \in Calls :
        call[r][k].kept =>
            /\ result[r].state = "cached"
            /\ \A j \in Calls : ~Executing(r, j)
            /\ \A j \in Calls : call[r][j].kept => j = k

\* Once a cancellation is recorded no call of the request runs unaware of it:
\* each either began later and was refused, or is on the aborted signal, even
\* when other calls of the same id came and went meanwhile.
CancelReachesCall ==
    \A r \in canceled : \A k \in Calls :
        call[r][k].at \in {"begun", "reserved", "upstream"} => call[r][k].aborted

\* An admission outlives its maker only by an eviction: while the object
\* stays up, each in_flight row is held by the call that will give it back.
AdmissionIsHeld ==
    evictions = 0 =>
        \A r \in Request : admitted[r] # "none" => \E k \in Calls : Holding(r, k)

\* The owner's account is charged for one call of a request at most, and
\* never for one that failed, however often its events are delivered.
BilledForOneCall ==
    \A r \in Request : billed[r] # 0 =>
        \E k \in Calls : /\ call[r][k].outcome \in {"succeeded", "aborted"}
                         /\ billed[r] = call[r][k].charged

=============================================================================
