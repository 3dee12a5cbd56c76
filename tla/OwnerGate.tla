----------------------------- MODULE OwnerGate -----------------------------
(***************************************************************************)
(* The dispatch half of the OwnerGate Durable Object                       *)
(* (workers/cloud-builder/src/owner-gate.ts and owner-gate/): it owns the  *)
(* dispatch rows, the offers made to the owner's computers, the claim and  *)
(* acknowledgement handoff, the cloud fallback and the alarm that expires  *)
(* every one of them.                                                      *)
(*                                                                         *)
(* The object is single threaded.  A handler is one atomic step until it   *)
(* awaits a call to another object; there the event loop is free and any   *)
(* other handler may run before the continuation resumes.  `start` holds   *)
(* those continuations (one per caller that can be suspended in            *)
(* runCloudBranch), `alarm` the rows the suspended alarm loop read before  *)
(* it was suspended.                                                       *)
(*                                                                         *)
(* Time.  A deadline column is "none" (NULL), "live" (in the future) or    *)
(* "lapsed"; Lapse is the passage of time.  Nothing is assumed about which *)
(* of two live deadlines comes first.                                      *)
(***************************************************************************)
EXTENDS Naturals, DispatchPolicy

CONSTANTS
    Dispatch,       \* dispatch ids; each names one possible submit
    Device,         \* the owner's computers
    NoDevice,       \* a NULL device column
    Paired,         \* computers paired with the owner's phone
    Kinds,          \* kinds of work submitted
    Ingresses,      \* surfaces that submit
    MaxSession,     \* bound: presence sessions a computer goes through
    MaxEvictions    \* bound: evictions of the object

ASSUME OwnerGateAssumption ==
    /\ NoDevice \notin Device
    /\ Paired \subseteq Device
    /\ Kinds \subseteq Kind
    /\ Ingresses \subseteq Ingress
    /\ MaxSession \in Nat
    /\ MaxEvictions \in Nat

VARIABLES
    row,        \* the dispatches table
    offer,      \* the dispatch_offers table
    presence,   \* the device_presence table and the proven socket behind it
    running,    \* the running table: the admission slot of the dispatch's turn
    handoff,    \* the cloud chat handoff record of the dispatch
    start,      \* continuations suspended inside runCloudBranch
    alarm,      \* rows read by the alarm pass and not processed yet
    pass,       \* an alarm pass is in progress
    armed,      \* an alarm is set
    runs,       \* executions the cloud has started for the dispatch (external)
    receipt,    \* cloud_dispatch_terminals
    evictions   \* evictions so far

vars == <<row, offer, presence, running, handoff, start, alarm, pass, armed,
          runs, receipt, evictions>>

Deadline == {"none", "live", "lapsed"}

\* The callers of runCloudBranch that can be suspended in it.
Caller == {"submit", "frame", "alarm"}

DISPATCH_CLOUD_MAX_ATTEMPTS == 2

Outcome == {"completed", "failed", "canceled"}

RowType ==
    [state     : DispatchState \cup {"absent"},
     kind      : Kind,
     onNo      : {"cloud", "blocked"},
     placement : {"none", "computer", "cloud"},
     exec      : Device \cup {NoDevice},
     sess      : Nat,
     payload   : Deadline,      \* payload_json with its payload_expires_at
     offerDl   : Deadline,
     lease     : Deadline,
     retry     : Deadline,      \* cloud_retry_at
     attempts  : Nat,
     started   : BOOLEAN,       \* started_at
     stop      : BOOLEAN,       \* cancel_request_id
     cloudTurn : BOOLEAN,       \* cloud_turn_id
     gateHeld  : BOOLEAN,
     cloudable : BOOLEAN]       \* no capability the cloud cannot provide

NoRow ==
    [state |-> "absent", kind |-> "chat", onNo |-> "cloud",
     placement |-> "none", exec |-> NoDevice, sess |-> 0, payload |-> "none",
     offerDl |-> "none", lease |-> "none", retry |-> "none", attempts |-> 0,
     started |-> FALSE, stop |-> FALSE, cloudTurn |-> FALSE,
     gateHeld |-> FALSE, cloudable |-> TRUE]

\* admitting: admitWithFenceLease inserted the slot and awaits home context;
\* registering: gate_held is set, the reader and the model grant are awaited;
\* sent: the start call is at the conversation or the build session;
\* ok, refused (4xx), unavailable (503): its answer is on the way back.
StartType ==
    [phase : {"idle", "admitting", "registering", "sent",
              "ok", "refused", "unavailable"},
     attempt : Nat]

Idle == [phase |-> "idle", attempt |-> 0]

AlarmType == [branch : {"none", "offer", "retry", "claim", "lease", "payload"},
              payload : BOOLEAN]

NotDue == [branch |-> "none", payload |-> FALSE]

OfferType == [status : {"none", "open", "claimed", "withdrawn"}, sess : Nat]

PresenceType == [connected : BOOLEAN, ready : BOOLEAN, sess : Nat]

TypeOK ==
    /\ row \in [Dispatch -> RowType]
    /\ offer \in [Dispatch -> [Device -> OfferType]]
    /\ presence \in [Device -> PresenceType]
    /\ running \in [Dispatch -> Deadline]
    /\ handoff \in [Dispatch -> {"none", "allocating", "registered", "retired"}]
    /\ start \in [Dispatch -> [Caller -> StartType]]
    /\ alarm \in [Dispatch -> AlarmType]
    /\ pass \in BOOLEAN
    /\ armed \in BOOLEAN
    /\ runs \in [Dispatch -> Nat]
    /\ receipt \in [Dispatch -> Outcome \cup {"none"}]
    /\ evictions \in Nat

Init ==
    /\ row = [d \in Dispatch |-> NoRow]
    /\ offer = [d \in Dispatch |->
                  [p \in Device |-> [status |-> "none", sess |-> 0]]]
    /\ presence = [p \in Device |-> [connected |-> FALSE, ready |-> FALSE, sess |-> 0]]
    /\ running = [d \in Dispatch |-> "none"]
    /\ handoff = [d \in Dispatch |-> "none"]
    /\ start = [d \in Dispatch |-> [c \in Caller |-> Idle]]
    /\ alarm = [d \in Dispatch |-> NotDue]
    /\ pass = FALSE
    /\ armed = FALSE
    /\ runs = [d \in Dispatch |-> 0]
    /\ receipt = [d \in Dispatch |-> "none"]
    /\ evictions = 0

-----------------------------------------------------------------------------
(* The event loop and the alarm clock.                                     *)

\* A handler can run: no alarm pass, or the pass is suspended in a cloud start.
Free == pass => \E d \in Dispatch : start[d]["alarm"].phase # "idle"

LeasedState == {"computer_claimed", "computer_accepted", "computer_running",
                "cloud_committed", "cancel_pending"}

\* The deadlines of a row that scheduleAlarm asks the database for.
HasDeadline(r) ==
    \/ r.state = "offering" /\ r.offerDl # "none"
    \/ r.state \in LeasedState /\ r.lease # "none"
    \/ r.state = "cloud_committed" /\ r.retry # "none"
    \/ r.payload # "none"

\* Something the alarm has to wake for: a row, or the token of a live socket.
WakeNeeded ==
    \/ \E d \in Dispatch : HasDeadline(row[d])
    \/ \E p \in Device : presence[p].connected

\* An existing alarm is kept when it is earlier, so it is never disarmed.
ScheduleAlarm == armed' = (armed \/ WakeNeeded')

\* The alarm after a step of caller c inside runCloudBranch: registering a chat's
\* fence lease arms it, so does recording a retry, and submit schedules last.
ArmAfterStart(d, c) ==
    armed' = \/ armed
             \/ start'[d][c].phase = "admitting"
             \/ row'[d].retry = "live" /\ row[d].retry # "live"
             \/ c = "submit" /\ start'[d][c] = Idle /\ WakeNeeded'

-----------------------------------------------------------------------------
(* Row updates shared by the handlers.  `slots` is the running table as the *)
(* handler has left it so far.                                             *)

Put(d, r) == row' = [row EXCEPT ![d] = r]

Freed(d, slots) == [slots EXCEPT ![d] = "none"]

\* admit() prunes every slot that outlived the turn timeout, then inserts ours.
Admitted(d) ==
    [e \in Dispatch |-> IF e = d THEN "live"
                        ELSE IF running[e] = "lapsed" THEN "none"
                        ELSE running[e]]

\* patchDispatch to a row that gives the admission back, then releaseGate.
PutAndReleaseGate(d, r, slots) ==
    /\ Put(d, [r EXCEPT !.gateHeld = FALSE])
    /\ running' = IF r.gateHeld THEN Freed(d, slots) ELSE slots

Failed(r) == [r EXCEPT !.state = "failed", !.payload = "none", !.lease = "none"]

BlockedRow(r) ==
    [r EXCEPT !.state = "blocked", !.exec = NoDevice, !.sess = 0,
              !.offerDl = "none", !.lease = "none", !.payload = "none"]

\* Mutant of CloudCommitted: the fallback keeps the executor columns.
CloudCommittedKeepsExecutor(r) ==
    [r EXCEPT !.state = "cloud_committed", !.placement = "cloud",
              !.offerDl = "none", !.lease = "live"]

CloudCommitted(r) ==
    [r EXCEPT !.state = "cloud_committed", !.placement = "cloud",
              !.exec = NoDevice, !.sess = 0, !.offerDl = "none", !.lease = "live"]

CloudRunning(r) ==
    [r EXCEPT !.state = "cloud_running", !.placement = "cloud",
              !.cloudTurn = TRUE, !.retry = "none", !.payload = "none",
              !.lease = "none", !.started = TRUE]

Settled(r, outcome) ==
    [r EXCEPT !.state = outcome, !.payload = "none", !.lease = "none"]

WithdrawOffers(d) ==
    offer' = [offer EXCEPT ![d] =
                [p \in Device |-> IF offer[d][p].status = "open"
                                  THEN [offer[d][p] EXCEPT !.status = "withdrawn"]
                                  ELSE offer[d][p]]]

-----------------------------------------------------------------------------
(* The cloud branch.                                                       *)

SetStart(d, c, phase, n) ==
    start' = [start EXCEPT ![d][c] = [phase |-> phase, attempt |-> n]]

EndStart(d, c) == start' = [start EXCEPT ![d][c] = Idle]

SetHandoff(d, h) == handoff' = [handoff EXCEPT ![d] = h]

\* Mutant of CloudRefusal: a refused start fails without releaseGate.
CloudRefusalKeepsSlot(d, r, n, status, slots) ==
    \/ /\ status = "unavailable" /\ n < DISPATCH_CLOUD_MAX_ATTEMPTS
       /\ Put(d, [r EXCEPT !.retry = "live", !.lease = "live"])
       /\ running' = slots
    \/ /\ ~(status = "unavailable" /\ n < DISPATCH_CLOUD_MAX_ATTEMPTS)
       /\ Put(d, Failed(r))
       /\ running' = slots

\* cloudRefusal: one retry when the builder was unavailable, else the refusal
\* is the dispatch's own failure.  The patch lands on whatever the row is now.
CloudRefusal(d, r, n, status, slots) ==
    \/ /\ status = "unavailable" /\ n < DISPATCH_CLOUD_MAX_ATTEMPTS
       /\ Put(d, [r EXCEPT !.retry = "live", !.lease = "live"])
       /\ running' = slots
    \/ /\ ~(status = "unavailable" /\ n < DISPATCH_CLOUD_MAX_ATTEMPTS)
       /\ PutAndReleaseGate(d, Failed(r), slots)

\* A placed agent gets a fresh thread and is started by one call.
StartCloudAgent(d, c, r, slots) ==
    /\ Put(d, r)
    /\ running' = slots
    /\ SetStart(d, c, "sent", r.attempts)
    /\ UNCHANGED handoff

\* Mutant of SendAdmittedChat: an overtaken start does not give its slot back.
SendAdmittedChatKeepsSlot(d, c, r, n) ==
    \/ /\ r.state = "cloud_committed"
       /\ Put(d, [r EXCEPT !.cloudTurn = TRUE])
       /\ SetStart(d, c, "sent", n)
       /\ SetHandoff(d, "registered")
       /\ UNCHANGED running
    \/ /\ r.state # "cloud_committed"
       /\ Put(d, r)
       /\ EndStart(d, c)
       /\ SetHandoff(d, "retired")
       /\ UNCHANGED running

\* Mutant of SendAdmittedChat: the turn id is left to the answer of the call.
SendAdmittedChatWithoutTurn(d, c, r, n) ==
    \/ /\ r.state = "cloud_committed"
       /\ Put(d, r)
       /\ SetStart(d, c, "sent", n)
       /\ SetHandoff(d, "registered")
       /\ UNCHANGED running
    \/ /\ r.state # "cloud_committed"
       /\ PutAndReleaseGate(d, r, running)
       /\ EndStart(d, c)
       /\ SetHandoff(d, "retired")

\* The last check before the call that starts a registered chat: a row that
\* left cloud_committed meanwhile retires the handoff and is not started.
SendAdmittedChat(d, c, r, n) ==
    \/ /\ r.state = "cloud_committed"
       /\ Put(d, [r EXCEPT !.cloudTurn = TRUE])
       /\ SetStart(d, c, "sent", n)
       /\ SetHandoff(d, "registered")
       /\ UNCHANGED running
    \/ /\ r.state # "cloud_committed"
       /\ PutAndReleaseGate(d, r, running)
       /\ EndStart(d, c)
       /\ SetHandoff(d, "retired")

\* A placed chat first allocates a turn identity, is admitted and registers a
\* fence lease under it; a retry reuses the identity the first attempt left.
\* Admission refuses for the owner's state (4xx) or an internal fault (503).
StartCloudChat(d, c, r) ==
    LET h == IF handoff[d] = "none" /\ r.attempts = 1 THEN "allocating" ELSE handoff[d] IN
    \/ /\ h = "retired"
       /\ CloudRefusal(d, r, r.attempts, "refused", running)
       /\ UNCHANGED <<start, handoff>>
    \/ /\ h = "allocating"
       /\ \E status \in {"refused", "unavailable"} :
             CloudRefusal(d, r, r.attempts, status, running)
       /\ SetHandoff(d, h)
       /\ UNCHANGED start
    \/ /\ h = "allocating"
       /\ Put(d, r)
       /\ running' = Admitted(d)
       /\ SetHandoff(d, h)
       /\ SetStart(d, c, "admitting", r.attempts)
    \/ /\ h = "registered"
       /\ SendAdmittedChat(d, c, r, r.attempts)

\* runCloudBranch, on row r with the payload its caller read.
RunCloudBranch(d, c, r, payload, slots) ==
    \/ /\ ~r.cloudable
       /\ PutAndReleaseGate(d, Failed(r), slots)
       /\ UNCHANGED <<start, handoff>>
    \/ /\ r.cloudable /\ ~payload
       /\ PutAndReleaseGate(d, [r EXCEPT !.state = "failed", !.lease = "none"], slots)
       /\ UNCHANGED <<start, handoff>>
    \/ /\ r.cloudable /\ payload
       /\ LET attempting == [r EXCEPT !.attempts = @ + 1, !.retry = "none"] IN
          \/ r.kind = "agent" /\ StartCloudAgent(d, c, attempting, slots)
          \/ r.kind = "chat"  /\ StartCloudChat(d, c, attempting)

\* resolveUnaccepted on row r, read in "offering" or "computer_claimed"; a plan
\* that no longer covers a sandbox refuses agents.  The payload the cloud branch
\* uses is the one the row still has when it is patched.
ResolveUnaccepted(d, c, r) ==
    \/ /\ r.onNo = "cloud"
       /\ RunCloudBranch(d, c, CloudCommitted(r), r.payload # "none", running)
    \/ /\ r.onNo = "blocked" \/ r.kind = "agent"
       /\ PutAndReleaseGate(d, BlockedRow(r), running)
       /\ UNCHANGED <<start, handoff>>

-----------------------------------------------------------------------------
(* Submit.                                                                 *)

Eligible(p) == p \in Device /\ presence[p].connected /\ presence[p].ready

\* The computer a request can name: the pair grant of a phone, the target of a
\* device request, the requesting computer of work that stays where it is.
NamedDevice(ingress, subject, target) ==
    IF ingress = "mobile"
    THEN IF target = "device" THEN Paired ELSE Paired \cup {NoDevice}
    ELSE IF \/ target = "device"
            \/ DecideDispatchPlacement(ingress, subject, target) = Commit("computer")
         THEN Device ELSE {NoDevice}

\* The admission an agent takes before its row is inserted; a chat takes none.
SubmitSlots(d, r) == IF r.kind = "agent" THEN Admitted(d) ELSE running

\* Work of a computer's own: committed to it without an offer.  A computer the
\* gate has never seen has no presence session to bind the work to.
SubmitToRequester(d, r, p) ==
    /\ Put(d, [r EXCEPT !.state = "computer_accepted", !.placement = "computer",
                        !.exec = p, !.sess = presence[p].sess, !.lease = "live",
                        !.gateHeld = (r.kind = "agent")])
    /\ running' = SubmitSlots(d, r)
    /\ UNCHANGED <<offer, handoff, start>>

SubmitOffer(d, r, p) ==
    /\ Put(d, [r EXCEPT !.state = "offering", !.payload = "live",
                        !.offerDl = "live", !.gateHeld = (r.kind = "agent")])
    /\ running' = SubmitSlots(d, r)
    /\ offer' = [offer EXCEPT ![d][p] = [status |-> "open", sess |-> presence[p].sess]]
    /\ UNCHANGED <<handoff, start>>

SubmitBlocked(d, r) ==
    /\ Put(d, [r EXCEPT !.state = "blocked"])
    /\ running' = IF r.kind = "agent" THEN Freed(d, Admitted(d)) ELSE running
    /\ UNCHANGED <<offer, handoff, start>>

\* An agent whose plan covers no sandbox is refused before it has a row.
SubmitToCloud(d, r) ==
    /\ RunCloudBranch(d, "submit",
                      [r EXCEPT !.state = "cloud_committed", !.placement = "cloud",
                                !.lease = "live", !.payload = "live",
                                !.gateHeld = (r.kind = "agent")],
                      TRUE, SubmitSlots(d, r))
    /\ UNCHANGED offer

NewRow(kind, subject, decision, cloudable) ==
    [NoRow EXCEPT
        !.kind = kind,
        !.onNo = IF decision.kind = "offer" THEN decision.place
                 ELSE IF subject = "computer" THEN "blocked" ELSE "cloud",
        !.cloudable = cloudable]

\* What the decision comes to, p being the computer the request names.  Work
\* committed to a computer must name it; an offer needs an eligible one.
SubmitPlaced(d, decision, r, p) ==
    \/ decision = Commit("computer") /\ p # NoDevice /\ SubmitToRequester(d, r, p)
    \/ decision.kind = "offer" /\ Eligible(p) /\ SubmitOffer(d, r, p)
    \/ /\ decision = Blocked \/ (decision = Offer("blocked") /\ ~Eligible(p))
       /\ SubmitBlocked(d, r)
    \/ /\ decision = Commit("cloud") \/ (decision = Offer("cloud") /\ ~Eligible(p))
       /\ SubmitToCloud(d, r)

\* submit(): a replay of a known idempotency key only reads, so each dispatch
\* id is submitted once.
Submit(d) ==
    /\ Free
    /\ row[d].state = "absent"
    /\ \E kind \in Kinds, ingress \in Ingresses, subject \in Subject,
          target \in TargetMode, cloudable \in BOOLEAN :
         /\ Submittable(ingress, subject, target)
         /\ \E p \in NamedDevice(ingress, subject, target) :
              LET decision == DecideDispatchPlacement(ingress, subject, target) IN
              SubmitPlaced(d, decision, NewRow(kind, subject, decision, cloudable), p)
    /\ UNCHANGED <<presence, alarm, pass, runs, receipt, evictions>>
    /\ ArmAfterStart(d, "submit")

-----------------------------------------------------------------------------
(* Presence sockets.                                                       *)

\* A proven socket, which replaces the one the computer had.  A computer keeps
\* its presence session across reconnects and opens a new one when its account
\* generation rotates.
Connect(p) ==
    /\ Free
    /\ \E sess \in {presence[p].sess, presence[p].sess + 1} \ {0}, ready \in BOOLEAN :
         /\ sess <= MaxSession
         /\ presence' = [presence EXCEPT ![p] =
                            [connected |-> TRUE, ready |-> ready, sess |-> sess]]
    /\ UNCHANGED <<row, offer, running, handoff, start, alarm, pass, runs, receipt, evictions>>
    /\ ScheduleAlarm

\* The socket closed, went stale or lost its token.
Disconnect(p) ==
    /\ Free
    /\ presence[p].connected
    /\ presence' = [presence EXCEPT ![p].connected = FALSE, ![p].ready = FALSE]
    /\ UNCHANGED <<row, offer, running, handoff, start, alarm, pass, runs, receipt, evictions>>
    /\ ScheduleAlarm

\* An availability frame, a consent change, or a heartbeat gone quiet.
SetReady(p) ==
    /\ presence[p].connected
    /\ presence' = [presence EXCEPT ![p].ready = ~@]
    /\ UNCHANGED <<row, offer, running, handoff, start, alarm, pass, armed,
                   runs, receipt, evictions>>

-----------------------------------------------------------------------------
(* Frames of a proven computer.  A frame the gate denies changes nothing.  *)

\* Everything past a claim is bound to the exact session that holds it.
Owns(p, d) ==
    presence[p].connected /\ row[d].exec = p /\ row[d].sess = presence[p].sess

HandleClaim(p, d) ==
    /\ Free
    /\ row[d].state = "offering" /\ row[d].offerDl = "live"
    /\ offer[d][p] = [status |-> "open", sess |-> presence[p].sess]
    /\ Eligible(p)
    /\ offer' = [offer EXCEPT ![d] =
                   [q \in Device |->
                      IF q = p THEN [offer[d][q] EXCEPT !.status = "claimed"]
                      ELSE IF offer[d][q].status = "open"
                      THEN [offer[d][q] EXCEPT !.status = "withdrawn"]
                      ELSE offer[d][q]]]
    /\ Put(d, [row[d] EXCEPT !.state = "computer_claimed", !.exec = p,
                             !.sess = presence[p].sess, !.lease = "live"])
    /\ UNCHANGED <<presence, running, handoff, start, alarm, pass, runs, receipt, evictions>>
    /\ ScheduleAlarm

\* Mutant of HandleRelease: accepted work may be declined too.
HandleReleaseAfterAck(p, d) ==
    /\ Free
    /\ Owns(p, d)
    /\ row[d].state \in {"computer_claimed", "computer_accepted"}
    /\ WithdrawOffers(d)
    /\ ResolveUnaccepted(d, "frame",
          [row[d] EXCEPT !.state = "offering", !.exec = NoDevice, !.sess = 0,
                         !.lease = "none"])
    /\ UNCHANGED <<presence, alarm, pass, runs, receipt, evictions>>
    /\ ArmAfterStart(d, "frame")

\* The computer declines what it claimed; its own offer is spent and the
\* policy's fallback runs at once.
HandleRelease(p, d) ==
    /\ Free
    /\ Owns(p, d)
    /\ row[d].state = "computer_claimed"
    /\ offer' = [offer EXCEPT ![d] =
                   [q \in Device |->
                      IF q = p \/ offer[d][q].status = "open"
                      THEN [offer[d][q] EXCEPT !.status = "withdrawn"]
                      ELSE offer[d][q]]]
    /\ ResolveUnaccepted(d, "frame",
          [row[d] EXCEPT !.state = "offering", !.exec = NoDevice, !.sess = 0,
                         !.lease = "none"])
    /\ UNCHANGED <<presence, alarm, pass, runs, receipt, evictions>>
    /\ ArmAfterStart(d, "frame")

\* Mutant of HandleAck: the payload stays with the gate.
HandleAckKeepsPayload(p, d) ==
    /\ Free
    /\ Owns(p, d)
    /\ row[d].state = "computer_claimed" /\ row[d].lease = "live"
    /\ Put(d, [row[d] EXCEPT !.state = "computer_accepted",
                             !.placement = "computer", !.lease = "live"])
    /\ UNCHANGED <<offer, presence, running, handoff, start, alarm, pass, armed,
                   runs, receipt, evictions>>

\* Durable acceptance: the computer's inbox is now the only copy.
HandleAck(p, d) ==
    /\ Free
    /\ Owns(p, d)
    /\ row[d].state = "computer_claimed" /\ row[d].lease = "live"
    /\ Put(d, [row[d] EXCEPT !.state = "computer_accepted",
                             !.placement = "computer", !.payload = "none",
                             !.lease = "live"])
    /\ UNCHANGED <<offer, presence, running, handoff, start, alarm, pass, armed,
                   runs, receipt, evictions>>

HandleRunning(p, d) ==
    /\ Free
    /\ Owns(p, d)
    /\ row[d].state \in {"computer_accepted", "computer_running", "reconciliation_required"}
    /\ Put(d, [row[d] EXCEPT !.state = "computer_running", !.started = TRUE,
                             !.lease = "live"])
    /\ UNCHANGED <<offer, presence, running, handoff, start, alarm, pass, armed,
                   runs, receipt, evictions>>

AcceptedState == {"computer_accepted", "computer_running", "cancel_pending",
                  "reconciliation_required"}

HandleRenew(p, d) ==
    /\ Free
    /\ Owns(p, d)
    /\ row[d].state \in AcceptedState
    /\ Put(d, [row[d] EXCEPT
                 !.state = IF @ # "reconciliation_required" THEN @
                           ELSE IF row[d].started THEN "computer_running"
                           ELSE "computer_accepted",
                 !.lease = "live"])
    /\ UNCHANGED <<offer, presence, running, handoff, start, alarm, pass, armed,
                   runs, receipt, evictions>>

HandleComplete(p, d) ==
    /\ Free
    /\ Owns(p, d)
    /\ row[d].state \in AcceptedState
    /\ \E outcome \in Outcome :
         PutAndReleaseGate(d, Settled(row[d], outcome), running)
    /\ UNCHANGED <<offer, presence, handoff, start, alarm, pass, runs, receipt, evictions>>
    /\ ScheduleAlarm

-----------------------------------------------------------------------------
(* Continuations of a suspended cloud start.                               *)

\* Home context and destinations are back: the admission is recorded as held.
ChatHold(d, c) ==
    /\ Free
    /\ start[d][c].phase = "admitting"
    /\ Put(d, [row[d] EXCEPT !.gateHeld = TRUE])
    /\ start' = [start EXCEPT ![d][c].phase = "registering"]
    /\ UNCHANGED <<offer, presence, running, handoff, alarm, pass, armed,
                   runs, receipt, evictions>>

\* The model grant is issued.  A handoff retired in between gives its slot
\* back and fails the dispatch; otherwise it is registered and sent.
ChatRegister(d, c) ==
    /\ Free
    /\ start[d][c].phase = "registering"
    /\ \/ /\ handoff[d] = "retired"
          /\ CloudRefusal(d, row[d], start[d][c].attempt, "refused", Freed(d, running))
          /\ EndStart(d, c)
          /\ UNCHANGED handoff
       \/ /\ handoff[d] # "retired"
          /\ SendAdmittedChat(d, c, row[d], start[d][c].attempt)
    /\ UNCHANGED <<offer, presence, alarm, pass, runs, receipt, evictions>>
    /\ ArmAfterStart(d, c)

\* What the conversation or the build session does with a start.  A chat start
\* is idempotent on the dispatch; each agent start names a thread of its own.
CloudAnswers(d, c) ==
    /\ start[d][c].phase = "sent"
    /\ \/ /\ start' = [start EXCEPT ![d][c].phase = "ok"]
          /\ runs' = [runs EXCEPT ![d] = IF row[d].kind = "chat" THEN 1 ELSE @ + 1]
       \/ /\ row[d].kind = "agent" \/ runs[d] = 0
          /\ \E answer \in {"refused", "unavailable"} :
               start' = [start EXCEPT ![d][c].phase = answer]
          /\ UNCHANGED runs
    /\ UNCHANGED <<row, offer, presence, running, handoff, alarm, pass, armed,
                   receipt, evictions>>

\* Mutant of StartReplyOk: no start re-reads the row it records.
StartReplyOkBlind(d, c) ==
    /\ Free
    /\ start[d][c].phase = "ok"
    /\ Put(d, CloudRunning(row[d]))
    /\ EndStart(d, c)
    /\ UNCHANGED <<offer, presence, running, handoff, alarm, pass, runs, receipt, evictions>>
    /\ ArmAfterStart(d, c)

\* A chat re-reads the row before it records the start; an agent does not.  An
\* agent that runs in its conversation also gives the admission back.
StartReplyOk(d, c) ==
    /\ Free
    /\ start[d][c].phase = "ok"
    /\ \/ /\ row[d].kind = "chat" /\ row[d].state # "cloud_committed"
          /\ UNCHANGED <<row, running>>
       \/ /\ row[d].kind = "chat" /\ row[d].state = "cloud_committed"
          /\ Put(d, CloudRunning(row[d]))
          /\ UNCHANGED running
       \/ /\ row[d].kind = "agent"
          /\ \/ Put(d, CloudRunning(row[d])) /\ UNCHANGED running
             \/ PutAndReleaseGate(d, CloudRunning(row[d]), running)
    /\ EndStart(d, c)
    /\ UNCHANGED <<offer, presence, handoff, alarm, pass, runs, receipt, evictions>>
    /\ ArmAfterStart(d, c)

\* A definite refusal retires a chat's handoff; an unavailable builder keeps it.
StartReplyRefused(d, c) ==
    /\ Free
    /\ start[d][c].phase \in {"refused", "unavailable"}
    /\ CloudRefusal(d, row[d], start[d][c].attempt, start[d][c].phase, running)
    /\ handoff' = IF row[d].kind = "chat" /\ start[d][c].phase = "refused"
                  THEN [handoff EXCEPT ![d] = "retired"] ELSE handoff
    /\ EndStart(d, c)
    /\ UNCHANGED <<offer, presence, alarm, pass, runs, receipt, evictions>>
    /\ ArmAfterStart(d, c)

\* Mutant of StartLost: a start that threw is retried like an unavailable one.
StartLostRetried(d, c) ==
    /\ Free
    /\ start[d][c].phase \in {"registering", "sent", "ok", "refused"}
    /\ CloudRefusal(d, row[d], start[d][c].attempt, "unavailable", running)
    /\ EndStart(d, c)
    /\ UNCHANGED <<offer, presence, handoff, alarm, pass, runs, receipt, evictions>>
    /\ ArmAfterStart(d, c)

\* The call throws, before or after the cloud acted on it: the row is left to
\* its lease.
StartLost(d, c) ==
    /\ Free
    /\ start[d][c].phase \in {"registering", "sent", "ok", "refused"}
    /\ EndStart(d, c)
    /\ UNCHANGED <<row, running>>
    /\ UNCHANGED <<offer, presence, handoff, alarm, pass, runs, receipt, evictions>>
    /\ ArmAfterStart(d, c)

\* The conversation retires the exact lease of a turn it finished or purged.
FenceUnregister(d) ==
    /\ Free
    /\ handoff[d] \in {"allocating", "registered"}
    /\ SetHandoff(d, "retired")
    /\ running' = Freed(d, running)
    /\ Put(d, [row[d] EXCEPT !.gateHeld = FALSE])
    /\ UNCHANGED <<offer, presence, start, alarm, pass, armed, runs, receipt, evictions>>

\* A build session's terminal path frees the slot admitted under its turn id.
Release(d) ==
    /\ Free
    /\ row[d].kind = "agent" /\ runs[d] > 0 /\ running[d] # "none"
    /\ running' = Freed(d, running)
    /\ UNCHANGED <<row, offer, presence, handoff, start, alarm, pass, armed,
                   runs, receipt, evictions>>

-----------------------------------------------------------------------------
(* Receipts, status and cancellation.                                      *)

\* A receipt reaches a row only through the cloud turn id the row records.
Receivable(d) ==
    /\ row[d].placement = "cloud" /\ row[d].cloudTurn
    /\ ~IsTerminalDispatchState(row[d].state)

\* The terminal of an execution arrives: applyOwnerEvents schedules the alarm
\* and the receipt is kept, then applied if the row can be found.
RecordCloudDispatchTerminal(d) ==
    /\ Free
    /\ runs[d] > 0 /\ receipt[d] = "none"
    /\ \E outcome \in Outcome :
         /\ receipt' = [receipt EXCEPT ![d] = outcome]
         /\ \/ /\ Receivable(d)
               /\ PutAndReleaseGate(d, Settled(row[d], outcome), running)
            \/ /\ ~Receivable(d)
               /\ UNCHANGED <<row, running>>
    /\ armed' = (armed \/ WakeNeeded)
    /\ UNCHANGED <<offer, presence, handoff, start, alarm, pass, runs, evictions>>

\* Mutant of DispatchStatus: reconciles without looking whether a receipt came.
DispatchStatusUnconditional(d) ==
    /\ Free
    /\ Receivable(d)
    /\ PutAndReleaseGate(d, Settled(row[d], receipt[d]), running)
    /\ UNCHANGED <<offer, presence, handoff, start, alarm, pass, runs, receipt, evictions>>
    /\ ScheduleAlarm

\* A status read, or a second delivery of the same terminal.
DispatchStatus(d) ==
    /\ Free
    /\ Receivable(d) /\ receipt[d] # "none"
    /\ PutAndReleaseGate(d, Settled(row[d], receipt[d]), running)
    /\ UNCHANGED <<offer, presence, handoff, start, alarm, pass, runs, receipt, evictions>>
    /\ ScheduleAlarm

\* Stop.  Unaccepted work, and cloud work with no turn to stop, ends here;
\* anything else waits for the terminal of the side that executes it.
CancelDispatch(d) ==
    /\ Free
    /\ row[d].state # "absent" /\ ~IsTerminalDispatchState(row[d].state)
    /\ WithdrawOffers(d)
    /\ LET stopped == [row[d] EXCEPT !.stop = TRUE]
           outright == \/ MayFallbackToCloud(row[d].state)
                       \/ row[d].state = "cloud_committed" /\ ~row[d].cloudTurn
       IN
       \/ /\ outright
          /\ PutAndReleaseGate(d, [stopped EXCEPT !.state = "canceled", !.payload = "none",
                                      !.offerDl = "none", !.lease = "none",
                                      !.exec = NoDevice, !.sess = 0], running)
       \/ /\ ~outright
          /\ Put(d, [stopped EXCEPT !.state = "cancel_pending"])
          /\ UNCHANGED running
    /\ UNCHANGED <<presence, handoff, start, alarm, pass, runs, receipt, evictions>>
    /\ ScheduleAlarm

-----------------------------------------------------------------------------
(* The alarm.  It reads the expired rows once and then works through them; *)
(* a row is updated on the decision taken from that first read.            *)

AlarmIdle == \A d \in Dispatch : start[d]["alarm"].phase = "idle"

\* Mutant of LapsedBranch: an expired claim is not looked for.
LapsedBranchSkipsClaims(r) ==
    IF r.state = "offering" /\ r.offerDl = "lapsed" THEN "offer"
    ELSE IF r.state = "cloud_committed" /\ r.retry = "lapsed" THEN "retry"
    ELSE IF r.state \in LeasedState \ {"computer_claimed"} /\ r.lease = "lapsed" THEN "lease"
    ELSE IF r.payload = "lapsed" THEN "payload"
    ELSE "none"

LapsedBranch(r) ==
    IF r.state = "offering" /\ r.offerDl = "lapsed" THEN "offer"
    ELSE IF r.state = "cloud_committed" /\ r.retry = "lapsed" THEN "retry"
    ELSE IF r.state = "computer_claimed" /\ r.lease = "lapsed" THEN "claim"
    ELSE IF r.state \in LeasedState /\ r.lease = "lapsed" THEN "lease"
    ELSE IF r.payload = "lapsed" THEN "payload"
    ELSE "none"

AlarmBegin ==
    /\ armed /\ ~pass
    /\ armed' = FALSE
    /\ pass' = TRUE
    /\ alarm' = [d \in Dispatch |-> [branch |-> LapsedBranch(row[d]),
                                     payload |-> row[d].payload # "none"]]
    /\ UNCHANGED <<row, offer, presence, running, handoff, start, runs, receipt, evictions>>

\* An offer nobody took or a claim nobody acknowledged: the fallback.
AlarmUnaccepted(d) ==
    /\ alarm[d].branch \in {"offer", "claim"}
    /\ WithdrawOffers(d)
    /\ ResolveUnaccepted(d, "alarm", row[d])

\* A start the builder refused as unavailable, once more.
AlarmRetry(d) ==
    /\ alarm[d].branch = "retry"
    /\ RunCloudBranch(d, "alarm", row[d], alarm[d].payload, running)
    /\ UNCHANGED offer

\* Mutant of AlarmLease: a lapsed lease restarts the work in the cloud.
AlarmLeaseRestarts(d) ==
    /\ alarm[d].branch = "lease"
    /\ RunCloudBranch(d, "alarm", row[d], TRUE, running)
    /\ UNCHANGED offer

\* Accepted work is never rerouted: it waits for its executor.
AlarmLease(d) ==
    /\ alarm[d].branch = "lease"
    /\ Put(d, [row[d] EXCEPT !.state = "reconciliation_required", !.lease = "none"])
    /\ UNCHANGED <<offer, running, handoff, start>>

AlarmPayload(d) ==
    /\ alarm[d].branch = "payload"
    /\ Put(d, [row[d] EXCEPT !.payload = "none"])
    /\ UNCHANGED <<offer, running, handoff, start>>

AlarmStep(d) ==
    /\ pass /\ AlarmIdle
    /\ AlarmUnaccepted(d) \/ AlarmRetry(d) \/ AlarmLease(d) \/ AlarmPayload(d)
    /\ alarm' = [alarm EXCEPT ![d] = NotDue]
    /\ UNCHANGED <<presence, pass, runs, receipt, evictions>>
    /\ ArmAfterStart(d, "alarm")

\* Mutant of AlarmEnd: the pass does not schedule the next one.
AlarmEndWithoutRearm ==
    /\ pass /\ AlarmIdle
    /\ \A d \in Dispatch : alarm[d].branch = "none"
    /\ pass' = FALSE
    /\ alarm' = [d \in Dispatch |-> NotDue]
    /\ UNCHANGED <<row, offer, presence, running, handoff, start, armed, runs, receipt, evictions>>

AlarmEnd ==
    /\ pass /\ AlarmIdle
    /\ \A d \in Dispatch : alarm[d].branch = "none"
    /\ pass' = FALSE
    /\ alarm' = [d \in Dispatch |-> NotDue]
    /\ armed' = (armed \/ WakeNeeded)
    /\ UNCHANGED <<row, offer, presence, running, handoff, start, runs, receipt, evictions>>

-----------------------------------------------------------------------------
(* Time and eviction.                                                      *)

LapseOffer(d) ==
    /\ row[d].state = "offering" /\ row[d].offerDl = "live"
    /\ Put(d, [row[d] EXCEPT !.offerDl = "lapsed"])
    /\ UNCHANGED running

LapseLease(d) ==
    /\ row[d].state \in LeasedState /\ row[d].lease = "live"
    /\ Put(d, [row[d] EXCEPT !.lease = "lapsed"])
    /\ UNCHANGED running

LapseRetry(d) ==
    /\ row[d].state = "cloud_committed" /\ row[d].retry = "live"
    /\ Put(d, [row[d] EXCEPT !.retry = "lapsed"])
    /\ UNCHANGED running

LapsePayload(d) ==
    /\ row[d].payload = "live"
    /\ Put(d, [row[d] EXCEPT !.payload = "lapsed"])
    /\ UNCHANGED running

LapseSlot(d) ==
    /\ running[d] = "live"
    /\ running' = [running EXCEPT ![d] = "lapsed"]
    /\ UNCHANGED row

Lapse(d) ==
    /\ LapseOffer(d) \/ LapseLease(d) \/ LapseRetry(d) \/ LapsePayload(d) \/ LapseSlot(d)
    /\ UNCHANGED <<offer, presence, handoff, start, alarm, pass, armed, runs,
                   receipt, evictions>>

\* The object is reset: continuations and the alarm loop are lost, tables and
\* hibernated sockets are kept, and the platform reruns an interrupted alarm.
Evict ==
    /\ evictions < MaxEvictions
    /\ evictions' = evictions + 1
    /\ start' = [d \in Dispatch |-> [c \in Caller |-> Idle]]
    /\ alarm' = [d \in Dispatch |-> NotDue]
    /\ armed' = (armed \/ pass)
    /\ pass' = FALSE
    /\ UNCHANGED <<row, offer, presence, running, handoff, runs, receipt>>

-----------------------------------------------------------------------------

Frame(p, d) ==
    \/ HandleClaim(p, d)
    \/ HandleRelease(p, d)
    \/ HandleAck(p, d)
    \/ HandleRunning(p, d)
    \/ HandleRenew(p, d)
    \/ HandleComplete(p, d)

Continue(d, c) ==
    \/ ChatHold(d, c)
    \/ ChatRegister(d, c)
    \/ CloudAnswers(d, c)
    \/ StartReplyOk(d, c)
    \/ StartReplyRefused(d, c)
    \/ StartLost(d, c)

Next ==
    \/ \E d \in Dispatch :
         \/ Submit(d)
         \/ FenceUnregister(d)
         \/ Release(d)
         \/ RecordCloudDispatchTerminal(d)
         \/ DispatchStatus(d)
         \/ CancelDispatch(d)
         \/ AlarmStep(d)
         \/ Lapse(d)
         \/ \E p \in Device : Frame(p, d)
         \/ \E c \in Caller : Continue(d, c)
    \/ \E p \in Device : Connect(p) \/ Disconnect(p) \/ SetReady(p)
    \/ AlarmBegin
    \/ AlarmEnd
    \/ Evict

Spec == Init /\ [][Next]_vars

-----------------------------------------------------------------------------
(* Fairness.  Deadlines pass, a set alarm fires and its pass goes on.  A    *)
(* suspended call returns or throws and a client that waits for a dispatch  *)
(* polls its status; both queue for the event loop while an alarm pass      *)
(* holds it, hence strong fairness.  Nothing is assumed of users, of        *)
(* computers or of evictions.                                               *)

Fairness ==
    /\ WF_vars(AlarmBegin)
    /\ WF_vars(AlarmEnd)
    /\ \A d \in Dispatch :
         /\ WF_vars(AlarmStep(d))
         /\ WF_vars(LapseOffer(d) /\ Lapse(d))
         /\ WF_vars(LapseLease(d) /\ Lapse(d))
         /\ WF_vars(LapseRetry(d) /\ Lapse(d))
         /\ SF_vars(DispatchStatus(d))
         /\ \A c \in Caller : SF_vars(Continue(d, c))

FairSpec == Spec /\ Fairness

-----------------------------------------------------------------------------
(* Safety.                                                                 *)

\* Work a computer durably accepted has no cloud execution and no cloud start
\* under way, whatever the alarm, releases and late answers did before.
NoSplitPlacement ==
    \A d \in Dispatch :
        row[d].placement = "computer" =>
            /\ runs[d] = 0
            /\ \A c \in Caller : start[d][c] = Idle

\* Why NoSplitPlacement holds.  Only a row on the cloud side starts, is running
\* or is due a retry, and an offer or a claim the alarm found expired can no
\* longer be claimed or acknowledged by the time the alarm resolves it.
StateMatchesPlacement(d) ==
    /\ row[d].state \in {"absent", "offering", "computer_claimed"}
         => row[d].placement = "none"
    /\ row[d].state \in {"computer_accepted", "computer_running"}
         => row[d].placement = "computer"
    /\ row[d].state \in {"cloud_committed", "cloud_running"}
         => row[d].placement = "cloud"
    /\ row[d].state \in {"cancel_pending", "reconciliation_required"}
         => row[d].placement # "none"
    /\ row[d].state = "blocked" => row[d].placement # "computer"
    /\ row[d].placement = "cloud" => row[d].exec = NoDevice

StartedMeansCloud(d) ==
    (runs[d] > 0 \/ \E c \in Caller : start[d][c] # Idle) => row[d].placement = "cloud"

StaleAlarmIsHarmless(d) ==
    /\ alarm[d].branch = "offer" =>
         /\ row[d].placement # "computer"
         /\ row[d].state \notin {"absent", "computer_claimed"}
         /\ row[d].state = "offering" => row[d].offerDl = "lapsed"
    /\ alarm[d].branch = "claim" =>
         /\ row[d].placement # "computer"
         /\ row[d].state \notin {"absent", "offering"}
         /\ row[d].state = "computer_claimed" => row[d].lease = "lapsed"
    /\ alarm[d].branch = "retry" => row[d].placement = "cloud"
    /\ alarm[d].branch = "lease" => row[d].placement # "none"

Placed(d) == StateMatchesPlacement(d) /\ StartedMeansCloud(d) /\ StaleAlarmIsHarmless(d)

PlacementInv == \A d \in Dispatch : Placed(d)

\* resolveUnaccepted is the one local-to-cloud transition: accepted work never
\* leaves the computer and never becomes claimable again.
AcceptedStaysPut(d) ==
    row[d].placement = "computer" =>
        /\ row'[d].placement = "computer"
        /\ row'[d].state \notin {"offering", "computer_claimed", "cloud_committed",
                                 "cloud_running", "blocked"}

NeverRerouted == [][\A d \in Dispatch : AcceptedStaysPut(d)]_vars

\* Once a computer owns the work the gate can not serve its payload again.
AcceptedPayloadIsGone ==
    \A d \in Dispatch : row[d].placement = "computer" => row[d].payload = "none"

\* No dispatch is executed twice in the cloud: the only replayed start is one
\* the builder refused as unavailable.
CloudStartsOnce == \A d \in Dispatch : runs[d] <= 1

\* A chat that has ended is not brought back by a late answer, an alarm
\* decision taken earlier or a frame.  (The answer of an agent's start is
\* recorded without a look at the row.)
EndedChatStaysEnded ==
    [][\A d \in Dispatch :
           row[d].kind = "chat" /\ IsTerminalDispatchState(row[d].state)
               => IsTerminalDispatchState(row'[d].state)]_vars

\* An ended dispatch holds no admission slot, unless a start that could still
\* give it back is suspended or its allocated turn awaits the fence.
NoLeakedSlot ==
    \A d \in Dispatch :
        /\ IsTerminalDispatchState(row[d].state)
        /\ handoff[d] # "allocating"
        /\ \A c \in Caller : start[d][c] = Idle
        => running[d] = "none"

\* A row with a deadline has an alarm that will look at it, or a pass or a
\* submit in progress that sets one when it ends.
NoLostWakeup ==
    \A d \in Dispatch :
        HasDeadline(row[d]) => armed \/ pass \/ start[d]["submit"] # Idle

-----------------------------------------------------------------------------
(* Liveness.                                                               *)

\* A dispatch never waits for ever for somebody to take it: offers, claims and
\* unresolved cloud starts all come to an end.
PlacementResolves ==
    \A d \in Dispatch :
        row[d].state \in {"offering", "computer_claimed", "cloud_committed"}
            ~> row[d].state \notin {"offering", "computer_claimed", "cloud_committed"}

\* Whatever the order of the terminal and the answer to the start, a recorded
\* receipt settles its dispatch.
ReceiptSettles ==
    \A d \in Dispatch :
        receipt[d] # "none" ~> IsTerminalDispatchState(row[d].state)

=============================================================================
