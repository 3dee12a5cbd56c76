----------------------------- MODULE Placement -----------------------------
(***************************************************************************)
(* Execution placement from end to end: one computer's bridge and inbox    *)
(* (PlacementBridge), the owner gate as it promises to behave              *)
(* (DispatchHandoff, which OwnerGate implements) and the presence socket   *)
(* between them.  The socket is FIFO in each direction; a connection that  *)
(* breaks loses what is in flight, and the two ends notice separately.     *)
(***************************************************************************)
EXTENDS PlacementBridge

CONSTANTS
    Me,             \* this computer
    NoDevice,
    Submits,        \* how work arrives: "offer" (a phone), "own" (this computer)
    PromptFrames,   \* assume no frame is slower than the completion timeout
    MaxSession,     \* bound: presence sessions
    MaxFaults,      \* bound: crashes, stops, rotations and lost connections
    MaxStops        \* bound: times the user stops a dispatch

ASSUME PlacementAssumption ==
    /\ Me # NoDevice
    /\ Submits \subseteq {"offer", "own"}
    /\ PromptFrames \in BOOLEAN
    /\ MaxSession \in Nat /\ MaxFaults \in Nat /\ MaxStops \in Nat

VARIABLES
    summary,    \* the gate's dispatches
    presence,   \* the gate's end of the socket
    faults,     \* faults so far
    stops       \* stops so far

gateVars == <<summary, presence>>
counters == <<faults, stops>>
vars == <<inbox, session, proc, sock, local, work, toGate, toDevice, summary, presence,
          faults, stops>>

Gate == INSTANCE DispatchHandoff WITH Device <- {Me}

FrameToGate == [type : {"claim", "ack", "release", "running", "renew", "complete"},
                d : Dispatch, outcome : Outcome \cup {"none"}]

FrameToDevice == [type : {"connected", "error", "offer", "withdrawn", "claimed",
                          "cancel", "dispatch"},
                  d : Dispatch, state : DispatchState \cup {"absent"}]

TypeOK ==
    /\ inbox \in [Dispatch -> InboxType]
    /\ session \in Nat
    /\ proc \in Life
    /\ sock \in {"none", "open", "proven", "closing"}
    /\ local \in [Dispatch -> LocalType]
    /\ work \in [Dispatch -> WorkType]
    /\ \A i \in DOMAIN toGate : toGate[i] \in FrameToGate
    /\ \A i \in DOMAIN toDevice : toDevice[i] \in FrameToDevice
    /\ Gate!TypeOK
    /\ faults \in Nat /\ stops \in Nat

Init ==
    /\ BridgeInit
    /\ Gate!Init
    /\ faults = 0 /\ stops = 0

-----------------------------------------------------------------------------
(* The gate's half of the socket.                                          *)

FrameTo(type, d, state) == <<[type |-> type, d |-> d, state |-> state]>>

\* A frame reaches the computer only while both ends hold the connection.
Tell(frames) ==
    toDevice' = IF presence[Me].connected /\ sock # "none" THEN toDevice \o frames ELSE toDevice

\* patchDispatch notifies the executor of the row it leaves.
TellDispatch(d) == Tell(FrameTo("dispatch", d, summary'[d].state))

BridgeIdle == UNCHANGED <<inbox, session, proc, sock, local, work>>

\* A repeated claim is answered again, a repeated ack is not.
OnClaim(d) ==
    /\ IF Gate!Owns(Me, d) /\ summary[d].state = "computer_claimed"
       THEN UNCHANGED gateVars ELSE Gate!Claim(Me, d)
    /\ Tell(FrameTo("claimed", d, "absent"))

OnRelease(d) ==
    /\ Gate!Owns(Me, d) /\ summary[d].state = "computer_claimed"
    /\ Gate!Fallback(d)
    /\ Tell(<<>>)

OnAck(d) ==
    IF /\ Gate!Owns(Me, d)
       /\ summary[d].state \in {"computer_accepted", "computer_running", "reconciliation_required"}
    THEN UNCHANGED <<gateVars, toDevice>>
    ELSE Gate!Ack(Me, d) /\ TellDispatch(d)

\* A second receipt of ended work is answered with the row as it ended.
OnComplete(d, outcome) ==
    \/ Gate!Complete(Me, d, outcome) /\ TellDispatch(d)
    \/ /\ Gate!Owns(Me, d) /\ IsTerminalDispatchState(summary[d].state)
       /\ UNCHANGED gateVars
       /\ TellDispatch(d)

Handles(f) ==
    \/ f.type = "claim" /\ OnClaim(f.d)
    \/ f.type = "release" /\ OnRelease(f.d)
    \/ f.type = "ack" /\ OnAck(f.d)
    \/ f.type = "running" /\ Gate!Running(Me, f.d) /\ TellDispatch(f.d)
    \/ f.type = "renew" /\ Gate!Renew(Me, f.d) /\ TellDispatch(f.d)
    \/ f.type = "complete" /\ OnComplete(f.d, f.outcome)

\* When a frame is refused: its sender does not own the dispatch or the state
\* is not one it moves; a claim and an ack may also have missed a deadline.
Refusable(f) ==
    \/ f.type \in {"claim", "ack"}
    \/ ~Gate!Owns(Me, f.d)
    \/ f.type = "release" /\ summary[f.d].state # "computer_claimed"
    \/ f.type = "running" /\ summary[f.d].state \notin
         {"computer_accepted", "computer_running", "reconciliation_required"}
    \/ f.type = "renew" /\ summary[f.d].state \notin Gate!AcceptedState
    \/ f.type = "complete" /\ MayFallbackToCloud(summary[f.d].state)

GateReceives ==
    /\ toGate # <<>> /\ presence[Me].connected
    /\ \/ Handles(Head(toGate))
       \/ /\ Refusable(Head(toGate))
          /\ UNCHANGED gateVars
          /\ Tell(FrameTo("error", Head(toGate).d, "absent"))
    /\ toGate' = Tail(toGate)
    /\ BridgeIdle /\ UNCHANGED counters

\* Frames on a connection the gate has dropped go nowhere.
FramesLost ==
    /\ toGate # <<>> /\ ~presence[Me].connected
    /\ toGate' = <<>>
    /\ UNCHANGED <<toDevice, gateVars, counters>> /\ BridgeIdle

-----------------------------------------------------------------------------
(* What the gate does of its own accord.                                   *)

SubmitOffer(d) ==
    /\ "offer" \in Submits
    /\ presence[Me].connected
    /\ Gate!SubmitOffered(d)
    /\ Tell(FrameTo("offer", d, "absent"))
    /\ UNCHANGED <<toGate, counters>> /\ BridgeIdle

\* The computer's own work: the gate's row and the answer on its way back.
SubmitOwn(d) ==
    /\ "own" \in Submits
    /\ proc = "up" /\ local[d].offer = "idle" /\ inbox[d].state = "absent"
    /\ Gate!SubmitOwn(d, Me)
    /\ local' = [local EXCEPT ![d].offer = "submitted"]
    /\ TellDispatch(d)
    /\ UNCHANGED <<inbox, session, proc, sock, work, toGate, counters>>

GateFallsBack(d) ==
    /\ MayFallbackToCloud(summary[d].state)
    /\ Gate!Fallback(d)
    /\ Tell(IF summary[d].state = "offering" THEN FrameTo("withdrawn", d, "absent") ELSE <<>>)
    /\ UNCHANGED <<toGate, counters>> /\ BridgeIdle

GateCloudMoves(d) ==
    /\ Gate!CloudMoves(d)
    /\ UNCHANGED <<toGate, toDevice, counters>> /\ BridgeIdle

GateStops(d) ==
    /\ stops < MaxStops /\ stops' = stops + 1
    /\ Gate!Stop(d)
    /\ Tell(IF summary[d].state = "offering" THEN FrameTo("withdrawn", d, "absent")
            ELSE IF summary[d].placement = "computer" THEN FrameTo("cancel", d, "absent")
            ELSE <<>>)
    /\ UNCHANGED <<toGate, faults>> /\ BridgeIdle

\* An alarm that acts at once; a late one is the subject of OwnerGate.
GateLeaseLapses(d) ==
    /\ summary[d].state \in {"computer_accepted", "computer_running", "cancel_pending"}
    /\ Gate!LeaseLapses(d)
    /\ UNCHANGED <<toGate, toDevice, counters>> /\ BridgeIdle

Connect ==
    /\ proc = "up" /\ sock = "none"
    /\ Gate!Connect(Me, session)
    /\ sock' = "open"
    /\ toGate' = <<>>
    /\ \E d \in Dispatch : toDevice' = FrameTo("connected", d, "absent")
    /\ UNCHANGED <<inbox, session, proc, local, work, counters>>

GateDisconnects ==
    /\ Gate!Disconnect(Me)
    /\ UNCHANGED <<toGate, toDevice>> /\ BridgeIdle

-----------------------------------------------------------------------------

Fault == faults < MaxFaults /\ faults' = faults + 1 /\ UNCHANGED stops

\* The status read Start makes of a row it cancels: it may miss a stop, never
\* invent one.
StopSeen == SUBSET {d \in Dispatch : summary[d].state \in {"cancel_pending", "canceled"}}

\* The process or the network fails, the host stops it, the account changes.
Lifecycle ==
    /\ Fault
    /\ \/ /\ Crash \/ StopBegins \/ Drop \/ TokenRefresh \/ (session < MaxSession /\ RotateBegins)
          /\ UNCHANGED gateVars
       \/ GateDisconnects

\* The end that still holds a broken connection finds out.
SocketNoticed ==
    /\ \/ /\ sock = "closing" \/ (sock # "none" /\ ~presence[Me].connected)
          /\ Drop /\ UNCHANGED gateVars
       \/ sock = "none" /\ GateDisconnects
    /\ UNCHANGED counters

LifecycleAdvances ==
    /\ \/ \E seen \in StopSeen, sess \in {session, session + 1} :
            sess <= MaxSession /\ Start(sess, seen)
       \/ \E answered \in SUBSET Dispatch : Ready(answered, summary)
       \/ RotateEnds(session + 1)
       \/ StopStages \/ StopEnds
    /\ UNCHANGED <<gateVars, counters>>

\* What PromptFrames assumes of a completion timeout and the read after it.
NothingInFlight == PromptFrames => toGate = <<>> /\ toDevice = <<>>

BridgeStep(d) ==
    /\ \/ AdoptCommittedDispatch(d) \/ BeatBegins(d)
       \/ WorkerEnds(d) \/ RunThrows(d) \/ CancelDeferred(d) \/ FlushDeferred(d)
    /\ UNCHANGED <<gateVars, counters>>

\* What a claim or a heartbeat awaits comes, fails or times out.
Resumes(d) ==
    /\ \/ ClaimOffer(d) \/ ClaimTimesOut(d)
       \/ BeatRenews(d) \/ BeatAsks(d, summary[d]) \/ BeatAnswered(d)
    /\ UNCHANGED <<gateVars, counters>>

\* What the bridge does without being asked, once it can.
Settles(d) ==
    /\ RunReturns(d) \/ TaskJoins(d) \/ CancelJoined(d)
    /\ UNCHANGED <<gateVars, counters>>

\* A receipt nobody echoes is looked up.
LooksUp(d) ==
    /\ NothingInFlight
    /\ FlushTimesOut(d) \/ FlushAsks(d, summary[d])
    /\ UNCHANGED <<gateVars, counters>>

Retries(d) == RetryOwed(d) /\ UNCHANGED <<gateVars, counters>>

Cancels(d) == CancelExecution(d) /\ UNCHANGED <<gateVars, counters>>

Receives == (Receive \/ ReceiveError \/ ReceiveConnected) /\ UNCHANGED <<gateVars, counters>>

GateStep(d) ==
    \/ SubmitOffer(d) \/ SubmitOwn(d)
    \/ GateFallsBack(d) \/ GateCloudMoves(d) \/ GateStops(d) \/ GateLeaseLapses(d)

Next ==
    \/ \E d \in Dispatch :
         \/ BridgeStep(d) \/ Resumes(d) \/ Settles(d) \/ LooksUp(d) \/ Retries(d)
         \/ Cancels(d) \/ GateStep(d)
    \/ Receives
    \/ GateReceives \/ FramesLost
    \/ Connect
    \/ Lifecycle \/ SocketNoticed \/ LifecycleAdvances
    \/ StopFails /\ UNCHANGED <<gateVars, counters>>

Spec == Init /\ [][Next]_vars

\* The event loop and the heartbeat keep going, frames arrive on a connection
\* that holds, and a status read or a cancellation asked again and again is
\* answered.
\* Nothing is assumed of the run itself, of the user or of the gate's clock.
Fairness ==
    /\ WF_vars(Receives) /\ WF_vars(GateReceives \/ FramesLost)
    /\ WF_vars(Connect) /\ WF_vars(SocketNoticed) /\ WF_vars(LifecycleAdvances)
    /\ \A d \in Dispatch :
         /\ WF_vars(Resumes(d)) /\ WF_vars(Settles(d)) /\ WF_vars(Retries(d))
         /\ SF_vars(LooksUp(d)) /\ SF_vars(Cancels(d))

FairSpec == Spec /\ Fairness

-----------------------------------------------------------------------------
(* Safety.                                                                 *)

\* A dispatch is handed to the worker at most once on this computer: crashes,
\* repeated offers, echoes and retries never replay it.
LaunchedOnce == \A d \in Dispatch : work[d].launches <= 1

\* A run that is still going is known to the inbox: whatever happens to the
\* process, the next one finds the row and cancels the run.
LiveRunIsRecorded ==
    \A d \in Dispatch : work[d].worker = "live" => inbox[d].state \in Executable

\* Work the gate shows as accepted by this session is in its inbox, and still
\* owed, or its submit is being answered: nothing drops the only copy.
AcceptedIsHeld ==
    \A d \in Dispatch :
        /\ summary[d].placement = "computer" /\ ~IsTerminalDispatchState(summary[d].state)
        /\ summary[d].sess = session
        => inbox[d].state \in Unfinished \/ local[d].offer = "submitted"

\* When the gate shows computer work as ended, nothing of it runs any more.
EndedIsQuiet ==
    \A d \in Dispatch :
        summary[d].placement = "computer" /\ IsTerminalDispatchState(summary[d].state)
            => work[d].worker # "live"

-----------------------------------------------------------------------------
(* Liveness.                                                               *)

\* A stop of accepted work reaches the run: it does not go on for as long as
\* it likes.
StopReachesRun ==
    \A d \in Dispatch :
        summary[d].state = "cancel_pending" /\ summary[d].placement = "computer"
            ~> work[d].worker # "live"

\* A receipt is delivered: work that the gate gave to this session and that
\* ended here is shown as ended, unless the gate gave it to the cloud or the
\* computer changed its account.
ReceiptArrives ==
    \A d \in Dispatch :
        inbox[d].state = "terminal_pending" /\ inbox[d].sess = session
            /\ summary[d].sess = session
            ~> \/ IsTerminalDispatchState(summary[d].state)
               \/ summary[d].placement # "computer"
               \/ inbox[d].sess # session

=============================================================================
