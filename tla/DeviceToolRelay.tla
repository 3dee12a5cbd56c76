-------------------------- MODULE DeviceToolRelay --------------------------
(***************************************************************************)
(* The owner gate's half of a tool call on a computer (device-tool-        *)
(* relay.ts) and the agent that makes it (pi-runtime.ts).  Pending calls    *)
(* live in memory; the agent's RPC stays open until the call is settled.   *)
(***************************************************************************)
EXTENDS DeviceToolContract, Sequences, FiniteSets

VARIABLES
    caller,     \* what the agent knows of each call
    checking,   \* deviceTool() between its first await and relay.call()
    pending,    \* the relay's entries
    liveSocket, \* the computer's proven socket at the gate, 0 for none
    down        \* frames on their way to the computer

relayVars == <<caller, checking, pending, liveSocket, down>>

\* idle: not called, or called by an agent that is gone and will replay it;
\* withdrawing: stopped, its cancelDeviceTool on the way; withdrawn: handled.
CallerType == {"idle", "waiting", "withdrawing", "withdrawn"} \cup Code

\* What the armed timer settles the call with; offline is the grace and the
\* accept timer of a resent call.
PendingType == [on : BOOLEAN, socket : Nat, accepted : BOOLEAN,
                timer : {"none", "unsupported", "timeout", "device_offline"}]

NoCall == [on |-> FALSE, socket |-> 0, accepted |-> FALSE, timer |-> "none"]

RelayInit ==
    /\ caller = [r \in Request |-> "idle"]
    /\ checking = [r \in Request |-> FALSE]
    /\ pending = [r \in Request |-> NoCall]
    /\ liveSocket = 0
    /\ down = <<>>

Frame(conn, type, r) == <<[conn |-> conn, type |-> type, r |-> r]>>

Told(r, outcome) ==
    caller' = [caller EXCEPT ![r] = IF @ = "waiting" THEN outcome ELSE @]

\* Only an attempt that has joined the entry is one of its waiters.
Settle(r, outcome) ==
    /\ IF checking[r] THEN UNCHANGED caller ELSE Told(r, outcome)
    /\ pending' = [pending EXCEPT ![r] = NoCall]

\* A frame on a socket the computer has left goes nowhere.
Withdraw(r) == down' = IF pending[r].socket = 0 THEN down
                             ELSE down \o Frame(pending[r].socket, "cancel", r)

-----------------------------------------------------------------------------

\* The agent calls; the gate looks the computer up before it relays.
DeviceTool(r) ==
    /\ caller[r] = "idle" /\ ~checking[r]
    /\ caller' = [caller EXCEPT ![r] = "waiting"]
    /\ checking' = [checking EXCEPT ![r] = TRUE]
    /\ UNCHANGED <<pending, liveSocket, down>>

InFlight == {q \in Request : pending[q].on}

\* The computer may not be one to ask.  A replayed call joins the pending one.
Call(r) ==
    /\ checking[r]
    /\ checking' = [checking EXCEPT ![r] = FALSE]
    /\ \/ /\ Told(r, "refused")
          /\ UNCHANGED <<pending, down>>
       \/ /\ pending[r].on
          /\ UNCHANGED <<caller, pending, down>>
       \/ /\ ~pending[r].on /\ liveSocket = 0
          /\ Told(r, "device_offline")
          /\ UNCHANGED <<pending, down>>
       \/ /\ ~pending[r].on /\ liveSocket # 0
          /\ Cardinality(InFlight) >= ConcurrentPerDevice
          /\ Told(r, "device_busy")
          /\ UNCHANGED <<pending, down>>
       \/ /\ ~pending[r].on /\ liveSocket # 0
          /\ Cardinality(InFlight) < ConcurrentPerDevice
          /\ pending' = [pending EXCEPT ![r] =
                           [on |-> TRUE, socket |-> liveSocket, accepted |-> FALSE,
                            timer |-> "unsupported"]]
          /\ down' = down \o Frame(liveSocket, "call", r)
          /\ UNCHANGED caller
    /\ UNCHANGED liveSocket

\* The agent is paused or stopped: it gives up at once and tells the gate.
Stop(r) ==
    /\ caller[r] = "waiting"
    /\ caller' = [caller EXCEPT ![r] = "withdrawing"]
    /\ UNCHANGED <<checking, pending, liveSocket, down>>

Cancel(r) ==
    /\ caller[r] = "withdrawing"
    /\ caller' = [caller EXCEPT ![r] = "withdrawn"]
    /\ IF pending[r].on
       THEN Withdraw(r) /\ pending' = [pending EXCEPT ![r] = NoCall]
       ELSE UNCHANGED <<pending, down>>
    /\ UNCHANGED <<checking, liveSocket>>

\* The agent's object restarted: nobody waits, and it will replay the call.
CallerLost(r) ==
    /\ caller[r] = "waiting"
    /\ caller' = [caller EXCEPT ![r] = "idle"]
    /\ UNCHANGED <<checking, pending, liveSocket, down>>

\* Mutant: taking the call counts as answering it.
OnFrameEarly(f) ==
    /\ IF ~pending[f.r].on THEN UNCHANGED <<caller, pending>> ELSE Settle(f.r, f.code)
    /\ UNCHANGED <<checking, liveSocket, down>>

\* Frames from the computer.  A device can only answer what it was sent.
OnFrame(f) ==
    /\ IF ~pending[f.r].on THEN UNCHANGED <<caller, pending>>
       ELSE IF f.type = "accepted"
       THEN /\ pending' = [pending EXCEPT ![f.r].accepted = TRUE, ![f.r].timer = "timeout"]
            /\ UNCHANGED caller
       ELSE Settle(f.r, f.code)
    /\ UNCHANGED <<checking, liveSocket, down>>

TimerFires(r) ==
    /\ pending[r].on /\ pending[r].timer # "none"
    /\ IF pending[r].timer = "device_offline" THEN UNCHANGED down ELSE Withdraw(r)
    /\ Settle(r, pending[r].timer)
    /\ UNCHANGED <<checking, liveSocket>>

\* Mutant: a call whose computer is gone waits without a timer.
GoneForever == [r \in Request |->
                  IF pending[r].on /\ pending[r].socket # 0
                  THEN [pending[r] EXCEPT !.socket = 0, !.timer = "none"]
                  ELSE pending[r]]

\* The pending calls after onDeviceGone for the socket the gate has.
Gone == [r \in Request |->
           IF pending[r].on /\ pending[r].socket # 0
           THEN [pending[r] EXCEPT !.socket = 0, !.timer = "device_offline"]
           ELSE pending[r]]

OnDeviceGone ==
    /\ liveSocket # 0
    /\ liveSocket' = 0
    /\ pending' = Gone
    /\ UNCHANGED <<caller, checking, down>>

\* Mutant: a pending call is sent again as a new one.
ResentAsNew(conn, r) == [conn |-> conn, type |-> "call", r |-> r]

Resent(conn, r) == [conn |-> conn, type |-> "resume", r |-> r]

\* A new socket is proven: it replaces the one the gate had, and every pending
\* call is sent again, to resume only.
OnDeviceConnected(conn) ==
    /\ liveSocket' = conn
    /\ pending' = [r \in Request |->
                     IF ~Gone[r].on THEN Gone[r]
                     ELSE [Gone[r] EXCEPT !.socket = conn,
                             !.timer = IF Gone[r].accepted THEN "timeout" ELSE "device_offline"]]
    /\ \E order \in [1 .. Cardinality(InFlight) -> InFlight] :
         /\ \A r \in InFlight : \E i \in DOMAIN order : order[i] = r
         /\ \E r \in Request :
              down' = Frame(conn, "connected", r) \o
                      [i \in DOMAIN order |-> Resent(conn, order[i])]
    /\ UNCHANGED <<caller, checking>>

\* The gate's object goes away: the open calls fail with it.
Evict ==
    /\ caller' = [r \in Request |-> IF caller[r] = "waiting" THEN "failed" ELSE caller[r]]
    /\ checking' = [r \in Request |-> FALSE]
    /\ pending' = [r \in Request |-> NoCall]
    /\ liveSocket' = 0
    /\ UNCHANGED down

=============================================================================
