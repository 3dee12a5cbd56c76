---------------------------- MODULE DeviceTools ----------------------------
(***************************************************************************)
(* A cloud agent's tool call from end to end: the relay in the owner gate, *)
(* the server on the computer and the presence socket between them.  Each  *)
(* connection is FIFO in each direction and loses what it carries when it  *)
(* breaks; the computer may be back on a new one before the gate has seen  *)
(* the old one close.                                                      *)
(***************************************************************************)
EXTENDS DeviceToolRelay, DeviceToolServer

CONSTANTS
    MaxConns,       \* bound: connections
    MaxAttempts,    \* bound: attempts of one call
    MaxRestarts,    \* bound: restarts of the computer's Stella
    MaxEvictions    \* bound: losses of the gate's object

ASSUME DeviceToolsAssumption ==
    /\ IsFiniteSet(Request)
    /\ ConcurrentPerDevice \in Nat \ {0}
    /\ MaxKeptAnswers \in Nat /\ MaxKeptAnswers >= ConcurrentPerDevice
    /\ {MaxConns, MaxAttempts, MaxRestarts, MaxEvictions} \subseteq Nat

VARIABLES
    conns, attempts, restarts, evictions    \* how often so far

counters == <<conns, attempts, restarts, evictions>>
vars == <<caller, checking, pending, liveSocket, down, run, answers, socket, up,
          conns, attempts, restarts, evictions>>

TypeOK ==
    /\ caller \in [Request -> CallerType]
    /\ checking \in [Request -> BOOLEAN]
    /\ pending \in [Request -> PendingType]
    /\ liveSocket \in Nat
    /\ \A i \in DOMAIN down : down[i] \in DownFrame
    /\ run \in [Request -> RunType]
    /\ \A i \in DOMAIN answers : answers[i] \in [r : Request, code : Code]
    /\ socket \in [conn : Nat, proven : BOOLEAN]
    /\ \A i \in DOMAIN up : up[i] \in UpFrameType
    /\ conns \in Nat /\ restarts \in Nat /\ evictions \in Nat
    /\ attempts \in [Request -> Nat]

Init ==
    /\ RelayInit /\ ServerInit
    /\ conns = 0 /\ restarts = 0 /\ evictions = 0
    /\ attempts = [r \in Request |-> 0]

-----------------------------------------------------------------------------

Connect ==
    /\ socket.conn = 0 /\ conns < MaxConns
    /\ conns' = conns + 1
    /\ socket' = [conn |-> conns + 1, proven |-> FALSE]
    /\ OnDeviceConnected(conns + 1)
    /\ up' = <<>>
    /\ UNCHANGED <<run, answers, attempts, restarts, evictions>>

Attempt(r) ==
    /\ attempts[r] < MaxAttempts
    /\ attempts' = [attempts EXCEPT ![r] = @ + 1]
    /\ DeviceTool(r)
    /\ UNCHANGED <<serverVars, conns, restarts, evictions>>

Relays(r) == Call(r) /\ UNCHANGED <<serverVars, counters>>

Withdraws(r) == Cancel(r) /\ UNCHANGED <<serverVars, counters>>

Expires(r) == TimerFires(r) /\ UNCHANGED <<serverVars, counters>>

AgentStops(r) == (Stop(r) \/ CallerLost(r)) /\ UNCHANGED <<serverVars, counters>>

GateReceives ==
    /\ up # <<>>
    /\ OnFrame(Head(up))
    /\ up' = Tail(up)
    /\ UNCHANGED <<run, answers, socket, counters>>

\* The gate sees the close of a connection the computer has left.
GateNotices ==
    /\ liveSocket # socket.conn
    /\ OnDeviceGone
    /\ up' = <<>>
    /\ UNCHANGED <<run, answers, socket, counters>>

\* The computer reads its connection; what came on an older one is lost.
ComputerReceives ==
    /\ down # <<>>
    /\ LET f == Head(down) IN
       \/ f.conn # socket.conn /\ UNCHANGED serverVars
       \/ /\ f.conn = socket.conn /\ f.type = "connected"
          /\ socket' = [socket EXCEPT !.proven = TRUE]
          /\ UNCHANGED <<run, answers, up>>
       \/ /\ f.conn = socket.conn /\ f.type \in {"call", "resume"}
          /\ Handle(f.r, f.type = "resume")
       \/ f.conn = socket.conn /\ f.type = "cancel" /\ StopRun(f.r)
    /\ down' = Tail(down)
    /\ UNCHANGED <<caller, checking, pending, liveSocket, counters>>

ToolEnds(r) == RunEnds(r) /\ UNCHANGED <<relayVars, counters>>

ToolStopped(r) == RunStopped(r) /\ UNCHANGED <<relayVars, counters>>

\* Ten minutes pass without a resend: only a replay by an agent that was gone
\* for as long finds the answer expired.
AnswerExpires(r) ==
    /\ ~pending[r].on /\ caller[r] # "waiting" /\ ~checking[r] /\ restarts < MaxRestarts
    /\ restarts' = restarts + 1
    /\ Expire(r)
    /\ UNCHANGED <<relayVars, conns, attempts, evictions>>

ConnectionBreaks == Lose /\ UNCHANGED <<relayVars, counters>>

ComputerRestarts ==
    /\ restarts < MaxRestarts
    /\ restarts' = restarts + 1
    /\ Restart
    /\ UNCHANGED <<relayVars, conns, attempts, evictions>>

GateEvicted ==
    /\ evictions < MaxEvictions
    /\ evictions' = evictions + 1
    /\ Evict
    /\ up' = <<>>
    /\ UNCHANGED <<run, answers, socket, conns, attempts, restarts>>

\* A connection the gate no longer has is dead at the computer too.
ComputerNotices ==
    /\ socket.conn # liveSocket
    /\ Lose /\ UNCHANGED <<relayVars, counters>>

Next ==
    \/ \E r \in Request :
         \/ Attempt(r) \/ Relays(r) \/ Withdraws(r) \/ Expires(r) \/ AgentStops(r)
         \/ ToolEnds(r) \/ ToolStopped(r) \/ AnswerExpires(r)
    \/ Connect \/ ConnectionBreaks \/ ComputerNotices \/ GateNotices
    \/ GateReceives \/ ComputerReceives
    \/ ComputerRestarts \/ GateEvicted

Spec == Init /\ [][Next]_vars

\* Timers fire, frames and RPCs are handled, broken connections are noticed
\* and an interrupted tool ends.  A tool that runs need not end by itself.
Fairness ==
    /\ WF_vars(GateReceives) /\ WF_vars(ComputerReceives)
    /\ WF_vars(GateNotices) /\ WF_vars(ComputerNotices) /\ WF_vars(Connect)
    /\ \A r \in Request :
         WF_vars(Relays(r)) /\ WF_vars(Withdraws(r)) /\ WF_vars(Expires(r))
         /\ WF_vars(ToolStopped(r))

FairSpec == Spec /\ Fairness

-----------------------------------------------------------------------------
(* Safety.                                                                 *)

\* One call runs once: neither the gate's resend after a reconnect nor an
\* agent's replay starts the tool again.
RunsOnce == \A r \in Request : run[r].starts <= 1

\* Success is reported only for a run that finished.
OkMeansFinished == \A r \in Request : caller[r] = "ok" => run[r].finished

\* Nothing finished is lost: a computer that kept running says it does not know
\* a call only if the call never reached it.
NoRecordIsTrue ==
    restarts = 0 => \A r \in Request : caller[r] = "no_record" => run[r].starts = 0

-----------------------------------------------------------------------------
(* Liveness.                                                               *)

\* The agent's RPC always ends.
CallSettles == \A r \in Request : caller[r] = "waiting" ~> caller[r] # "waiting"

=============================================================================
