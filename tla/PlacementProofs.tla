-------------------------- MODULE PlacementProofs --------------------------
(***************************************************************************)
(* Proofs about execution placement from end to end, for any finite set of *)
(* dispatches and any number of sessions, faults and stops.                *)
(*                                                                         *)
(* One inductive invariant relates the inbox row of a dispatch, the memory *)
(* of the process, the worker, the gate's summary and the frames on their  *)
(* way in either direction.                                                *)
(***************************************************************************)
EXTENDS Placement, SequenceTheorems, FiniteSetTheorems, TLAPS

-----------------------------------------------------------------------------
(* The inductive invariant.                                                *)

Closed == {"terminal", "orphaned"}

\* No computer will ever be told to start this work.
Ended(s) == IsTerminalDispatchState(s.state) \/ s.placement = "cloud"

\* TypeOK, with the queues as sequences.
Typed ==
    /\ inbox \in [Dispatch -> InboxType]
    /\ session \in Nat
    /\ proc \in Life
    /\ sock \in {"none", "open", "proven", "closing"}
    /\ local \in [Dispatch -> LocalType]
    /\ work \in [Dispatch -> WorkType]
    /\ toGate \in Seq(FrameToGate)
    /\ toDevice \in Seq(FrameToDevice)
    /\ summary \in [Dispatch -> Gate!SummaryType]
    /\ presence \in [{Me} -> [connected : BOOLEAN, sess : Nat]]
    /\ faults \in Nat /\ stops \in Nat

\* A row belongs to this session or an older one, is orphaned by a younger
\* one, and carries the outcome it owes.
RowOK(r, ss) ==
    /\ r.sess <= ss
    /\ r.orphan => r.sess < ss
    /\ r.cancel \/ r.state = "terminal_pending" => r.outcome # "none"

\* What the row says of the worker.
WorkOK(r, w) ==
    /\ w.launches <= 1
    /\ r.state \in {"absent", "claimed", "accepted"} => w.launches = 0 /\ w.worker = "none"
    /\ w.worker = "live" => r.state = "running"

\* What the process remembers agrees with the row.
MemoryOK(r, l, w) ==
    /\ r.state = "absent" => /\ ~r.cancel /\ l.task = "idle" /\ l.cancel = "idle"
                             /\ l.flush = "idle" /\ l.beat.phase = "idle"
    /\ l.offer # "idle" => r.state = "absent"
    /\ r.state = "claimed" /\ ~r.cancel => l.task = "idle"
    /\ l.cancel # "idle" => r.cancel
    /\ l.cancel = "done" => w.worker # "live"
    /\ l.flush # "idle" => r.state \in {"terminal_pending"} \cup Closed

\* A run nobody stops has a task that awaits it, unless the process is gone.
Attended(r, l, p) == r.state = "running" /\ ~r.cancel => l.task = "run" \/ p = "down"

\* The row a heartbeat holds while it awaits is stale only where that is
\* harmless: a claim it is about to acknowledge again is still that claim.
BeatOK(r, l, s, p) ==
    /\ l.beat.phase # "idle" => p \in {"up", "stopping"}
    /\ l.beat.phase # "idle" /\ l.beat.row.state = "claimed" /\ ~l.beat.row.cancel
         => r.state = "claimed" /\ ~r.cancel
    /\ l.beat.phase = "asked" =>
         /\ l.beat.row.state = "claimed" /\ ~l.beat.row.cancel
         /\ Ended(l.beat) => Ended(s)

SummaryOK(s, ss) ==
    /\ s.sess <= ss
    /\ s.state \in {"absent", "offering"} => s.placement = "none" /\ s.exec = NoDevice
    /\ s.state = "computer_claimed" => s.placement = "none"
    /\ s.exec = Me /\ s.state # "computer_claimed" => s.placement = "computer"
    /\ s.placement = "cloud" => s.exec = NoDevice

\* The row and the gate's summary agree on how far the handover went.
HandoverOK(r, l, s, ss) ==
    /\ r.state # "absent" \/ l.offer = "submitted" => s.state \notin {"absent", "offering"}
    /\ r.state # "absent" => s.sess <= r.sess
    /\ r.state = "claimed" => s.placement # "computer"
    /\ r.state = "absent" /\ l.offer \in {"check", "wait"}
         => s.state # "absent" /\ s.placement # "computer"
    /\ r.state \in Closed => Ended(s) \/ s.sess < ss \/ s.placement = "none"
    /\ s.placement = "computer" /\ IsTerminalDispatchState(s.state)
         => r.state \notin Executable \cup {"absent"}
    /\ s.placement = "computer" /\ "own" \notin Submits => r.state # "absent"

\* An ack or a receipt under way was sent by a row that got that far.
ToGateOK(f, r, s, ss) ==
    /\ f.type = "ack" => /\ r.state \notin {"absent", "claimed"}
                         /\ r.state \in Closed => Ended(s) \/ s.sess < ss
    /\ f.type = "complete" => f.outcome \in Outcome /\ r.state \notin Executable \cup {"absent"}

Starts(f) == f.type = "dispatch" /\ f.state \in {"computer_accepted", "computer_running"}
Ends(f) == f.type = "dispatch" /\ IsTerminalDispatchState(f.state)

\* What the gate said is still true, and a closed row hears no start.
ToDeviceOK(f, r, s, ss) ==
    /\ f.type = "offer" => s.state # "absent" /\ (r.state = "absent" => s.placement # "computer")
    /\ f.type = "claimed" => s.state \notin {"absent", "offering"}
    /\ f.type = "cancel" => s.placement = "computer"
    /\ f.type = "dispatch" => Ends(f) \/ s.placement = "computer"
    /\ Starts(f) => s.sess = ss /\ r.state \notin Closed
    /\ Ends(f) => Ended(s)

\* Nothing starts behind the news that it ended.
InOrder(q) ==
    \A i, j \in DOMAIN q : i < j /\ Ends(q[i]) /\ Starts(q[j]) => q[i].d # q[j].d

SocketOK ==
    /\ proc \in {"down", "reconciling", "rotating"} => sock = "none"
    /\ sock = "none" => toDevice = <<>>
    /\ sock # "none" => presence[Me].sess = session
    /\ presence[Me].sess <= session

DispatchOK(d) ==
    /\ RowOK(inbox[d], session)
    /\ WorkOK(inbox[d], work[d])
    /\ MemoryOK(inbox[d], local[d], work[d])
    /\ Attended(inbox[d], local[d], proc)
    /\ BeatOK(inbox[d], local[d], summary[d], proc)
    /\ SummaryOK(summary[d], session)
    /\ HandoverOK(inbox[d], local[d], summary[d], session)

FramesOK ==
    /\ \A i \in DOMAIN toGate :
         ToGateOK(toGate[i], inbox[toGate[i].d], summary[toGate[i].d], session)
    /\ \A i \in DOMAIN toDevice :
         ToDeviceOK(toDevice[i], inbox[toDevice[i].d], summary[toDevice[i].d], session)
    /\ InOrder(toDevice)

IInv == Typed /\ SocketOK /\ FramesOK /\ \A d \in Dispatch : DispatchOK(d)

-----------------------------------------------------------------------------
(* Sequences.                                                              *)

\* Members of a sequence.
LEMMA Elements ==
    ASSUME NEW T, NEW s \in Seq(T)
    PROVE  \A i \in DOMAIN s : s[i] \in T
  OBVIOUS

\* Members of a concatenation come from one part or the other.
LEMMA ConcatElements ==
    ASSUME NEW T, NEW s \in Seq(T), NEW t \in Seq(T)
    PROVE  /\ s \o t \in Seq(T)
           /\ \A i \in DOMAIN (s \o t) :
                \/ i \in DOMAIN s /\ (s \o t)[i] = s[i]
                \/ \E j \in DOMAIN t : i = Len(s) + j /\ (s \o t)[i] = t[j]
  <1>1. /\ s \o t \in Seq(T) /\ Len(s \o t) = Len(s) + Len(t)
        /\ \A i \in 1 .. Len(s) + Len(t) :
             (s \o t)[i] = IF i <= Len(s) THEN s[i] ELSE t[i - Len(s)]
    BY ConcatProperties
  <1>2. /\ DOMAIN s = 1 .. Len(s) /\ DOMAIN t = 1 .. Len(t)
        /\ DOMAIN (s \o t) = 1 .. Len(s) + Len(t)
        /\ Len(s) \in Nat /\ Len(t) \in Nat
    BY <1>1, LenProperties
  <1>3. ASSUME NEW i \in DOMAIN (s \o t)
        PROVE  \/ i \in DOMAIN s /\ (s \o t)[i] = s[i]
               \/ \E j \in DOMAIN t : i = Len(s) + j /\ (s \o t)[i] = t[j]
    <2>1. CASE i <= Len(s)
      BY <1>1, <1>2, <2>1
    <2>2. CASE i > Len(s)
      <3>1. i - Len(s) \in DOMAIN t /\ i = Len(s) + (i - Len(s)) /\ (s \o t)[i] = t[i - Len(s)]
        BY <1>1, <1>2, <2>2
      <3> QED
        BY <3>1
    <2> QED
      BY <1>2, <2>1, <2>2
  <1> QED
    BY <1>1, <1>3

\* Members of a tail, and the head before it.
LEMMA TailElements ==
    ASSUME NEW T, NEW s \in Seq(T), s # <<>>
    PROVE  /\ Tail(s) \in Seq(T)
           /\ \A i \in DOMAIN Tail(s) : i + 1 \in DOMAIN s /\ Tail(s)[i] = s[i + 1]
           /\ 1 \in DOMAIN s /\ Head(s) = s[1] /\ Head(s) \in T
           /\ DOMAIN s \subseteq Nat
  OBVIOUS

-----------------------------------------------------------------------------
(* A step of the bridge.                                                   *)

\* A row only moves forward.
Later(r, q) ==
    /\ r.state # "absent" => q.state # "absent"
    /\ r.state \notin {"absent", "claimed"} => q.state \notin {"absent", "claimed"}
    /\ r.state \notin Executable \cup {"absent"} => q.state \notin Executable \cup {"absent"}

\* No frame of q starts d.
Quiet(d, q) == \A i \in DOMAIN q : Starts(q[i]) => q[i].d # d

\* What closing a row needs, so that no frame under way contradicts it.
MayClose(d, q, ss) ==
    /\ Quiet(d, q)
    /\ inbox[d].state = "claimed" \/ Ended(summary[d]) \/ summary[d].sess < ss

\* q is what is left of toDevice.
LeftOf(q) ==
    \E k \in Nat : \A i \in DOMAIN q : i + k \in DOMAIN toDevice /\ q[i] = toDevice[i + k]

\* All of the queue, none of it, or its tail is left.
LEMMA LeftOvers ==
    ASSUME Typed
    PROVE  /\ LeftOf(toDevice) /\ LeftOf(<<>>)
           /\ toDevice # <<>> => LeftOf(Tail(toDevice))
  <1>1. LeftOf(toDevice)
    <2>1. \A i \in DOMAIN toDevice : i + 0 \in DOMAIN toDevice /\ toDevice[i] = toDevice[i + 0]
      BY DEF Typed
    <2> QED
      BY <2>1 DEF LeftOf
  <1>2. LeftOf(<<>>)
    <2>1. \A i \in DOMAIN <<>> : i + 0 \in DOMAIN toDevice /\ <<>>[i] = toDevice[i + 0]
      OBVIOUS
    <2> QED
      BY <2>1 DEF LeftOf
  <1>3. ASSUME toDevice # <<>> PROVE LeftOf(Tail(toDevice))
    <2>1. \A i \in DOMAIN Tail(toDevice) :
             i + 1 \in DOMAIN toDevice /\ Tail(toDevice)[i] = toDevice[i + 1]
      BY <1>3, TailElements DEF Typed
    <2> QED
      BY <2>1 DEF LeftOf
  <1> QED
    BY <1>1, <1>2, <1>3

\* A step of the bridge keeps the frames in order and true.
LEMMA BridgeFrames ==
    ASSUME IInv, Typed', UNCHANGED summary, session <= session',
           session' # session => toDevice' = <<>>,
           LeftOf(toDevice'),
           \A d \in Dispatch : Later(inbox[d], inbox'[d]),
           \A d \in Dispatch : inbox'[d].state \in Closed /\ inbox[d].state \notin Closed
                                 => MayClose(d, toDevice', session'),
           \A i \in DOMAIN toGate' :
              \/ \E j \in DOMAIN toGate : toGate'[i] = toGate[j]
              \/ ToGateOK(toGate'[i], inbox'[toGate'[i].d], summary[toGate'[i].d], session')
    PROVE  FramesOK'
  <1>1. ASSUME NEW i \in DOMAIN toGate'
        PROVE  ToGateOK(toGate'[i], inbox'[toGate'[i].d], summary[toGate'[i].d], session')
    <2>1. CASE \E j \in DOMAIN toGate : toGate'[i] = toGate[j]
      <3> PICK j \in DOMAIN toGate : toGate'[i] = toGate[j]
        BY <2>1
      <3>1. toGate[j] \in FrameToGate
        BY Elements DEF IInv, Typed
      <3> DEFINE d == toGate[j].d
      <3>2. d \in Dispatch
        BY <3>1 DEF FrameToGate
      <3>3. ToGateOK(toGate[j], inbox[d], summary[d], session)
        BY DEF IInv, FramesOK
      <3>4. /\ Later(inbox[d], inbox'[d])
            /\ inbox'[d].state \in Closed /\ inbox[d].state \notin Closed
                 => MayClose(d, toDevice', session')
        BY <3>2
      <3>5. summary[d].sess \in Nat /\ session \in Nat /\ session' \in Nat
        BY <3>2 DEF IInv, Typed, Gate!SummaryType
      <3> HIDE DEF d
      <3>6. ToGateOK(toGate[j], inbox'[d], summary[d], session')
        BY <3>3, <3>4, <3>5 DEF ToGateOK, Later, MayClose, Closed, Executable
      <3> QED
        BY <3>6 DEF d
    <2> QED
      BY <1>1, <2>1
  <1> PICK k \in Nat : \A i \in DOMAIN toDevice' :
                          i + k \in DOMAIN toDevice /\ toDevice'[i] = toDevice[i + k]
    BY DEF LeftOf
  <1>2. ASSUME NEW i \in DOMAIN toDevice'
        PROVE  ToDeviceOK(toDevice'[i], inbox'[toDevice'[i].d], summary[toDevice'[i].d], session')
    <2> DEFINE f == toDevice'[i]
    <2>1. f \in FrameToDevice /\ f = toDevice[i + k] /\ i + k \in DOMAIN toDevice
      BY <1>2, Elements DEF Typed
    <2>2. f.d \in Dispatch
      BY <2>1 DEF FrameToDevice
    <2>3. ToDeviceOK(f, inbox[f.d], summary[f.d], session)
      BY <2>1 DEF IInv, FramesOK
    <2>4. session' = session
      BY <1>2
    <2>5. /\ Later(inbox[f.d], inbox'[f.d])
          /\ inbox'[f.d].state \in Closed /\ inbox[f.d].state \notin Closed
               => Quiet(f.d, toDevice')
      BY <2>2 DEF MayClose
    <2>6. inbox'[f.d].state \in Closed /\ inbox[f.d].state \notin Closed => ~Starts(f)
      BY <2>5, <1>2 DEF Quiet
    <2> HIDE DEF f
    <2>7. ToDeviceOK(f, inbox'[f.d], summary[f.d], session')
      BY <2>3, <2>4, <2>5, <2>6 DEF ToDeviceOK, Later
    <2> QED
      BY <2>7 DEF f
  <1>3. InOrder(toDevice')
    <2> SUFFICES ASSUME NEW i \in DOMAIN toDevice', NEW j \in DOMAIN toDevice',
                        i < j, Ends(toDevice'[i]), Starts(toDevice'[j])
                 PROVE  toDevice'[i].d # toDevice'[j].d
      BY DEF InOrder
    <2>1. /\ i + k \in DOMAIN toDevice /\ toDevice'[i] = toDevice[i + k]
          /\ j + k \in DOMAIN toDevice /\ toDevice'[j] = toDevice[j + k]
      OBVIOUS
    <2>2. i \in Nat /\ j \in Nat
      BY DEF Typed
    <2>3. i + k < j + k
      BY <2>2
    <2>4. InOrder(toDevice)
      BY DEF IInv, FramesOK
    <2> QED
      BY <2>1, <2>3, <2>4 DEF InOrder
  <1> QED
    BY <1>1, <1>2, <1>3 DEF FramesOK

-----------------------------------------------------------------------------
(* The synchronous stretches, as functions on contexts.                    *)

Ctx == [d : Dispatch, row : InboxType, loc : LocalType, work : WorkType,
        out : Seq(FrameToGate)]

\* A context in which everything but Attended holds.
Sound(c) ==
    /\ c \in Ctx
    /\ RowOK(c.row, session)
    /\ WorkOK(c.row, c.work)
    /\ MemoryOK(c.row, c.loc, c.work)
    /\ BeatOK(c.row, c.loc, summary[c.d], proc)
    /\ HandoverOK(c.row, c.loc, summary[c.d], session)
    /\ \A i \in DOMAIN c.out : /\ c.out[i].d = c.d
                               /\ ToGateOK(c.out[i], c.row, summary[c.d], session)

\* A frame sent is the only thing that changes in a context.
LEMMA SendFields ==
    ASSUME NEW c \in Ctx, NEW type \in {"claim", "ack", "release", "running", "renew", "complete"},
           NEW outcome \in Outcome \cup {"none"}
    PROVE  /\ Send(c, type, outcome) \in Ctx
           /\ Send(c, type, outcome).d = c.d
           /\ Send(c, type, outcome).row = c.row
           /\ Send(c, type, outcome).loc = c.loc
           /\ Send(c, type, outcome).work = c.work
           /\ \A i \in DOMAIN Send(c, type, outcome).out :
                \/ i \in DOMAIN c.out /\ Send(c, type, outcome).out[i] = c.out[i]
                \/ Send(c, type, outcome).out[i] = [type |-> type, d |-> c.d, outcome |-> outcome]
  <1> DEFINE f == [type |-> type, d |-> c.d, outcome |-> outcome]
  <1>1. f \in FrameToGate
    BY DEF Ctx, FrameToGate
  <1>2. c.out \in Seq(FrameToGate)
    BY DEF Ctx
  <1> HIDE DEF f
  <1>3. /\ Append(c.out, f) \in Seq(FrameToGate)
        /\ \A i \in DOMAIN Append(c.out, f) :
             \/ i \in DOMAIN c.out /\ Append(c.out, f)[i] = c.out[i]
             \/ Append(c.out, f)[i] = f
    BY <1>1, <1>2, AppendProperties, LenProperties
  <1>4. CASE ~CanSend
    BY <1>4 DEF Send
  <1>5. CASE CanSend
    <2> DEFINE e == [c EXCEPT !.out = Append(@, f)]
    <2>1. e \in Ctx /\ e.d = c.d /\ e.row = c.row /\ e.loc = c.loc /\ e.work = c.work
          /\ e.out = Append(c.out, f)
      BY <1>3 DEF Ctx
    <2>2. Send(c, type, outcome) = e
      BY <1>5 DEF Send, f
    <2> HIDE DEF e
    <2> QED
      BY <1>3, <2>1, <2>2 DEF f
  <1> QED
    BY <1>4, <1>5

\* The gate's vocabulary is the bridge's.
LEMMA SameWords ==
    /\ Gate!DispatchState = DispatchState
    /\ \A state : Gate!IsTerminalDispatchState(state) <=> IsTerminalDispatchState(state)
    /\ \A state : Gate!MayFallbackToCloud(state) <=> MayFallbackToCloud(state)
  BY DEF Gate!DispatchState, DispatchState, Gate!TerminalDispatchState, TerminalDispatchState,
         Gate!IsTerminalDispatchState, IsTerminalDispatchState,
         Gate!MayFallbackToCloud, MayFallbackToCloud

\* The types of the gate's columns, in the words of the bridge.
LEMMA SummaryTyped ==
    ASSUME Typed, NEW d \in Dispatch
    PROVE  /\ summary[d] \in Gate!SummaryType
           /\ summary[d].sess \in Nat /\ session \in Nat
           /\ summary[d].state \in DispatchState \cup {"absent"}
           /\ summary[d].placement \in {"none", "computer", "cloud"}
           /\ summary[d].exec \in {Me, NoDevice}
  BY SameWords DEF Typed, Gate!SummaryType

\* A context that differs in memory only.
LEMMA RetryKeeps ==
    ASSUME NEW c, Sound(c)
    PROVE  LET e == RetryCancellation(c) IN
           /\ Sound(e)
           /\ e.d = c.d /\ e.row = c.row /\ e.work = c.work /\ e.out = c.out
           /\ e.loc.task = c.loc.task /\ e.loc.beat = c.loc.beat /\ e.loc.offer = c.loc.offer
           /\ e.loc.flush = c.loc.flush
  <1>1. CASE ~(c.row.cancel /\ c.loc.cancel = "idle")
    BY <1>1 DEF RetryCancellation
  <1>2. CASE c.row.cancel /\ c.loc.cancel = "idle"
    <2> DEFINE e == [c EXCEPT !.loc.cancel = "rpc"]
    <2>1. /\ e \in Ctx /\ e.d = c.d /\ e.row = c.row /\ e.work = c.work /\ e.out = c.out
          /\ e.loc.task = c.loc.task /\ e.loc.beat = c.loc.beat /\ e.loc.offer = c.loc.offer
          /\ e.loc.flush = c.loc.flush /\ e.loc.cancel = "rpc"
      BY DEF Ctx, LocalType, Sound
    <2>2. RetryCancellation(c) = e
      BY <1>2 DEF RetryCancellation
    <2> HIDE DEF e
    <2>3. MemoryOK(e.row, e.loc, e.work)
      BY <1>2, <2>1 DEF Sound, MemoryOK
    <2>4. BeatOK(e.row, e.loc, summary[e.d], proc) /\ HandoverOK(e.row, e.loc, summary[e.d], session)
      BY <2>1 DEF Sound, BeatOK, HandoverOK
    <2>5. Sound(e)
      BY <2>1, <2>3, <2>4 DEF Sound
    <2> QED
      BY <2>1, <2>2, <2>5
  <1> QED
    BY <1>1, <1>2

\* flushTerminalState sends a receipt only of a row past its run.
LEMMA FlushKeeps ==
    ASSUME NEW c, Sound(c)
    PROVE  LET e == FlushTerminal(c) IN
           /\ Sound(e)
           /\ e.d = c.d /\ e.row = c.row /\ e.work = c.work
           /\ e.loc.task = c.loc.task /\ e.loc.beat = c.loc.beat /\ e.loc.offer = c.loc.offer
           /\ e.loc.cancel = c.loc.cancel
  <1> DEFINE owed == /\ c.loc.flush = "idle" /\ c.row.state = "terminal_pending"
                     /\ ~c.row.cancel /\ CanSend
  <1>1. CASE ~owed
    BY <1>1 DEF FlushTerminal
  <1>2. CASE owed
    <2> DEFINE s == Send(c, "complete", c.row.outcome)
               e == [s EXCEPT !.loc.flush = "wait"]
    <2>0. c \in Ctx /\ c.row.outcome \in Outcome
      BY <1>2 DEF Sound, Ctx, InboxType, RowOK
    <2>1. /\ s \in Ctx /\ s.d = c.d /\ s.row = c.row /\ s.loc = c.loc /\ s.work = c.work
          /\ \A i \in DOMAIN s.out :
               \/ i \in DOMAIN c.out /\ s.out[i] = c.out[i]
               \/ s.out[i] = [type |-> "complete", d |-> c.d, outcome |-> c.row.outcome]
      BY <2>0, SendFields
    <2>2. FlushTerminal(c) = e
      BY <1>2 DEF FlushTerminal
    <2> HIDE DEF s
    <2>3. /\ e \in Ctx /\ e.d = c.d /\ e.row = c.row /\ e.work = c.work /\ e.out = s.out
          /\ e.loc.task = c.loc.task /\ e.loc.beat = c.loc.beat /\ e.loc.offer = c.loc.offer
          /\ e.loc.flush = "wait" /\ e.loc.cancel = c.loc.cancel
      BY <2>1 DEF Ctx, LocalType
    <2> HIDE DEF e
    <2>4. MemoryOK(e.row, e.loc, e.work)
      BY <1>2, <2>3 DEF Sound, MemoryOK
    <2>5. BeatOK(e.row, e.loc, summary[e.d], proc) /\ HandoverOK(e.row, e.loc, summary[e.d], session)
      BY <2>3 DEF Sound, BeatOK, HandoverOK
    <2>6. ASSUME NEW i \in DOMAIN e.out
          PROVE  e.out[i].d = e.d /\ ToGateOK(e.out[i], e.row, summary[e.d], session)
      <3>1. CASE i \in DOMAIN c.out /\ e.out[i] = c.out[i]
        BY <3>1, <2>3 DEF Sound
      <3>2. CASE e.out[i] = [type |-> "complete", d |-> c.d, outcome |-> c.row.outcome]
        BY <3>2, <2>0, <2>3, <1>2 DEF ToGateOK, Executable
      <3> QED
        BY <2>1, <2>3, <2>6, <3>1, <3>2
    <2>7. Sound(e)
      BY <2>3, <2>4, <2>5, <2>6 DEF Sound
    <2> QED
      BY <2>2, <2>3, <2>7
  <1> QED
    BY <1>1, <1>2

\* Staging a cancellation leaves the row where it is.
LEMMA StageKeeps ==
    ASSUME NEW c, Sound(c), NEW outcome \in Outcome, NEW orphan \in BOOLEAN,
           orphan => c.row.sess < session,
           c.row.state = "claimed" => c.loc.beat.phase = "idle"
    PROVE  LET e == StageAndRetry(c, outcome, orphan) IN
           /\ Sound(e)
           /\ e.d = c.d /\ e.row.state = c.row.state /\ e.work = c.work /\ e.out = c.out
           /\ c.row.state \in Unfinished => e.row.cancel
           /\ c.row.state \notin Unfinished => e.row = c.row
           /\ e.loc.task = c.loc.task
  <1> DEFINE a == [c EXCEPT !.row = StageCancellation(@, outcome, orphan)]
  <1>1. CASE c.row.state \notin Unfinished
    <2>1. a = c
      BY <1>1 DEF StageCancellation, Sound, Ctx
    <2>2. StageAndRetry(c, outcome, orphan) = RetryCancellation(c)
      BY <2>1 DEF StageAndRetry
    <2> QED
      BY <1>1, <2>2, RetryKeeps
  <1>2. CASE c.row.state \in Unfinished
    <2> DEFINE r == [c.row EXCEPT !.cancel = TRUE, !.orphan = @ \/ orphan, !.outcome = outcome]
    <2>1. /\ r \in InboxType /\ r.state = c.row.state /\ r.sess = c.row.sess
          /\ r.cancel = TRUE /\ r.orphan = (c.row.orphan \/ orphan) /\ r.outcome = outcome
      BY DEF Sound, Ctx, InboxType
    <2>2. StageCancellation(c.row, outcome, orphan) = r
      BY <1>2 DEF StageCancellation
    <2> HIDE DEF r
    <2>3. /\ a \in Ctx /\ a.d = c.d /\ a.row = r /\ a.work = c.work /\ a.out = c.out /\ a.loc = c.loc
      BY <2>1, <2>2 DEF Sound, Ctx
    <2> HIDE DEF a
    <2>4. RowOK(a.row, session)
      BY <2>1, <2>3 DEF Sound, RowOK, Outcome
    <2>5. WorkOK(a.row, a.work) /\ MemoryOK(a.row, a.loc, a.work)
      BY <1>2, <2>1, <2>3 DEF Sound, WorkOK, MemoryOK, Unfinished, Executable
    <2>6. BeatOK(a.row, a.loc, summary[a.d], proc)
      BY <2>1, <2>3 DEF Sound, BeatOK
    <2>7. HandoverOK(a.row, a.loc, summary[a.d], session)
      BY <2>1, <2>3 DEF Sound, HandoverOK
    <2>8. ASSUME NEW i \in DOMAIN a.out
          PROVE  a.out[i].d = a.d /\ ToGateOK(a.out[i], a.row, summary[a.d], session)
      BY <2>1, <2>3, <2>8 DEF Sound, ToGateOK
    <2>9. Sound(a)
      BY <2>3, <2>4, <2>5, <2>6, <2>7, <2>8 DEF Sound
    <2>10. StageAndRetry(c, outcome, orphan) = RetryCancellation(a)
      BY DEF StageAndRetry, a
    <2> QED
      BY <1>2, <2>1, <2>3, <2>9, <2>10, RetryKeeps
  <1> QED
    BY <1>1, <1>2

\* A task that waits for a cancellation or a receipt is only memory.
LEMMA JoinKeeps ==
    ASSUME NEW c, Sound(c), c.row.state # "absent", c.row.state = "claimed" => c.row.cancel
    PROVE  /\ Sound(Join(c))
           /\ Join(c).d = c.d /\ Join(c).row = c.row /\ Join(c).work = c.work
           /\ Join(c).out = c.out
  <1>1. CASE c.loc.cancel = "idle" /\ c.loc.flush = "idle"
    BY <1>1 DEF Join
  <1>2. CASE ~(c.loc.cancel = "idle" /\ c.loc.flush = "idle")
    <2> DEFINE e == [c EXCEPT !.loc.task = "join"]
    <2>1. /\ e \in Ctx /\ e.d = c.d /\ e.row = c.row /\ e.work = c.work /\ e.out = c.out
          /\ e.loc.cancel = c.loc.cancel /\ e.loc.beat = c.loc.beat /\ e.loc.offer = c.loc.offer
          /\ e.loc.flush = c.loc.flush
      BY DEF Ctx, LocalType, Sound
    <2>2. Join(c) = e
      BY <1>2 DEF Join
    <2> HIDE DEF e
    <2>3. MemoryOK(e.row, e.loc, e.work)
      BY <2>1 DEF Sound, MemoryOK
    <2>4. BeatOK(e.row, e.loc, summary[e.d], proc)
      BY <2>1 DEF Sound, BeatOK
    <2>5. HandoverOK(e.row, e.loc, summary[e.d], session)
      BY <2>1 DEF Sound, HandoverOK
    <2>6. Sound(e)
      BY <2>1, <2>3, <2>4, <2>5 DEF Sound
    <2> QED
      BY <2>1, <2>2, <2>6
  <1> QED
    BY <1>1, <1>2

\* Only an accepted row that nobody stops is run, and it was never run before.
LEMMA RunKeeps ==
    ASSUME NEW c, Sound(c), c.row.state = "accepted", ~c.row.cancel
    PROVE  LET e == RunLocal(c) IN
           /\ Sound(e)
           /\ e.d = c.d /\ e.row.state = "running" /\ ~e.row.cancel
           /\ e.loc.task = "run"
  <1> DEFINE r == [c.row EXCEPT !.state = "running"]
             b == [c EXCEPT !.row = MarkRunning(@)]
             m == Send(b, "running", "none")
             w == [worker |-> "live", launches |-> m.work.launches + 1]
             e == [m EXCEPT !.loc.task = "run", !.work = w]
  <1>1. /\ r \in InboxType /\ r.state = "running" /\ r.sess = c.row.sess /\ r.cancel = c.row.cancel
        /\ r.orphan = c.row.orphan /\ r.outcome = c.row.outcome
    BY DEF Sound, Ctx, InboxType, Unfinished, Executable
  <1>2. MarkRunning(c.row) = r
    BY DEF MarkRunning
  <1> HIDE DEF r
  <1>3. b \in Ctx /\ b.d = c.d /\ b.row = r /\ b.loc = c.loc /\ b.work = c.work /\ b.out = c.out
    BY <1>1, <1>2 DEF Sound, Ctx
  <1> HIDE DEF b
  <1>4. /\ m \in Ctx /\ m.d = c.d /\ m.row = r /\ m.loc = c.loc /\ m.work = c.work
        /\ \A i \in DOMAIN m.out :
             \/ i \in DOMAIN c.out /\ m.out[i] = c.out[i]
             \/ m.out[i] = [type |-> "running", d |-> c.d, outcome |-> "none"]
    BY <1>3, SendFields
  <1> HIDE DEF m
  <1>5. c.work.launches = 0 /\ c.loc \in LocalType /\ c.work \in WorkType
    BY DEF Sound, Ctx, WorkOK
  <1>6. w \in WorkType /\ w.launches = 1 /\ w.worker = "live"
    BY <1>4, <1>5 DEF WorkType
  <1>7. RunLocal(c) = e
    <2>1. RunLocal(c) = [m EXCEPT !.loc.task = "run",
                            !.work = [worker |-> "live", launches |-> @.launches + 1]]
      BY <1>1, <1>4 DEF RunLocal, m, b
    <2> QED
      BY <2>1, <1>4 DEF Ctx
  <1> HIDE DEF w
  <1>8. /\ e \in Ctx /\ e.d = c.d /\ e.row = r /\ e.work = w /\ e.out = m.out
        /\ e.loc.cancel = c.loc.cancel /\ e.loc.beat = c.loc.beat /\ e.loc.offer = c.loc.offer
        /\ e.loc.flush = c.loc.flush /\ e.loc.task = "run"
    BY <1>4, <1>5, <1>6 DEF Ctx, LocalType
  <1> HIDE DEF e
  <1>9. RowOK(e.row, session) /\ WorkOK(e.row, e.work)
    BY <1>1, <1>6, <1>8 DEF Sound, RowOK, WorkOK
  <1>10. MemoryOK(e.row, e.loc, e.work)
    BY <1>1, <1>8 DEF Sound, MemoryOK, Closed
  <1>11. BeatOK(e.row, e.loc, summary[e.d], proc)
    BY <1>1, <1>8 DEF Sound, BeatOK
  <1>12. HandoverOK(e.row, e.loc, summary[e.d], session)
    BY <1>1, <1>8 DEF Sound, HandoverOK, Closed, Executable
  <1>13. ASSUME NEW i \in DOMAIN e.out
         PROVE  e.out[i].d = e.d /\ ToGateOK(e.out[i], e.row, summary[e.d], session)
    <2>1. CASE i \in DOMAIN c.out /\ e.out[i] = c.out[i]
      <3>1. c.out[i].d = c.d /\ ToGateOK(c.out[i], c.row, summary[c.d], session)
        BY <2>1 DEF Sound
      <3> QED
        BY <2>1, <3>1, <1>1, <1>8 DEF ToGateOK, Executable, Closed
    <2>2. CASE e.out[i] = [type |-> "running", d |-> c.d, outcome |-> "none"]
      BY <2>2, <1>8 DEF ToGateOK
    <2> QED
      BY <1>4, <1>8, <1>13, <2>1, <2>2
  <1>14. Sound(e)
    BY <1>8, <1>9, <1>10, <1>11, <1>12, <1>13 DEF Sound
  <1> QED
    BY <1>1, <1>7, <1>8, <1>14

\* The ack goes out with the row already in the inbox.
LEMMA AckKeeps ==
    ASSUME NEW c, Sound(c), c.row.state = "claimed", ~c.row.cancel, c.out = <<>>,
           c.loc.beat.phase = "idle"
    PROVE  LET e == [Send(c, "ack", "none") EXCEPT !.row = MarkAccepted(@)] IN
           Sound(e) /\ e.d = c.d /\ e.row.state = "accepted" /\ ~e.row.cancel
  <1> DEFINE r == [c.row EXCEPT !.state = "accepted"]
             m == Send(c, "ack", "none")
             e == [m EXCEPT !.row = MarkAccepted(@)]
  <1>1. /\ r \in InboxType /\ r.state = "accepted" /\ r.sess = c.row.sess /\ r.cancel = c.row.cancel
        /\ r.orphan = c.row.orphan /\ r.outcome = c.row.outcome
    BY DEF Sound, Ctx, InboxType, Unfinished, Executable
  <1>2. MarkAccepted(c.row) = r
    BY DEF MarkAccepted
  <1> HIDE DEF r
  <1>3. /\ m \in Ctx /\ m.d = c.d /\ m.row = c.row /\ m.loc = c.loc /\ m.work = c.work
        /\ \A i \in DOMAIN m.out :
             \/ i \in DOMAIN c.out /\ m.out[i] = c.out[i]
             \/ m.out[i] = [type |-> "ack", d |-> c.d, outcome |-> "none"]
    BY SendFields DEF Sound
  <1> HIDE DEF m
  <1>4. /\ e \in Ctx /\ e.d = c.d /\ e.row = r /\ e.loc = c.loc /\ e.work = c.work
        /\ e.out = m.out
    BY <1>1, <1>2, <1>3 DEF Ctx
  <1>5. ASSUME NEW i \in DOMAIN m.out
        PROVE  m.out[i] = [type |-> "ack", d |-> c.d, outcome |-> "none"]
    BY <1>3, <1>5
  <1> HIDE DEF e
  <1>6. RowOK(e.row, session) /\ WorkOK(e.row, e.work) /\ MemoryOK(e.row, e.loc, e.work)
    BY <1>1, <1>4 DEF Sound, RowOK, WorkOK, MemoryOK, Closed
  <1>7. BeatOK(e.row, e.loc, summary[e.d], proc)
    BY <1>1, <1>4 DEF Sound, BeatOK
  <1>8. HandoverOK(e.row, e.loc, summary[e.d], session)
    BY <1>1, <1>4 DEF Sound, HandoverOK, Closed, Executable
  <1>9. ASSUME NEW i \in DOMAIN e.out
        PROVE  e.out[i].d = e.d /\ ToGateOK(e.out[i], e.row, summary[e.d], session)
    BY <1>1, <1>4, <1>5, <1>9 DEF ToGateOK, Closed
  <1>10. Sound(e)
    BY <1>4, <1>6, <1>7, <1>8, <1>9 DEF Sound
  <1> QED
    BY <1>1, <1>4, <1>10 DEF e, m

\* launchLocal on a row that is neither absent nor closed: whatever it finds,
\* it ends with a run, a receipt or a cancellation under way, or as it was.
LEMMA LaunchKeeps ==
    ASSUME NEW c, Sound(c), Attended(c.row, c.loc, proc), c.out = <<>>,
           c.row.state \in Unfinished,
           c.row.state = "claimed" => c.loc.beat.phase = "idle",
           NEW row, row.state = c.row.state, row.cancel = c.row.cancel,
           NEW remote
    PROVE  LET e == LaunchLocal(c, row, remote) IN
           /\ Sound(e) /\ Attended(e.row, e.loc, proc)
           /\ e.d = c.d /\ Later(c.row, e.row) /\ e.row.state \in Unfinished
  <1> DEFINE e == LaunchLocal(c, row, remote)
  <1>0. c.row.cancel \in BOOLEAN /\ c.row.state \notin Closed /\ c.row.state # "absent"
    BY DEF Sound, Ctx, InboxType, Unfinished, Executable, Closed
  <1>1. CASE e = c
    BY <1>1 DEF Later
  <1>2. CASE e # c
    <2>1. e = ResumeLocal(c, row, remote) /\ c.loc.task = "idle" /\ ~Stopped
      BY <1>2 DEF LaunchLocal
    <2>2. ~(c.row.state = "running" /\ ~c.row.cancel)
      BY <2>1 DEF Attended, Stopped
    <2>3. CASE row.cancel
      <3> DEFINE t == RetryCancellation(c)
      <3>0. c.row.cancel
        BY <2>3
      <3>1. e = Join(t)
        BY <2>1, <2>3 DEF ResumeLocal
      <3>2. Sound(t) /\ t.d = c.d /\ t.row = c.row
        BY RetryKeeps
      <3> HIDE DEF t
      <3>3. Sound(Join(t)) /\ Join(t).d = c.d /\ Join(t).row = c.row
        BY <1>0, <3>0, <3>2, JoinKeeps
      <3> QED
        BY <3>1, <3>3, <2>3 DEF Attended, Later
    <2>4. CASE ~row.cancel /\ remote = "cancel_pending"
      <3> DEFINE t == StageAndRetry(c, "canceled", FALSE)
      <3>1. e = Join(t)
        BY <1>0, <2>1, <2>4 DEF ResumeLocal, CancelAccepted, Closed
      <3>2. Sound(t) /\ t.d = c.d /\ t.row.state = c.row.state /\ t.row.cancel
        BY StageKeeps DEF Outcome
      <3> HIDE DEF t
      <3>3. Sound(Join(t)) /\ Join(t).d = c.d /\ Join(t).row = t.row
        BY <1>0, <3>2, JoinKeeps
      <3> QED
        BY <3>1, <3>2, <3>3 DEF Attended, Later
    <2>5. CASE ~row.cancel /\ remote # "cancel_pending" /\ row.state = "claimed"
      <3> DEFINE t == [Send(c, "ack", "none") EXCEPT !.row = MarkAccepted(@)]
      <3>1. CanSend
        BY <2>1, <2>5, <1>2 DEF ResumeLocal
      <3>2. Sound(t) /\ t.d = c.d /\ t.row.state = "accepted" /\ ~t.row.cancel
        BY <2>5, AckKeeps
      <3>3. e = RunLocal(t)
        BY <2>1, <2>5, <3>1, <3>2 DEF ResumeLocal
      <3> HIDE DEF t
      <3>4. /\ Sound(RunLocal(t)) /\ RunLocal(t).d = c.d /\ RunLocal(t).row.state = "running"
            /\ RunLocal(t).loc.task = "run"
        BY <3>2, RunKeeps
      <3> QED
        BY <3>3, <3>4, <2>5 DEF Attended, Later, Unfinished, Executable
    <2>6. CASE ~row.cancel /\ remote # "cancel_pending" /\ row.state = "terminal_pending"
      <3> DEFINE t == FlushTerminal(c)
      <3>1. e = Join(t)
        BY <2>1, <2>6 DEF ResumeLocal
      <3>2. Sound(t) /\ t.d = c.d /\ t.row = c.row
        BY FlushKeeps
      <3> HIDE DEF t
      <3>3. Sound(Join(t)) /\ Join(t).d = c.d /\ Join(t).row = c.row
        BY <1>0, <2>6, <3>2, JoinKeeps
      <3> QED
        BY <3>1, <3>3, <2>6 DEF Attended, Later
    <2>7. CASE ~row.cancel /\ remote # "cancel_pending" /\ row.state = "accepted"
      <3>1. e = RunLocal(c)
        BY <2>1, <2>7 DEF ResumeLocal
      <3>2. /\ Sound(RunLocal(c)) /\ RunLocal(c).d = c.d /\ RunLocal(c).row.state = "running"
            /\ RunLocal(c).loc.task = "run"
        BY <2>7, RunKeeps
      <3> QED
        BY <3>1, <3>2, <2>7 DEF Attended, Later, Unfinished, Executable
    <2> QED
      BY <1>0, <2>2, <2>3, <2>4, <2>5, <2>6, <2>7 DEF Unfinished, Executable
  <1> QED
    BY <1>1, <1>2

-----------------------------------------------------------------------------
(* Steps of one dispatch on the computer.                                  *)

\* The invariant of a dispatch is soundness of its context.
LEMMA ContextSound ==
    ASSUME IInv, NEW d \in Dispatch
    PROVE  /\ Sound(Context(d))
           /\ Context(d).d = d /\ Context(d).row = inbox[d] /\ Context(d).loc = local[d]
           /\ Context(d).work = work[d] /\ Context(d).out = <<>>
           /\ Attended(Context(d).row, Context(d).loc, proc)
  <1>1. /\ inbox[d] \in InboxType /\ local[d] \in LocalType /\ work[d] \in WorkType
        /\ <<>> \in Seq(FrameToGate)
    BY DEF IInv, Typed
  <1>2. /\ Context(d) \in Ctx
        /\ Context(d).d = d /\ Context(d).row = inbox[d] /\ Context(d).loc = local[d]
        /\ Context(d).work = work[d] /\ Context(d).out = <<>>
    BY <1>1 DEF Context, Ctx
  <1>3. DispatchOK(d)
    BY DEF IInv
  <1> QED
    BY <1>2, <1>3 DEF Sound, DispatchOK

\* Taking a sound context keeps the invariant.
LEMMA TakeKeeps ==
    ASSUME IInv, NEW d \in Dispatch, NEW c, Sound(c), c.d = d, Attended(c.row, c.loc, proc),
           Later(inbox[d], c.row), Take(c),
           UNCHANGED <<session, proc, sock, gateVars, counters>>,
           toDevice' = toDevice \/ (toDevice # <<>> /\ toDevice' = Tail(toDevice)),
           c.row.state \in Closed /\ inbox[d].state \notin Closed => MayClose(d, toDevice', session)
    PROVE  IInv'
  <1>0. /\ UNCHANGED <<session, proc, sock, summary, presence, faults, stops>>
    BY DEF gateVars, counters
  <1>1. /\ c.row \in InboxType /\ c.loc \in LocalType /\ c.work \in WorkType
        /\ c.out \in Seq(FrameToGate)
    BY DEF Sound, Ctx
  <1>2. /\ inbox' = [inbox EXCEPT ![d] = c.row] /\ local' = [local EXCEPT ![d] = c.loc]
        /\ work' = [work EXCEPT ![d] = c.work] /\ toGate' = toGate \o c.out
    BY DEF Take
  <1>3. /\ inbox'[d] = c.row /\ local'[d] = c.loc /\ work'[d] = c.work
        /\ \A e \in Dispatch \ {d} :
             inbox'[e] = inbox[e] /\ local'[e] = local[e] /\ work'[e] = work[e]
    BY <1>2 DEF IInv, Typed
  <1>4. toGate \in Seq(FrameToGate) /\ toDevice \in Seq(FrameToDevice)
    BY DEF IInv, Typed
  <1>5. toDevice' \in Seq(FrameToDevice) /\ LeftOf(toDevice')
    BY <1>4, TailElements, LeftOvers DEF IInv
  <1>6. /\ toGate' \in Seq(FrameToGate)
        /\ \A i \in DOMAIN toGate' :
             \/ i \in DOMAIN toGate /\ toGate'[i] = toGate[i]
             \/ \E j \in DOMAIN c.out : toGate'[i] = c.out[j]
    BY <1>1, <1>2, <1>4, ConcatElements
  <1>7. Typed'
    BY <1>0, <1>1, <1>2, <1>5, <1>6 DEF IInv, Typed
  <1>8. SocketOK'
    BY <1>0, <1>4 DEF IInv, SocketOK
  <1>9. ASSUME NEW e \in Dispatch PROVE DispatchOK(e)'
    <2>1. CASE e # d
      BY <1>0, <1>3, <2>1 DEF IInv, DispatchOK
    <2>2. CASE e = d
      <3>1. SummaryOK(summary[d], session)
        BY DEF IInv, DispatchOK
      <3> QED
        BY <1>0, <1>3, <2>2, <3>1 DEF Sound, DispatchOK
    <2> QED
      BY <2>1, <2>2
  <1>10. FramesOK'
    <2>1. \A e \in Dispatch : Later(inbox[e], inbox'[e])
      BY <1>3 DEF Later
    <2>2. \A e \in Dispatch : inbox'[e].state \in Closed /\ inbox[e].state \notin Closed
                                 => MayClose(e, toDevice', session')
      BY <1>0, <1>3
    <2>3. ASSUME NEW i \in DOMAIN toGate'
          PROVE  \/ \E j \in DOMAIN toGate : toGate'[i] = toGate[j]
                 \/ ToGateOK(toGate'[i], inbox'[toGate'[i].d], summary[toGate'[i].d], session')
      <3>1. CASE \E j \in DOMAIN c.out : toGate'[i] = c.out[j]
        BY <3>1, <1>0, <1>3 DEF Sound
      <3> QED
        BY <1>6, <2>3, <3>1
    <2>4. session <= session' /\ session' = session
      BY <1>0 DEF IInv, Typed
    <2> QED
      BY <1>0, <1>5, <1>7, <2>1, <2>2, <2>3, <2>4, BridgeFrames
  <1> QED
    BY <1>7, <1>8, <1>9, <1>10 DEF IInv

\* The same, for a step that touches the memory or the worker and leaves the
\* row and the socket alone.
LEMMA MemoKeeps ==
    ASSUME IInv, NEW d \in Dispatch, NEW c \in Ctx, c.d = d, c.row = inbox[d], Take(c),
           WorkOK(c.row, c.work), MemoryOK(c.row, c.loc, c.work), Attended(c.row, c.loc, proc),
           BeatOK(c.row, c.loc, summary[d], proc), HandoverOK(c.row, c.loc, summary[d], session),
           \A i \in DOMAIN c.out : c.out[i].d = d /\ c.out[i].type \notin {"ack", "complete"},
           UNCHANGED <<session, proc, sock, gateVars, counters>>,
           toDevice' = toDevice \/ (toDevice # <<>> /\ toDevice' = Tail(toDevice))
    PROVE  IInv'
  <1>1. RowOK(c.row, session)
    BY DEF IInv, DispatchOK
  <1>2. Sound(c)
    BY <1>1 DEF Sound, ToGateOK
  <1>3. Later(inbox[d], c.row)
    BY DEF Later
  <1> QED
    BY <1>2, <1>3, TakeKeeps

\* What no step of the bridge changes.
Stays == UNCHANGED <<gateVars, counters>>

\* The claim goes out, or is given up.
LEMMA ClaimOfferKeeps ==
    ASSUME IInv, NEW d \in Dispatch, ClaimOffer(d) \/ ClaimTimesOut(d), Stays
    PROVE  IInv'
  <1> DEFINE c == Context(d)
             idle == [c EXCEPT !.loc.offer = "idle"]
             sent == Send(c, "claim", "none")
             wait == [sent EXCEPT !.loc.offer = "wait"]
  <1>1. /\ Sound(c) /\ c.d = d /\ c.row = inbox[d] /\ c.loc = local[d]
        /\ c.work = work[d] /\ c.out = <<>> /\ Attended(c.row, c.loc, proc)
    BY ContextSound
  <1>2. /\ UNCHANGED <<session, proc, sock, gateVars, counters>> /\ toDevice' = toDevice
        /\ local[d].offer \in {"check", "wait"}
        /\ Take(idle) \/ Take(wait)
    BY DEF ClaimOffer, ClaimTimesOut, Keep, Stays
  <1>3. /\ sent \in Ctx /\ sent.d = d /\ sent.row = c.row /\ sent.loc = c.loc
        /\ sent.work = c.work
        /\ \A i \in DOMAIN sent.out : sent.out[i].d = d /\ sent.out[i].type = "claim"
    <2>1. /\ sent \in Ctx /\ sent.d = d /\ sent.row = c.row /\ sent.loc = c.loc
          /\ sent.work = c.work
          /\ \A i \in DOMAIN sent.out :
                \/ i \in DOMAIN c.out /\ sent.out[i] = c.out[i]
                \/ sent.out[i] = [type |-> "claim", d |-> c.d, outcome |-> "none"]
      BY <1>1, SendFields DEF Sound
    <2> QED
      BY <1>1, <2>1
  <1> HIDE DEF c, sent
  <1>4. /\ idle \in Ctx /\ idle.d = d /\ idle.row = c.row /\ idle.work = c.work /\ idle.out = <<>>
        /\ idle.loc.offer = "idle" /\ idle.loc.task = c.loc.task /\ idle.loc.cancel = c.loc.cancel
        /\ idle.loc.flush = c.loc.flush /\ idle.loc.beat = c.loc.beat
    BY <1>1 DEF Sound, Ctx, LocalType
  <1>5. /\ wait \in Ctx /\ wait.d = d /\ wait.row = c.row /\ wait.work = c.work /\ wait.out = sent.out
        /\ wait.loc.offer = "wait" /\ wait.loc.task = c.loc.task /\ wait.loc.cancel = c.loc.cancel
        /\ wait.loc.flush = c.loc.flush /\ wait.loc.beat = c.loc.beat
    BY <1>3 DEF Ctx, LocalType
  <1> HIDE DEF idle, wait
  <1>6. CASE Take(idle)
    <2>1. /\ WorkOK(idle.row, idle.work) /\ MemoryOK(idle.row, idle.loc, idle.work)
          /\ Attended(idle.row, idle.loc, proc) /\ BeatOK(idle.row, idle.loc, summary[d], proc)
          /\ HandoverOK(idle.row, idle.loc, summary[d], session)
      BY <1>1, <1>4 DEF Sound, WorkOK, MemoryOK, Attended, BeatOK, HandoverOK
    <2>2. \A i \in DOMAIN idle.out :
             idle.out[i].d = d /\ idle.out[i].type \notin {"ack", "complete"}
      BY <1>4
    <2> QED
      BY <1>1, <1>2, <1>4, <1>6, <2>1, <2>2, MemoKeeps
  <1>7. CASE Take(wait)
    <2>1. /\ WorkOK(wait.row, wait.work) /\ MemoryOK(wait.row, wait.loc, wait.work)
          /\ Attended(wait.row, wait.loc, proc) /\ BeatOK(wait.row, wait.loc, summary[d], proc)
          /\ HandoverOK(wait.row, wait.loc, summary[d], session)
      BY <1>1, <1>2, <1>5 DEF Sound, WorkOK, MemoryOK, Attended, BeatOK, HandoverOK
    <2>2. \A i \in DOMAIN wait.out :
             wait.out[i].d = d /\ wait.out[i].type \notin {"ack", "complete"}
      BY <1>3, <1>5
    <2> QED
      BY <1>1, <1>2, <1>5, <1>7, <2>1, <2>2, MemoKeeps
  <1> QED
    BY <1>2, <1>6, <1>7

\* A row written for a dispatch this computer holds no row of.
LEMMA NewRow ==
    ASSUME IInv, NEW d \in Dispatch, inbox[d].state = "absent",
           NEW c, c \in Ctx, c.d = d, c.work = work[d], c.out = <<>>,
           c.loc.offer = "idle", c.loc.task = local[d].task, c.loc.cancel = local[d].cancel,
           c.loc.flush = local[d].flush, c.loc.beat = local[d].beat,
           c.row.state \in {"claimed", "accepted"}, c.row.sess = session,
           c.row.cancel = FALSE, c.row.orphan = FALSE,
           summary[d].state \notin {"absent", "offering"},
           c.row.state = "claimed" => summary[d].placement # "computer"
    PROVE  Sound(c) /\ Attended(c.row, c.loc, proc) /\ c.loc.beat.phase = "idle"
  <1>1. DispatchOK(d) /\ summary[d].sess \in Nat /\ session \in Nat
    BY SummaryTyped DEF IInv
  <1>2. RowOK(c.row, session) /\ WorkOK(c.row, c.work) /\ MemoryOK(c.row, c.loc, c.work)
    BY <1>1 DEF DispatchOK, RowOK, WorkOK, MemoryOK
  <1>3. Attended(c.row, c.loc, proc) /\ BeatOK(c.row, c.loc, summary[c.d], proc)
    BY <1>1 DEF DispatchOK, Attended, BeatOK, MemoryOK
  <1>4. HandoverOK(c.row, c.loc, summary[c.d], session)
    BY <1>1 DEF DispatchOK, HandoverOK, SummaryOK, Closed, Executable
  <1> QED
    BY <1>1, <1>2, <1>3, <1>4 DEF Sound, DispatchOK, MemoryOK

\* The row a claim or an adopted submit writes.
LEMMA PersistFields ==
    ASSUME Typed
    PROVE  /\ PersistClaim(session) \in InboxType
           /\ PersistClaim(session).state = "claimed" /\ PersistClaim(session).sess = session
           /\ PersistClaim(session).cancel = FALSE /\ PersistClaim(session).orphan = FALSE
           /\ MarkAccepted(PersistClaim(session)) \in InboxType
           /\ MarkAccepted(PersistClaim(session)).state = "accepted"
           /\ MarkAccepted(PersistClaim(session)).sess = session
           /\ MarkAccepted(PersistClaim(session)).cancel = FALSE
           /\ MarkAccepted(PersistClaim(session)).orphan = FALSE
  <1> DEFINE p == PersistClaim(session)
  <1>1. /\ p \in InboxType /\ p.state = "claimed" /\ p.sess = session
        /\ p.cancel = FALSE /\ p.orphan = FALSE
    BY DEF Typed, PersistClaim, NoInboxRow, InboxType, Unfinished, Executable
  <1> HIDE DEF p
  <1>2. MarkAccepted(p) = [p EXCEPT !.state = "accepted"]
    BY <1>1 DEF MarkAccepted
  <1>3. /\ MarkAccepted(p) \in InboxType /\ MarkAccepted(p).state = "accepted"
        /\ MarkAccepted(p).sess = session
        /\ MarkAccepted(p).cancel = FALSE /\ MarkAccepted(p).orphan = FALSE
    BY <1>1, <1>2 DEF InboxType, Unfinished, Executable
  <1> QED
    BY <1>1, <1>3 DEF p

\* The answer of the computer's own submit is written and launched.
LEMMA AdoptKeeps ==
    ASSUME IInv, NEW d \in Dispatch, AdoptCommittedDispatch(d), Stays
    PROVE  IInv'
  <1> DEFINE c == [Context(d) EXCEPT !.loc.offer = "idle"]
             a == [c EXCEPT !.row = MarkAccepted(PersistClaim(session))]
             e == LaunchLocal(a, a.row, "computer_accepted")
  <1>1. /\ Sound(Context(d)) /\ Context(d).d = d /\ Context(d).row = inbox[d]
        /\ Context(d).loc = local[d]
        /\ Context(d).work = work[d] /\ Context(d).out = <<>>
        /\ Attended(Context(d).row, Context(d).loc, proc)
    BY ContextSound
  <1>2. /\ UNCHANGED <<session, proc, sock, gateVars, counters>> /\ toDevice' = toDevice
        /\ local[d].offer = "submitted" /\ (Take(c) \/ Take(e))
    BY DEF AdoptCommittedDispatch, Keep, Stays
  <1>3. /\ c \in Ctx /\ c.d = d /\ c.row = inbox[d] /\ c.work = work[d] /\ c.out = <<>>
        /\ c.loc.offer = "idle" /\ c.loc.task = local[d].task /\ c.loc.cancel = local[d].cancel
        /\ c.loc.flush = local[d].flush /\ c.loc.beat = local[d].beat
    BY <1>1 DEF Sound, Ctx, LocalType
  <1> HIDE DEF c
  <1>4. CASE Take(c)
    <2>1. /\ WorkOK(c.row, c.work) /\ MemoryOK(c.row, c.loc, c.work)
          /\ Attended(c.row, c.loc, proc) /\ BeatOK(c.row, c.loc, summary[d], proc)
          /\ HandoverOK(c.row, c.loc, summary[d], session)
      BY <1>1, <1>3 DEF Sound, WorkOK, MemoryOK, Attended, BeatOK, HandoverOK
    <2> QED
      BY <1>2, <1>3, <1>4, <2>1, MemoKeeps
  <1>5. CASE Take(e)
    <2>1. inbox[d].state = "absent" /\ summary[d].state \notin {"absent", "offering"}
      BY <1>2 DEF IInv, DispatchOK, MemoryOK, HandoverOK
    <2>2. /\ a \in Ctx /\ a.d = d /\ a.work = work[d] /\ a.out = <<>>
          /\ a.loc = c.loc /\ a.row = MarkAccepted(PersistClaim(session))
      BY <1>3, PersistFields DEF IInv, Ctx
    <2> HIDE DEF a
    <2>3. /\ a.row.state = "accepted" /\ a.row.sess = session /\ a.row.cancel = FALSE
          /\ a.row.orphan = FALSE
      BY <2>2, PersistFields DEF IInv
    <2>4. Sound(a) /\ Attended(a.row, a.loc, proc)
      BY <1>3, <2>1, <2>2, <2>3, NewRow
    <2>5. /\ Sound(e) /\ Attended(e.row, e.loc, proc)
          /\ e.d = d /\ e.row.state \in Unfinished
      BY <2>2, <2>3, <2>4, LaunchKeeps DEF Unfinished, Executable
    <2> HIDE DEF e
    <2>6. Later(inbox[d], e.row) /\ e.row.state \notin Closed
      BY <2>1, <2>5 DEF Later, Unfinished, Executable, Closed
    <2> QED
      BY <1>2, <1>5, <2>5, <2>6, TakeKeeps
  <1> QED
    BY <1>2, <1>4, <1>5

\* The run ends in the worker, before anybody hears of it.
LEMMA WorkerEndsKeeps ==
    ASSUME IInv, NEW d \in Dispatch, WorkerEnds(d), Stays
    PROVE  IInv'
  <1> DEFINE c == [Context(d) EXCEPT !.work.worker = "done"]
  <1>1. /\ Sound(Context(d)) /\ Context(d).d = d /\ Context(d).row = inbox[d]
        /\ Context(d).loc = local[d]
        /\ Context(d).work = work[d] /\ Context(d).out = <<>>
        /\ Attended(Context(d).row, Context(d).loc, proc)
    BY ContextSound
  <1>2. /\ c \in Ctx /\ c.d = d /\ c.row = inbox[d] /\ c.loc = local[d] /\ c.out = <<>>
        /\ c.work = [work[d] EXCEPT !.worker = "done"]
        /\ c.work.launches = work[d].launches /\ c.work.worker = "done"
    BY <1>1 DEF Sound, Ctx, WorkType
  <1> HIDE DEF c
  <1>3. /\ UNCHANGED <<session, proc, sock, gateVars, counters>> /\ toDevice' = toDevice
        /\ inbox' = inbox /\ local' = local /\ toGate' = toGate
        /\ work' = [work EXCEPT ![d].worker = "done"] /\ work[d].worker = "live"
    BY DEF WorkerEnds, Keep, Stays
  <1>4. Take(c)
    <2>1. inbox' = [inbox EXCEPT ![d] = c.row] /\ local' = [local EXCEPT ![d] = c.loc]
      BY <1>2, <1>3 DEF IInv, Typed
    <2>2. work' = [work EXCEPT ![d] = c.work]
      BY <1>2, <1>3
    <2>3. toGate' = toGate \o c.out
      BY <1>2, <1>3 DEF IInv, Typed
    <2> QED
      BY <1>2, <2>1, <2>2, <2>3 DEF Take
  <1>5. /\ WorkOK(c.row, c.work) /\ MemoryOK(c.row, c.loc, c.work)
        /\ Attended(c.row, c.loc, proc) /\ BeatOK(c.row, c.loc, summary[d], proc)
        /\ HandoverOK(c.row, c.loc, summary[d], session)
    BY <1>1, <1>2, <1>3 DEF Sound, WorkOK, MemoryOK
  <1> QED
    BY <1>2, <1>3, <1>4, <1>5, MemoKeeps

\* The steps that only move the task, the cancellation or the receipt on.
LEMMA MemoryMoves ==
    ASSUME IInv, NEW d \in Dispatch, Stays,
           TaskJoins(d) \/ CancelDeferred(d) \/ FlushTimesOut(d) \/ FlushDeferred(d)
    PROVE  IInv'
  <1> DEFINE c == Context(d)
  <1>1. /\ Sound(c) /\ c.d = d /\ c.row = inbox[d] /\ c.loc = local[d]
        /\ c.work = work[d] /\ c.out = <<>> /\ Attended(c.row, c.loc, proc)
    BY ContextSound
  <1>2. /\ UNCHANGED <<session, proc, sock, gateVars, counters>> /\ toDevice' = toDevice
    BY DEF TaskJoins, CancelDeferred, FlushTimesOut, FlushDeferred, Keep, Stays
  <1> SUFFICES ASSUME NEW e, e \in Ctx, e.d = d, e.row = c.row, e.work = c.work, e.out = <<>>,
                      e.loc.offer = c.loc.offer, e.loc.beat = c.loc.beat,
                      e.loc.task = c.loc.task
                        \/ (c.loc.task = "join" /\ e.loc.task = "idle"),
                      e.loc.cancel \in {c.loc.cancel, "idle"},
                      e.loc.flush \in {c.loc.flush, "idle"}
                        \/ (c.loc.flush # "idle" /\ e.loc.flush = "ask"),
                      Take(e)
               PROVE  IInv'
    <2>1. CASE TaskJoins(d)
      <3> DEFINE e == [c EXCEPT !.loc.task = "idle"]
      <3>1. Take(e) /\ local[d].task = "join"
        BY <2>1 DEF TaskJoins
      <3> HIDE DEF c
      <3>2. /\ e \in Ctx /\ e.d = d /\ e.row = c.row /\ e.work = c.work /\ e.out = <<>>
            /\ e.loc.offer = c.loc.offer /\ e.loc.beat = c.loc.beat /\ e.loc.task = "idle"
            /\ e.loc.cancel = c.loc.cancel /\ e.loc.flush = c.loc.flush
        BY <1>1 DEF Sound, Ctx, LocalType
      <3> HIDE DEF e
      <3> QED
        BY <1>1, <3>1, <3>2
    <2>2. CASE CancelDeferred(d)
      <3> DEFINE e == [c EXCEPT !.loc.cancel = "idle"]
      <3>1. Take(e)
        BY <2>2 DEF CancelDeferred
      <3> HIDE DEF c
      <3>2. /\ e \in Ctx /\ e.d = d /\ e.row = c.row /\ e.work = c.work /\ e.out = <<>>
            /\ e.loc.offer = c.loc.offer /\ e.loc.beat = c.loc.beat /\ e.loc.task = c.loc.task
            /\ e.loc.cancel = "idle" /\ e.loc.flush = c.loc.flush
        BY <1>1 DEF Sound, Ctx, LocalType
      <3> HIDE DEF e
      <3> QED
        BY <1>1, <3>1, <3>2
    <2>3. CASE FlushTimesOut(d) \/ FlushDeferred(d)
      <3> PICK flush \in {"ask", "idle"} : Take([c EXCEPT !.loc.flush = flush])
        BY <2>3 DEF FlushTimesOut, FlushDeferred
      <3> DEFINE e == [c EXCEPT !.loc.flush = flush]
      <3>1. local[d].flush # "idle"
        BY <2>3 DEF FlushTimesOut, FlushDeferred
      <3> HIDE DEF c
      <3>2. /\ e \in Ctx /\ e.d = d /\ e.row = c.row /\ e.work = c.work /\ e.out = <<>>
            /\ e.loc.offer = c.loc.offer /\ e.loc.beat = c.loc.beat /\ e.loc.task = c.loc.task
            /\ e.loc.cancel = c.loc.cancel /\ e.loc.flush = flush
        BY <1>1 DEF Sound, Ctx, LocalType
      <3>3. Take(e)
        OBVIOUS
      <3> HIDE DEF e
      <3> QED
        BY <1>1, <3>1, <3>2, <3>3
    <2> QED
      BY <2>1, <2>2, <2>3
  <1> HIDE DEF c
  <1>3. WorkOK(e.row, e.work) /\ MemoryOK(e.row, e.loc, e.work)
    BY <1>1 DEF Sound, MemoryOK
  <1>4. Attended(e.row, e.loc, proc) /\ BeatOK(e.row, e.loc, summary[d], proc)
    BY <1>1 DEF Sound, Attended, BeatOK
  <1>5. HandoverOK(e.row, e.loc, summary[d], session)
    BY <1>1 DEF Sound, HandoverOK
  <1>6. e.row = inbox[d]
    BY <1>1
  <1> QED
    BY <1>2, <1>3, <1>4, <1>5, <1>6, MemoKeeps

\* Frames that start work are only ever sent of work this session was given.
LEMMA NoStart ==
    ASSUME IInv, NEW d \in Dispatch, NEW q, LeftOf(q),
           \/ summary[d].placement # "computer"
           \/ summary[d].sess < session
           \/ inbox[d].state \in Closed
    PROVE  Quiet(d, q)
  <1> SUFFICES ASSUME NEW i \in DOMAIN q, Starts(q[i]), q[i].d = d PROVE FALSE
    BY DEF Quiet
  <1> PICK k \in Nat : \A j \in DOMAIN q : j + k \in DOMAIN toDevice /\ q[j] = toDevice[j + k]
    BY DEF LeftOf
  <1>1. ToDeviceOK(q[i], inbox[d], summary[d], session)
    BY DEF IInv, FramesOK
  <1>2. summary[d].sess \in Nat /\ session \in Nat
    BY SummaryTyped DEF IInv
  <1>3. ~Ends(q[i]) /\ q[i].type = "dispatch"
    BY DEF Starts, Ends, IsTerminalDispatchState, TerminalDispatchState
  <1> QED
    BY <1>1, <1>2, <1>3 DEF ToDeviceOK

\* A row that nothing is under way for may be closed.
LEMMA CloseKeeps ==
    ASSUME NEW c, Sound(c), NEW q \in InboxType, q.state \in Closed, q.sess = c.row.sess,
           q.cancel = FALSE, q.orphan => c.row.orphan,
           c.row.state # "absent", c.loc.cancel = "idle", c.work.worker # "live",
           c.row.state # "claimed" \/ c.row.cancel \/ c.loc.beat.phase = "idle",
           \/ Ended(summary[c.d])
           \/ summary[c.d].sess < session
           \/ summary[c.d].placement = "none" /\ \A i \in DOMAIN c.out : c.out[i].type # "ack"
    PROVE  LET e == [c EXCEPT !.row = q] IN
           /\ Sound(e) /\ e.d = c.d /\ e.row = q /\ e.loc = c.loc /\ e.work = c.work
           /\ e.out = c.out /\ Attended(e.row, e.loc, proc)
  <1> DEFINE e == [c EXCEPT !.row = q]
  <1>1. /\ e \in Ctx /\ e.d = c.d /\ e.row = q /\ e.loc = c.loc /\ e.work = c.work
        /\ e.out = c.out
    BY DEF Sound, Ctx
  <1> HIDE DEF e
  <1>2. q.state \notin Executable \cup {"absent", "terminal_pending"}
    BY DEF Closed, Executable
  <1>3. RowOK(q, session) /\ WorkOK(q, c.work) /\ MemoryOK(q, c.loc, c.work)
    BY <1>2 DEF Sound, RowOK, WorkOK, MemoryOK, Executable
  <1>4. Attended(q, c.loc, proc) /\ BeatOK(q, c.loc, summary[c.d], proc)
    BY <1>2 DEF Sound, Attended, BeatOK, Executable
  <1>5. HandoverOK(q, c.loc, summary[c.d], session)
    BY <1>2 DEF Sound, HandoverOK, Executable
  <1>6. ASSUME NEW i \in DOMAIN c.out
        PROVE  c.out[i].d = c.d /\ ToGateOK(c.out[i], q, summary[c.d], session)
    BY <1>2, <1>6 DEF Sound, ToGateOK, Executable
  <1>7. Sound(e)
    BY <1>1, <1>3, <1>4, <1>5, <1>6 DEF Sound
  <1> QED
    BY <1>1, <1>4, <1>7 DEF e

\* Closing a row, or making it a receipt, changes its state only.
LEMMA MarkFields ==
    ASSUME NEW r \in InboxType, NEW state \in {"terminal_pending"} \cup Closed
    PROVE  LET q == [r EXCEPT !.state = state] IN
           /\ q \in InboxType /\ q.state = state /\ q.sess = r.sess /\ q.cancel = r.cancel
           /\ q.orphan = r.orphan /\ q.outcome = r.outcome
  BY DEF InboxType, Unfinished, Closed

\* A receipt the gate has settled.
LEMMA MarkTerminalKeeps ==
    ASSUME NEW c, Sound(c), c.row.state \in {"terminal_pending"} \cup Closed,
           Ended(summary[c.d])
    PROVE  LET e == [c EXCEPT !.row = MarkTerminal(@)] IN
           /\ Sound(e) /\ e.d = c.d /\ e.loc = c.loc
           /\ Later(c.row, e.row) /\ Attended(e.row, e.loc, proc)
  <1>0. c \in Ctx /\ c.row \in InboxType
    BY DEF Sound, Ctx
  <1>1. CASE c.row.cancel
    <2>1. [c EXCEPT !.row = MarkTerminal(@)] = c
      BY <1>0, <1>1 DEF MarkTerminal, Ctx
    <2> QED
      BY <1>1, <2>1 DEF Later, Attended
  <1>2. CASE ~c.row.cancel
    <2> DEFINE q == [c.row EXCEPT !.state = "terminal"]
    <2>1. /\ q \in InboxType /\ q.state = "terminal" /\ q.sess = c.row.sess
          /\ q.cancel = c.row.cancel /\ q.orphan = c.row.orphan
      BY <1>0, MarkFields DEF Closed
    <2>2. [c EXCEPT !.row = MarkTerminal(@)] = [c EXCEPT !.row = q]
      BY <1>0, <1>2 DEF MarkTerminal
    <2> HIDE DEF q
    <2>3. /\ c.row.state # "absent" /\ c.row.state # "claimed" /\ c.row.state # "running"
          /\ q.cancel = FALSE
      BY <1>0, <1>2, <2>1 DEF Closed, InboxType
    <2>4. c.loc.cancel = "idle" /\ c.work.worker # "live"
      BY <1>2, <2>3 DEF Sound, MemoryOK, WorkOK
    <2>5. q.state \in Closed /\ (q.orphan => c.row.orphan)
      BY <2>1 DEF Closed
    <2>6. LET e == [c EXCEPT !.row = q] IN
          /\ Sound(e) /\ e.d = c.d /\ e.row = q /\ e.loc = c.loc /\ e.work = c.work
          /\ e.out = c.out /\ Attended(e.row, e.loc, proc)
      BY <2>1, <2>3, <2>4, <2>5, CloseKeeps, ZenonT(40)
    <2> QED
      BY <2>1, <2>2, <2>6 DEF Later, Executable
  <1> QED
    BY <1>1, <1>2

\* A run that is over, and not to be reported as somebody's cancellation,
\* becomes a receipt.
LEMMA ReceiptKeeps ==
    ASSUME NEW c, Sound(c), ~c.row.cancel, c.row.state \notin {"absent", "claimed", "accepted"},
           c.work.worker # "live", c.out = <<>>, NEW outcome \in Outcome
    PROVE  LET e == [c EXCEPT !.row = MarkTerminalPending(@, outcome)] IN
           /\ Sound(e) /\ e.d = c.d /\ e.loc = c.loc
           /\ Later(c.row, e.row) /\ e.row.state \in {"terminal_pending"} \cup Closed
           /\ e.row.state \in Closed => c.row.state \in Closed
  <1>0. c \in Ctx /\ c.row \in InboxType
    BY DEF Sound, Ctx
  <1>1. CASE c.row.state \notin Unfinished
    <2>1. [c EXCEPT !.row = MarkTerminalPending(@, outcome)] = c
      BY <1>0, <1>1 DEF MarkTerminalPending, Ctx
    <2> QED
      BY <1>0, <1>1, <2>1 DEF Later, InboxType, Closed
  <1>2. CASE c.row.state \in Unfinished
    <2> DEFINE q == [c.row EXCEPT !.state = "terminal_pending", !.outcome = outcome]
               e == [c EXCEPT !.row = MarkTerminalPending(@, outcome)]
    <2>1. /\ q \in InboxType /\ q.state = "terminal_pending" /\ q.sess = c.row.sess
          /\ q.cancel = c.row.cancel /\ q.orphan = c.row.orphan /\ q.outcome = outcome
      BY <1>0 DEF InboxType, Unfinished
    <2>2. MarkTerminalPending(c.row, outcome) = q
      BY <1>2 DEF MarkTerminalPending
    <2> HIDE DEF q
    <2>3. /\ e \in Ctx /\ e.d = c.d /\ e.row = q /\ e.loc = c.loc /\ e.work = c.work
          /\ e.out = <<>>
      BY <1>0, <2>1, <2>2 DEF Ctx
    <2> HIDE DEF e
    <2>4. RowOK(e.row, session) /\ WorkOK(e.row, e.work) /\ MemoryOK(e.row, e.loc, e.work)
      BY <2>1, <2>3 DEF Sound, RowOK, WorkOK, MemoryOK, Outcome
    <2>5. BeatOK(e.row, e.loc, summary[e.d], proc)
      BY <2>1, <2>3 DEF Sound, BeatOK
    <2>6. HandoverOK(e.row, e.loc, summary[e.d], session)
      BY <2>1, <2>3 DEF Sound, HandoverOK, Executable, Closed
    <2>7. Sound(e)
      BY <2>3, <2>4, <2>5, <2>6 DEF Sound
    <2> QED
      BY <2>1, <2>3, <2>7 DEF Later, Executable, Closed, e
  <1> QED
    BY <1>1, <1>2

\* The task is over: everything but Attended still holds.
LEMMA TaskOver ==
    ASSUME IInv, NEW d \in Dispatch
    PROVE  LET c == [Context(d) EXCEPT !.loc.task = "idle"] IN
           /\ Sound(c) /\ c.d = d /\ c.row = inbox[d] /\ c.work = work[d] /\ c.out = <<>>
           /\ c.loc.beat = local[d].beat
  <1> DEFINE b == Context(d)
             c == [b EXCEPT !.loc.task = "idle"]
  <1>1. /\ Sound(b) /\ b.d = d /\ b.row = inbox[d] /\ b.loc = local[d]
        /\ b.work = work[d] /\ b.out = <<>>
    BY ContextSound
  <1> HIDE DEF b
  <1>2. /\ c \in Ctx /\ c.d = d /\ c.row = b.row /\ c.work = b.work /\ c.out = b.out
        /\ c.loc.offer = b.loc.offer /\ c.loc.beat = b.loc.beat /\ c.loc.task = "idle"
        /\ c.loc.cancel = b.loc.cancel /\ c.loc.flush = b.loc.flush
    BY <1>1 DEF Sound, Ctx, LocalType
  <1> HIDE DEF c
  <1>3. MemoryOK(c.row, c.loc, c.work) /\ BeatOK(c.row, c.loc, summary[c.d], proc)
    BY <1>1, <1>2 DEF Sound, MemoryOK, BeatOK
  <1>4. HandoverOK(c.row, c.loc, summary[c.d], session)
    BY <1>1, <1>2 DEF Sound, HandoverOK
  <1>5. Sound(c)
    BY <1>1, <1>2, <1>3, <1>4 DEF Sound
  <1> QED
    BY <1>1, <1>2, <1>5 DEF c, b

\* The call to the worker returns: the row becomes a receipt.
LEMMA RunReturnsKeeps ==
    ASSUME IInv, NEW d \in Dispatch, RunReturns(d), Stays
    PROVE  IInv'
  <1> DEFINE c == [Context(d) EXCEPT !.loc.task = "idle"]
  <1>1. Sound(c) /\ c.d = d /\ c.row = inbox[d] /\ c.work = work[d] /\ c.out = <<>>
    BY TaskOver
  <1>2. /\ UNCHANGED <<session, proc, sock, gateVars, counters>> /\ toDevice' = toDevice
        /\ work[d].worker \in {"done", "stopped"}
    BY DEF RunReturns, Keep, Stays
  <1>3. /\ c.row.state \notin {"absent", "claimed", "accepted"} /\ c.work.worker # "live"
    BY <1>1, <1>2 DEF Sound, WorkOK
  <1> SUFFICES ASSUME NEW m, Sound(m), m.d = d, Later(c.row, m.row),
                      m.row.state \notin {"absent", "claimed"},
                      m.row.cancel \/ m.row.state # "running",
                      m.row.state \in Closed => c.row.state \in Closed,
                      Take(Join(FlushTerminal(m)))
               PROVE  IInv'
    <2>1. CASE Take(Join(FlushTerminal(c)))
               /\ (\/ c.row.cancel \/ c.row.state = "terminal"
                   \/ c.row.state = "terminal_pending" /\ c.row.outcome = "canceled")
      <3>1. Later(c.row, c.row) /\ (c.row.cancel \/ c.row.state # "running")
        BY <2>1 DEF Later
      <3> HIDE DEF c
      <3> QED
        BY <1>1, <1>3, <2>1, <3>1
    <2>2. CASE \E outcome \in Outcome :
                  /\ ~c.row.cancel
                  /\ Take(Join(FlushTerminal([c EXCEPT !.row = MarkTerminalPending(@, outcome)])))
      <3> PICK outcome \in Outcome :
                  /\ ~c.row.cancel
                  /\ Take(Join(FlushTerminal([c EXCEPT !.row = MarkTerminalPending(@, outcome)])))
        BY <2>2
      <3> DEFINE m == [c EXCEPT !.row = MarkTerminalPending(@, outcome)]
      <3> HIDE DEF c
      <3>1. /\ Sound(m) /\ m.d = c.d
            /\ Later(c.row, m.row) /\ m.row.state \in {"terminal_pending"} \cup Closed
            /\ m.row.state \in Closed => c.row.state \in Closed
        BY <1>1, <1>3, ReceiptKeeps
      <3>2. Take(Join(FlushTerminal(m)))
        OBVIOUS
      <3> HIDE DEF m
      <3> QED
        BY <1>1, <3>1, <3>2 DEF Closed
    <2>3. \/ /\ Take(Join(FlushTerminal(c)))
             /\ \/ c.row.cancel \/ c.row.state = "terminal"
                \/ c.row.state = "terminal_pending" /\ c.row.outcome = "canceled"
          \/ \E outcome \in Outcome :
                  /\ ~c.row.cancel
                  /\ Take(Join(FlushTerminal([c EXCEPT !.row = MarkTerminalPending(@, outcome)])))
      BY DEF RunReturns, Outcome
    <2> QED
      BY <2>1, <2>2, <2>3
  <1> DEFINE f == FlushTerminal(m)
             e == Join(f)
  <1>4. Sound(f) /\ f.d = d /\ f.row = m.row
    BY FlushKeeps
  <1> HIDE DEF f
  <1>5. Sound(e) /\ e.d = d /\ e.row = m.row
    BY <1>4, JoinKeeps
  <1>6. Take(e)
    BY DEF f
  <1> HIDE DEF e, c
  <1>7. Attended(e.row, e.loc, proc) /\ Later(inbox[d], e.row)
    BY <1>1, <1>5 DEF Attended
  <1> QED
    BY <1>1, <1>2, <1>5, <1>6, <1>7, TakeKeeps

\* The call to the worker fails, and the run may go on.
LEMMA RunThrowsKeeps ==
    ASSUME IInv, NEW d \in Dispatch, RunThrows(d), Stays
    PROVE  IInv'
  <1> DEFINE c == [Context(d) EXCEPT !.loc.task = "idle"]
             s == StageAndRetry(c, "failed", FALSE)
             e == IF c.row.cancel \/ c.row.state \in {"terminal_pending", "terminal"} THEN c ELSE Join(s)
  <1>1. Sound(c) /\ c.d = d /\ c.row = inbox[d] /\ c.work = work[d] /\ c.out = <<>>
    BY TaskOver
  <1>2. /\ UNCHANGED <<session, proc, sock, gateVars, counters>> /\ toDevice' = toDevice
        /\ local[d].task = "run" /\ Take(e)
    BY DEF RunThrows, Keep, Stays
  <1>3. c.row.state # "absent" /\ (c.row.state = "claimed" => c.row.cancel)
    BY <1>1, <1>2 DEF IInv, DispatchOK, MemoryOK
  <1> HIDE DEF c
  <1>4. CASE c.row.cancel \/ c.row.state \in {"terminal_pending", "terminal"}
    <2>1. e = c /\ Attended(c.row, c.loc, proc) /\ Later(inbox[d], c.row)
      BY <1>1, <1>4 DEF Attended, Later
    <2> QED
      BY <1>1, <1>2, <2>1, TakeKeeps
  <1>5. CASE ~(c.row.cancel \/ c.row.state \in {"terminal_pending", "terminal"})
    <2>1. c.row.state # "claimed"
      BY <1>3, <1>5
    <2>2. /\ Sound(s) /\ s.d = d /\ s.row.state = c.row.state
          /\ (c.row.state \in Unfinished => s.row.cancel)
      BY <1>1, <2>1, StageKeeps DEF Outcome
    <2> HIDE DEF s
    <2>3. Sound(Join(s)) /\ Join(s).d = d /\ Join(s).row = s.row
      BY <1>3, <2>1, <2>2, JoinKeeps
    <2>4. e = Join(s)
      BY <1>5
    <2> HIDE DEF e
    <2>5. Attended(e.row, e.loc, proc) /\ Later(inbox[d], e.row)
      BY <1>1, <2>2, <2>3, <2>4 DEF Attended, Later, Unfinished, Executable
    <2> QED
      BY <1>1, <1>2, <2>2, <2>3, <2>4, <2>5, TakeKeeps
  <1> QED
    BY <1>4, <1>5

\* What a heartbeat finds still owed is tried again.
LEMMA RetryOwedKeeps ==
    ASSUME IInv, NEW d \in Dispatch, RetryOwed(d), Stays
    PROVE  IInv'
  <1> DEFINE c == Context(d)
             r == RetryCancellation(c)
             e == FlushTerminal(r)
  <1>1. /\ Sound(c) /\ c.d = d /\ c.row = inbox[d] /\ Attended(c.row, c.loc, proc)
    BY ContextSound
  <1>2. /\ UNCHANGED <<session, proc, sock, gateVars, counters>> /\ toDevice' = toDevice
        /\ Take(e)
    BY DEF RetryOwed, Keep, Stays
  <1> HIDE DEF c
  <1>3. Sound(r) /\ r.d = d /\ r.row = c.row /\ r.loc.task = c.loc.task
    BY <1>1, RetryKeeps
  <1> HIDE DEF r
  <1>4. Sound(e) /\ e.d = d /\ e.row = c.row /\ e.loc.task = c.loc.task
    BY <1>3, FlushKeeps
  <1> HIDE DEF e
  <1>5. Attended(e.row, e.loc, proc) /\ Later(inbox[d], e.row)
    BY <1>1, <1>4 DEF Attended, Later
  <1> QED
    BY <1>1, <1>2, <1>4, <1>5, TakeKeeps

\* The worker has confirmed that nothing runs any more.
LEMMA CancelExecutionKeeps ==
    ASSUME IInv, NEW d \in Dispatch, CancelExecution(d), Stays
    PROVE  IInv'
  <1> DEFINE c == Context(d)
             e == [c EXCEPT !.loc.cancel = "done",
                            !.work.worker = IF @ = "live" THEN "stopped" ELSE @]
  <1>1. /\ Sound(c) /\ c.d = d /\ c.row = inbox[d] /\ c.loc = local[d]
        /\ c.work = work[d] /\ c.out = <<>> /\ Attended(c.row, c.loc, proc)
    BY ContextSound
  <1>2. /\ UNCHANGED <<session, proc, sock, gateVars, counters>> /\ toDevice' = toDevice
        /\ Take(e) /\ local[d].cancel = "rpc"
    BY DEF CancelExecution, Keep, Stays
  <1> HIDE DEF c
  <1>3. c.loc \in LocalType /\ c.work \in WorkType /\ c \in Ctx
    BY <1>1 DEF Sound, Ctx
  <1>4. /\ e \in Ctx /\ e.d = d /\ e.row = c.row /\ e.out = <<>>
        /\ e.loc.offer = c.loc.offer /\ e.loc.beat = c.loc.beat /\ e.loc.task = c.loc.task
        /\ e.loc.cancel = "done" /\ e.loc.flush = c.loc.flush
        /\ e.work.launches = c.work.launches
        /\ e.work.worker = IF c.work.worker = "live" THEN "stopped" ELSE c.work.worker
    BY <1>1, <1>3 DEF Ctx, LocalType, WorkType
  <1> HIDE DEF e
  <1>5. WorkOK(e.row, e.work) /\ MemoryOK(e.row, e.loc, e.work)
    BY <1>1, <1>2, <1>4 DEF Sound, WorkOK, MemoryOK
  <1>6. Attended(e.row, e.loc, proc) /\ BeatOK(e.row, e.loc, summary[d], proc)
    BY <1>1, <1>4 DEF Sound, Attended, BeatOK
  <1>7. HandoverOK(e.row, e.loc, summary[d], session)
    BY <1>1, <1>4 DEF Sound, HandoverOK
  <1> QED
    BY <1>1, <1>2, <1>4, <1>5, <1>6, <1>7, MemoKeeps

\* The run is joined: a row of a retired session is orphaned, any other
\* becomes a receipt.
LEMMA AcknowledgeKeeps ==
    ASSUME Typed, NEW c, Sound(c), c.row.cancel, c.work.worker # "live", c.loc.cancel = "idle",
           c.out = <<>>
    PROVE  LET e == [c EXCEPT !.row = AcknowledgeCancellation(@)] IN
           /\ Sound(e) /\ e.d = c.d /\ Later(c.row, e.row) /\ Attended(e.row, e.loc, proc)
           /\ e.row.state \in Closed => c.row.orphan
           /\ c.row.orphan => summary[c.d].sess < session
           /\ e.row.state # "absent"
  <1>0. /\ c \in Ctx /\ c.row \in InboxType /\ c.row.sess \in Nat /\ c.row.state # "absent"
        /\ c.row.outcome # "none" /\ c.d \in Dispatch
    BY DEF Sound, Ctx, InboxType, MemoryOK, RowOK
  <1>1. c.row.orphan => summary[c.d].sess < session
    BY <1>0, SummaryTyped DEF Sound, RowOK, HandoverOK
  <1> DEFINE state == IF c.row.orphan THEN "orphaned" ELSE "terminal_pending"
             q == [c.row EXCEPT !.state = state, !.cancel = FALSE, !.orphan = FALSE]
             e == [c EXCEPT !.row = q]
  <1>2. /\ q \in InboxType /\ q.state = state /\ q.sess = c.row.sess
        /\ q.cancel = FALSE /\ q.orphan = FALSE /\ q.outcome = c.row.outcome
    BY <1>0 DEF InboxType, Unfinished
  <1>3. [c EXCEPT !.row = AcknowledgeCancellation(@)] = e
    BY <1>0 DEF AcknowledgeCancellation
  <1> HIDE DEF q
  <1>4. CASE c.row.orphan
    <2>1. q.state = "orphaned"
      BY <1>2, <1>4
    <2>2. /\ Sound(e) /\ e.d = c.d /\ e.row = q /\ Attended(e.row, e.loc, proc)
      BY <1>0, <1>1, <1>2, <1>4, <2>1, CloseKeeps DEF Closed
    <2> HIDE DEF e
    <2> QED
      BY <1>1, <1>3, <1>4, <2>1, <2>2 DEF Later, Executable
  <1>5. CASE ~c.row.orphan
    <2>1. q.state = "terminal_pending"
      BY <1>2, <1>5
    <2>2. /\ e \in Ctx /\ e.d = c.d /\ e.row = q /\ e.loc = c.loc /\ e.work = c.work /\ e.out = <<>>
      BY <1>0, <1>2 DEF Ctx
    <2> HIDE DEF e
    <2>3. RowOK(e.row, session) /\ WorkOK(e.row, e.work) /\ MemoryOK(e.row, e.loc, e.work)
      BY <1>0, <1>2, <2>1, <2>2 DEF Sound, RowOK, WorkOK, MemoryOK
    <2>4. BeatOK(e.row, e.loc, summary[e.d], proc) /\ Attended(e.row, e.loc, proc)
      BY <2>1, <2>2 DEF Sound, BeatOK, Attended
    <2>5. HandoverOK(e.row, e.loc, summary[e.d], session)
      BY <1>0, <1>2, <2>1, <2>2 DEF Sound, HandoverOK, Executable, Closed
    <2>6. Sound(e)
      BY <2>2, <2>3, <2>4, <2>5 DEF Sound
    <2> QED
      BY <1>1, <1>3, <1>5, <2>1, <2>2, <2>4, <2>6 DEF Later, Executable, Closed
  <1> QED
    BY <1>4, <1>5

\* A claim that is handed back.
LEMMA ReleaseKeeps ==
    ASSUME Typed, NEW c, Sound(c), c.row.state = "claimed", c.row.cancel, c.loc.cancel = "idle",
           c.out = <<>>
    PROVE  LET e == [Send(c, "release", "none") EXCEPT !.row = AcknowledgeClaimRelease(@)] IN
           /\ Sound(e) /\ e.d = c.d /\ e.row.state = "orphaned" /\ Attended(e.row, e.loc, proc)
  <1> DEFINE s == Send(c, "release", "none")
             q == [c.row EXCEPT !.state = "orphaned", !.cancel = FALSE, !.orphan = FALSE]
  <1>0. c \in Ctx /\ c.row \in InboxType
    BY DEF Sound, Ctx
  <1>1. /\ s \in Ctx /\ s.d = c.d /\ s.row = c.row /\ s.loc = c.loc /\ s.work = c.work
        /\ \A i \in DOMAIN s.out :
              \/ i \in DOMAIN c.out /\ s.out[i] = c.out[i]
              \/ s.out[i] = [type |-> "release", d |-> c.d, outcome |-> "none"]
    BY <1>0, SendFields
  <1>2. \A i \in DOMAIN s.out : s.out[i].d = c.d /\ s.out[i].type = "release"
    BY <1>1
  <1>3. /\ q \in InboxType /\ q.state = "orphaned" /\ q.sess = c.row.sess
        /\ q.cancel = FALSE /\ q.orphan = FALSE
    BY <1>0 DEF InboxType
  <1>4. AcknowledgeClaimRelease(c.row) = q
    BY DEF AcknowledgeClaimRelease
  <1> HIDE DEF s, q
  <1>5. Sound(s)
    BY <1>1, <1>2 DEF Sound, ToGateOK
  <1>6. [s EXCEPT !.row = AcknowledgeClaimRelease(@)] = [s EXCEPT !.row = q]
    BY <1>1, <1>4 DEF Ctx
  <1>7. s.work.worker # "live" /\ summary[s.d].placement \in {"none", "cloud"}
    <2>1. summary[s.d].placement \in {"none", "computer", "cloud"}
      BY <1>1, SummaryTyped DEF Ctx
    <2> QED
      BY <1>1, <2>1 DEF Sound, WorkOK, HandoverOK
  <1>8. LET e == [s EXCEPT !.row = q] IN
        Sound(e) /\ e.d = s.d /\ e.row = q /\ Attended(e.row, e.loc, proc)
    <2>1. \/ Ended(summary[s.d])
          \/ summary[s.d].placement = "none" /\ \A i \in DOMAIN s.out : s.out[i].type # "ack"
      BY <1>2, <1>7 DEF Ended
    <2>2. /\ s.row.state # "absent" /\ s.row.cancel /\ s.loc.cancel = "idle"
          /\ q.state \in Closed /\ q.sess = s.row.sess
      BY <1>1, <1>3 DEF Closed
    <2> QED
      BY <1>3, <1>5, <1>7, <2>1, <2>2, CloseKeeps
  <1> QED
    BY <1>1, <1>3, <1>6, <1>8 DEF s

\* Everything a settled cancellation may leave.
LEMMA CancelJoinedKeeps ==
    ASSUME IInv, NEW d \in Dispatch, CancelJoined(d), Stays
    PROVE  IInv'
  <1> DEFINE b == Context(d)
             c == [b EXCEPT !.loc.cancel = "idle"]
             e == Joined(c)
  <1>1. /\ Sound(b) /\ b.d = d /\ b.row = inbox[d] /\ b.loc = local[d]
        /\ b.work = work[d] /\ b.out = <<>> /\ Attended(b.row, b.loc, proc)
    BY ContextSound
  <1>2. /\ UNCHANGED <<session, proc, sock, gateVars, counters>> /\ toDevice' = toDevice
        /\ Take(e) /\ local[d].cancel = "done"
    BY DEF CancelJoined, Keep, Stays
  <1> HIDE DEF b
  <1>3. /\ c \in Ctx /\ c.d = d /\ c.row = inbox[d] /\ c.work = work[d] /\ c.out = <<>>
        /\ c.loc.offer = b.loc.offer /\ c.loc.beat = b.loc.beat /\ c.loc.task = b.loc.task
        /\ c.loc.cancel = "idle" /\ c.loc.flush = b.loc.flush
    BY <1>1 DEF Sound, Ctx, LocalType
  <1> HIDE DEF c
  <1>4. Sound(c) /\ Attended(c.row, c.loc, proc)
    <2>1. MemoryOK(c.row, c.loc, c.work) /\ BeatOK(c.row, c.loc, summary[c.d], proc)
      BY <1>1, <1>3 DEF Sound, MemoryOK, BeatOK
    <2>2. HandoverOK(c.row, c.loc, summary[c.d], session) /\ Attended(c.row, c.loc, proc)
      BY <1>1, <1>3 DEF Sound, HandoverOK, Attended
    <2> QED
      BY <1>1, <1>3, <2>1, <2>2 DEF Sound
  <1>5. c.row.cancel /\ c.work.worker # "live"
    BY <1>1, <1>2, <1>3 DEF Sound, MemoryOK
  <1> DEFINE a == [c EXCEPT !.row = AcknowledgeCancellation(@)]
  <1>6. /\ Sound(a) /\ a.d = d /\ Later(c.row, a.row) /\ Attended(a.row, a.loc, proc)
        /\ a.row.state \in Closed => c.row.orphan
        /\ c.row.orphan => summary[d].sess < session
    BY <1>3, <1>4, <1>5, AcknowledgeKeeps DEF IInv
  <1>7. summary[d].sess < session => Quiet(d, toDevice')
    BY <1>2, NoStart, LeftOvers DEF IInv
  <1>8. CASE e = c
    BY <1>2, <1>3, <1>4, <1>8, TakeKeeps DEF Later
  <1>9. CASE e = a
    <2> HIDE DEF a, e
    <2>1. a.row.state \in Closed => MayClose(d, toDevice', session)
      BY <1>6, <1>7 DEF MayClose
    <2> QED
      BY <1>2, <1>3, <1>6, <1>9, <2>1, TakeKeeps
  <1>10. CASE c.row.sess = session /\ e = FlushTerminal(a)
    <2>1. ~c.row.orphan
      BY <1>4, <1>10, <1>3 DEF Sound, RowOK, Ctx, InboxType
    <2> DEFINE f == FlushTerminal(a)
    <2> HIDE DEF a, e
    <2>2. Sound(f) /\ f.d = a.d /\ f.row = a.row /\ f.loc.task = a.loc.task
      BY <1>6, FlushKeeps
    <2>3. Take(f)
      BY <1>2, <1>10
    <2> HIDE DEF f
    <2>4. Attended(f.row, f.loc, proc) /\ Later(inbox[d], f.row) /\ f.row.state \notin Closed
      BY <1>3, <1>6, <2>1, <2>2 DEF Attended
    <2> QED
      BY <1>2, <1>6, <2>2, <2>3, <2>4, TakeKeeps
  <1>11. CASE /\ c.row.state = "claimed"
              /\ e = [Send(c, "release", "none") EXCEPT !.row = AcknowledgeClaimRelease(@)]
    <2> DEFINE f == [Send(c, "release", "none") EXCEPT !.row = AcknowledgeClaimRelease(@)]
    <2>1. Sound(f) /\ f.d = d /\ f.row.state = "orphaned" /\ Attended(f.row, f.loc, proc)
      BY <1>3, <1>4, <1>5, <1>11, ReleaseKeeps DEF IInv
    <2>2. Take(f)
      BY <1>2, <1>11
    <2> HIDE DEF f
    <2>3. summary[d].placement # "computer"
      BY <1>3, <1>4, <1>11 DEF Sound, HandoverOK
    <2>4. MayClose(d, toDevice', session)
      BY <1>2, <1>3, <1>11, <2>3, NoStart, LeftOvers DEF IInv, MayClose
    <2>5. Later(inbox[d], f.row)
      BY <2>1 DEF Later, Executable
    <2> QED
      BY <1>2, <2>1, <2>2, <2>4, <2>5, TakeKeeps
  <1> QED
    BY <1>5, <1>8, <1>9, <1>10, <1>11 DEF Joined

\* A receipt that nobody awaits any more.
LEMMA FlushOver ==
    ASSUME IInv, NEW d \in Dispatch
    PROVE  LET c == [Context(d) EXCEPT !.loc.flush = "idle"] IN
           /\ Sound(c) /\ Attended(c.row, c.loc, proc)
           /\ c.d = d /\ c.row = inbox[d]
  <1> DEFINE b == Context(d)
             c == [b EXCEPT !.loc.flush = "idle"]
  <1>1. /\ Sound(b) /\ b.d = d /\ b.row = inbox[d] /\ b.loc = local[d]
        /\ b.work = work[d] /\ b.out = <<>> /\ Attended(b.row, b.loc, proc)
    BY ContextSound
  <1> HIDE DEF b
  <1>2. /\ c \in Ctx /\ c.d = d /\ c.row = b.row /\ c.work = b.work /\ c.out = b.out
        /\ c.loc.offer = b.loc.offer /\ c.loc.beat = b.loc.beat /\ c.loc.task = b.loc.task
        /\ c.loc.cancel = b.loc.cancel /\ c.loc.flush = "idle"
    BY <1>1 DEF Sound, Ctx, LocalType
  <1> HIDE DEF c
  <1>3. MemoryOK(c.row, c.loc, c.work) /\ BeatOK(c.row, c.loc, summary[c.d], proc)
    BY <1>1, <1>2 DEF Sound, MemoryOK, BeatOK
  <1>4. HandoverOK(c.row, c.loc, summary[c.d], session) /\ Attended(c.row, c.loc, proc)
    BY <1>1, <1>2 DEF Sound, HandoverOK, Attended
  <1>5. Sound(c)
    BY <1>1, <1>2, <1>3, <1>4 DEF Sound
  <1> QED
    BY <1>1, <1>2, <1>4, <1>5 DEF c, b

\* A status read settles a receipt.  Were a frame slower than the timeout, a
\* start could still be under way.
LEMMA FlushAsksKeeps ==
    ASSUME IInv, PromptFrames, NEW d \in Dispatch, NothingInFlight, FlushAsks(d, summary[d]), Stays
    PROVE  IInv'
  <1> DEFINE b == Context(d)
             c == [b EXCEPT !.loc.flush = "idle"]
             ended == IsTerminalDispatchState(summary[d].state)
             e == [c EXCEPT !.row = IF ended THEN MarkTerminal(@) ELSE @]
  <1>1. /\ Sound(b) /\ b.d = d /\ b.row = inbox[d] /\ b.loc = local[d]
        /\ b.work = work[d] /\ b.out = <<>> /\ Attended(b.row, b.loc, proc)
    BY ContextSound
  <1>2. /\ UNCHANGED <<session, proc, sock, gateVars, counters>> /\ toDevice' = toDevice
        /\ local[d].flush = "ask"
        /\ Take([b EXCEPT !.loc.flush = "idle", !.row = IF ended THEN MarkTerminal(@) ELSE @])
        /\ toDevice = <<>>
    BY DEF FlushAsks, Keep, Stays, NothingInFlight
  <1> HIDE DEF b, ended
  <1>3. Sound(c) /\ Attended(c.row, c.loc, proc) /\ c.d = d /\ c.row = inbox[d]
    BY FlushOver DEF b
  <1>4. Take(e)
    <2>1. [b EXCEPT !.loc.flush = "idle", !.row = IF ended THEN MarkTerminal(@) ELSE @] = e
      BY <1>1 DEF Sound, Ctx, LocalType
    <2> QED
      BY <1>2, <2>1
  <1> HIDE DEF c
  <1>6. CASE ~ended
    <2>1. e = c
      BY <1>3, <1>6 DEF Ctx, Sound
    <2> QED
      BY <1>2, <1>3, <1>4, <2>1, TakeKeeps DEF Later
  <1>7. CASE ended
    <2>1. e = [c EXCEPT !.row = MarkTerminal(@)]
      BY <1>7
    <2>2. c.row.state \in {"terminal_pending"} \cup Closed /\ Ended(summary[c.d])
      BY <1>1, <1>2, <1>3, <1>7 DEF Sound, MemoryOK, Ended, ended
    <2>3. Sound(e) /\ e.d = c.d /\ Later(c.row, e.row) /\ Attended(e.row, e.loc, proc)
      BY <1>3, <2>1, <2>2, MarkTerminalKeeps
    <2> HIDE DEF e
    <2>4. MayClose(d, toDevice', session)
      BY <1>2, <1>3, <2>2 DEF MayClose, Quiet
    <2> QED
      BY <1>2, <1>3, <1>4, <2>3, <2>4, TakeKeeps
  <1> QED
    BY <1>6, <1>7

\* A heartbeat that holds nothing.
LEMMA NoBeatFields ==
    /\ NoBeat.phase = "idle"
    /\ NoBeat \in [phase : {"idle", "row", "asked"}, row : InboxType,
                   state : DispatchState \cup {"absent"}, placement : {"none", "computer", "cloud"}]
  BY DEF NoBeat, NoInboxRow, InboxType

\* A heartbeat that lets go of its row.
LEMMA BeatOver ==
    ASSUME IInv, NEW d \in Dispatch
    PROVE  LET c == [Context(d) EXCEPT !.loc.beat = NoBeat] IN
           /\ Sound(c) /\ Attended(c.row, c.loc, proc)
           /\ c.d = d /\ c.row = inbox[d] /\ c.work = work[d] /\ c.out = <<>>
           /\ c.loc.beat.phase = "idle" /\ c.loc.task = local[d].task
           /\ c.loc.cancel = local[d].cancel
  <1> DEFINE b == Context(d)
             c == [b EXCEPT !.loc.beat = NoBeat]
  <1>1. /\ Sound(b) /\ b.d = d /\ b.row = inbox[d] /\ b.loc = local[d]
        /\ b.work = work[d] /\ b.out = <<>> /\ Attended(b.row, b.loc, proc)
    BY ContextSound
  <1> HIDE DEF b
  <1>2. /\ c \in Ctx /\ c.d = d /\ c.row = b.row /\ c.work = b.work /\ c.out = b.out
        /\ c.loc.offer = b.loc.offer /\ c.loc.beat = NoBeat /\ c.loc.task = b.loc.task
        /\ c.loc.cancel = b.loc.cancel /\ c.loc.flush = b.loc.flush
    BY <1>1, NoBeatFields DEF Sound, Ctx, LocalType
  <1> HIDE DEF c
  <1>3. MemoryOK(c.row, c.loc, c.work) /\ BeatOK(c.row, c.loc, summary[c.d], proc)
    BY <1>1, <1>2, NoBeatFields DEF Sound, MemoryOK, BeatOK
  <1>4. HandoverOK(c.row, c.loc, summary[c.d], session) /\ Attended(c.row, c.loc, proc)
    BY <1>1, <1>2 DEF Sound, HandoverOK, Attended
  <1>5. Sound(c)
    BY <1>1, <1>2, <1>3, <1>4 DEF Sound
  <1> QED
    BY <1>1, <1>2, <1>4, <1>5, NoBeatFields DEF c, b

\* A heartbeat takes hold of a row, or of what the gate says of it.
LEMMA BeatMoves ==
    ASSUME IInv, NEW d \in Dispatch, NEW beat, NEW e,
           beat \in [phase : {"row", "asked"}, row : InboxType,
                     state : DispatchState \cup {"absent"},
                     placement : {"none", "computer", "cloud"}],
           proc \in {"up", "stopping"}, inbox[d].state # "absent",
           beat.row.state = "claimed" /\ ~beat.row.cancel
             => inbox[d].state = "claimed" /\ ~inbox[d].cancel,
           beat.phase = "asked" => /\ beat.row.state = "claimed" /\ ~beat.row.cancel
                                   /\ Ended(beat) => Ended(summary[d]),
           e = [Context(d) EXCEPT !.loc.beat = beat], Take(e), Keep, Stays
    PROVE  IInv'
  <1> DEFINE c == Context(d)
  <1>1. /\ Sound(c) /\ c.d = d /\ c.row = inbox[d] /\ c.loc = local[d]
        /\ c.work = work[d] /\ c.out = <<>> /\ Attended(c.row, c.loc, proc)
    BY ContextSound
  <1>2. e = [c EXCEPT !.loc.beat = beat]
    OBVIOUS
  <1> HIDE DEF c
  <1>3. beat \in [phase : {"idle", "row", "asked"}, row : InboxType,
                  state : DispatchState \cup {"absent"},
                  placement : {"none", "computer", "cloud"}]
    OBVIOUS
  <1>4. /\ e \in Ctx /\ e.d = d /\ e.row = c.row /\ e.work = c.work /\ e.out = <<>>
        /\ e.loc.offer = c.loc.offer /\ e.loc.beat = beat /\ e.loc.task = c.loc.task
        /\ e.loc.cancel = c.loc.cancel /\ e.loc.flush = c.loc.flush
    <2> DEFINE l == [c.loc EXCEPT !.beat = beat]
    <2>1. c \in Ctx /\ c.loc \in LocalType
      BY <1>1 DEF Sound, Ctx
    <2>2. /\ l \in LocalType /\ l.offer = c.loc.offer /\ l.beat = beat /\ l.task = c.loc.task
          /\ l.cancel = c.loc.cancel /\ l.flush = c.loc.flush
      BY <1>3, <2>1 DEF LocalType
    <2>3. e = [c EXCEPT !.loc = l]
      BY <1>2
    <2> HIDE DEF l
    <2> QED
      BY <1>1, <2>1, <2>2, <2>3 DEF Ctx
  <1>5. WorkOK(e.row, e.work) /\ MemoryOK(e.row, e.loc, e.work)
    BY <1>1, <1>4 DEF Sound, MemoryOK
  <1>6. Attended(e.row, e.loc, proc) /\ BeatOK(e.row, e.loc, summary[d], proc)
    BY <1>1, <1>4 DEF Attended, BeatOK
  <1>7. HandoverOK(e.row, e.loc, summary[d], session)
    BY <1>1, <1>4 DEF Sound, HandoverOK
  <1>8. UNCHANGED <<session, proc, sock, gateVars, counters>> /\ toDevice' = toDevice
    BY DEF Keep, Stays
  <1>9. /\ e.row = inbox[d]
        /\ \A i \in DOMAIN e.out : e.out[i].d = d /\ e.out[i].type \notin {"ack", "complete"}
    BY <1>1, <1>4
  <1> QED
    BY <1>4, <1>5, <1>6, <1>7, <1>8, <1>9, MemoKeeps

\* A heartbeat takes hold of a row.
LEMMA BeatBeginsKeeps ==
    ASSUME IInv, NEW d \in Dispatch, BeatBegins(d), Stays
    PROVE  IInv'
  <1> DEFINE beat == [NoBeat EXCEPT !.phase = "row", !.row = inbox[d]]
  <1>1. /\ proc = "up" /\ inbox[d].state \in Executable
        /\ Take([Context(d) EXCEPT !.loc.beat = beat]) /\ Keep
    BY DEF BeatBegins
  <1>2. inbox[d] \in InboxType
    BY DEF IInv, Typed
  <1>3. /\ beat \in [phase : {"row", "asked"}, row : InboxType,
                     state : DispatchState \cup {"absent"},
                     placement : {"none", "computer", "cloud"}]
        /\ beat.phase = "row" /\ beat.row = inbox[d]
    BY <1>2 DEF NoBeat
  <1>4. inbox[d].state # "absent"
    BY <1>1 DEF Executable
  <1> HIDE DEF beat
  <1> QED
    BY <1>1, <1>3, <1>4, BeatMoves

\* It reads the status of a claim that nobody answered.
LEMMA BeatAsksKeeps ==
    ASSUME IInv, NEW d \in Dispatch, BeatAsks(d, summary[d]), Stays
    PROVE  IInv'
  <1> DEFINE b == Context(d)
             old == local[d].beat
             beat == [old EXCEPT !.phase = "asked", !.state = summary[d].state,
                                 !.placement = summary[d].placement]
             c == [b EXCEPT !.loc.beat = NoBeat]
             e == [b EXCEPT !.loc.beat.phase = "asked", !.loc.beat.state = summary[d].state,
                            !.loc.beat.placement = summary[d].placement]
  <1>1. /\ old.phase = "row" /\ old.row.state = "claimed" /\ ~old.row.cancel
        /\ Take(c) \/ Take(e)
        /\ Keep
    BY DEF BeatAsks
  <1>2. CASE Take(c)
    <2>1. Sound(c) /\ Attended(c.row, c.loc, proc) /\ c.d = d /\ c.row = inbox[d]
      BY BeatOver
    <2> HIDE DEF c
    <2> QED
      BY <1>1, <1>2, <2>1, TakeKeeps DEF Later, Keep, Stays
  <1>3. CASE Take(e)
    <2>1. old \in [phase : {"idle", "row", "asked"}, row : InboxType,
                   state : DispatchState \cup {"absent"},
                   placement : {"none", "computer", "cloud"}]
      BY DEF IInv, Typed, LocalType
    <2>2. summary[d].state \in DispatchState \cup {"absent"}
          /\ summary[d].placement \in {"none", "computer", "cloud"}
      BY SummaryTyped DEF IInv
    <2>3. BeatOK(inbox[d], local[d], summary[d], proc) /\ MemoryOK(inbox[d], local[d], work[d])
      BY DEF IInv, DispatchOK
    <2>4. /\ proc \in {"up", "stopping"} /\ inbox[d].state = "claimed" /\ ~inbox[d].cancel
      BY <1>1, <2>3 DEF BeatOK
    <2>5. b.loc = local[d] /\ b \in Ctx
      BY ContextSound DEF Sound
    <2> HIDE DEF b
    <2>6. e = [b EXCEPT !.loc.beat = beat]
      BY <2>5, ZenonT(40) DEF Ctx, LocalType
    <2> HIDE DEF old, e
    <2>7. /\ beat \in [phase : {"row", "asked"}, row : InboxType,
                       state : DispatchState \cup {"absent"},
                       placement : {"none", "computer", "cloud"}]
          /\ beat.phase = "asked" /\ beat.row = old.row /\ beat.state = summary[d].state
          /\ beat.placement = summary[d].placement
      BY <2>1, <2>2
    <2>8. Ended(beat) => Ended(summary[d])
      BY <2>7 DEF Ended
    <2> HIDE DEF beat
    <2> QED
      BY <1>1, <1>3, <2>4, <2>6, <2>7, <2>8, BeatMoves DEF b
  <1> QED
    BY <1>1, <1>2, <1>3

\* It renews a lease, or stops a run whose lease is lost.
LEMMA BeatRenewsKeeps ==
    ASSUME IInv, NEW d \in Dispatch, BeatRenews(d), Stays
    PROVE  IInv'
  <1> DEFINE c == [Context(d) EXCEPT !.loc.beat = NoBeat]
             s == Send(c, "renew", "none")
             e == StageAndRetry(c, "canceled", FALSE)
  <1>1. /\ Sound(c) /\ Attended(c.row, c.loc, proc)
        /\ c.d = d /\ c.row = inbox[d] /\ c.work = work[d] /\ c.out = <<>>
        /\ c.loc.beat.phase = "idle"
    BY BeatOver
  <1>2. /\ UNCHANGED <<session, proc, sock, gateVars, counters>> /\ toDevice' = toDevice
        /\ Take(c) \/ Take(s) \/ Take(e)
    BY DEF BeatRenews, Keep, Stays
  <1> HIDE DEF c
  <1>3. CASE Take(c)
    BY <1>1, <1>2, <1>3, TakeKeeps DEF Later
  <1>4. CASE Take(s)
    <2>1. /\ s \in Ctx /\ s.d = d /\ s.row = c.row /\ s.loc = c.loc /\ s.work = c.work
          /\ \A i \in DOMAIN s.out :
                \/ i \in DOMAIN c.out /\ s.out[i] = c.out[i]
                \/ s.out[i] = [type |-> "renew", d |-> c.d, outcome |-> "none"]
      BY <1>1, SendFields DEF Sound
    <2>2. \A i \in DOMAIN s.out : s.out[i].d = d /\ s.out[i].type = "renew"
      BY <1>1, <2>1
    <2> HIDE DEF s
    <2>3. Sound(s)
      BY <1>1, <2>1, <2>2 DEF Sound, ToGateOK
    <2> QED
      BY <1>1, <1>2, <1>4, <2>1, <2>3, TakeKeeps DEF Later
  <1>5. CASE Take(e)
    <2>1. /\ Sound(e) /\ e.d = d /\ e.row.state = c.row.state /\ e.loc.task = c.loc.task
          /\ c.row.state \in Unfinished => e.row.cancel
      BY <1>1, StageKeeps DEF Outcome
    <2> HIDE DEF e
    <2>2. Attended(e.row, e.loc, proc) /\ Later(inbox[d], e.row)
      BY <1>1, <2>1 DEF Attended, Later, Unfinished, Executable
    <2> QED
      BY <1>1, <1>2, <1>5, <2>1, <2>2, TakeKeeps
  <1> QED
    BY <1>2, <1>3, <1>4, <1>5

\* It acts on the status it read before.
LEMMA BeatAnsweredKeeps ==
    ASSUME IInv, NEW d \in Dispatch, BeatAnswered(d), Stays
    PROVE  IInv'
  <1> DEFINE b == local[d].beat
             c == [Context(d) EXCEPT !.loc.beat = NoBeat]
             o == [c EXCEPT !.row = MarkOrphaned(@)]
             e == LaunchLocal(c, b.row, b.state)
  <1>1. /\ Sound(c) /\ Attended(c.row, c.loc, proc)
        /\ c.d = d /\ c.row = inbox[d] /\ c.work = work[d] /\ c.out = <<>>
        /\ c.loc.beat.phase = "idle" /\ c.loc.cancel = local[d].cancel
    BY BeatOver
  <1>2. /\ UNCHANGED <<session, proc, sock, gateVars, counters>> /\ toDevice' = toDevice
        /\ b.phase = "asked" /\ ((Ended(b) /\ Take(o)) \/ Take(e))
    BY DEF BeatAnswered, Keep, Stays, Ended
  <1>3. /\ b.row.state = "claimed" /\ ~b.row.cancel /\ (Ended(b) => Ended(summary[d]))
        /\ inbox[d].state = "claimed" /\ ~inbox[d].cancel /\ local[d].cancel = "idle"
        /\ work[d].worker # "live" /\ summary[d].placement # "computer"
    <2>1. DispatchOK(d)
      BY DEF IInv
    <2> QED
      BY <1>2, <2>1 DEF DispatchOK, BeatOK, MemoryOK, WorkOK, HandoverOK
  <1>4. b.row.cancel = FALSE /\ inbox[d].cancel = FALSE
    <2>1. b.row.cancel \in BOOLEAN /\ inbox[d].cancel \in BOOLEAN
      BY DEF IInv, Typed, LocalType, InboxType
    <2> QED
      BY <1>3, <2>1
  <1> HIDE DEF b, c
  <1>5. CASE Ended(b) /\ Take(o)
    <2> DEFINE q == [c.row EXCEPT !.state = "orphaned"]
    <2>0. c \in Ctx /\ c.row \in InboxType
      BY <1>1 DEF Sound, Ctx
    <2>1. /\ q \in InboxType /\ q.state = "orphaned" /\ q.sess = c.row.sess
          /\ q.cancel = c.row.cancel /\ q.orphan = c.row.orphan
      BY <2>0, MarkFields DEF Closed
    <2>2. o = [c EXCEPT !.row = q]
      BY <1>1, <1>4, <2>0 DEF MarkOrphaned
    <2> HIDE DEF q, o
    <2>3. Sound(o) /\ o.d = d /\ o.row = q /\ Attended(o.row, o.loc, proc)
      <3>1. /\ q.state \in Closed /\ q.cancel = FALSE /\ (q.orphan => c.row.orphan)
            /\ c.row.state # "absent" /\ c.loc.cancel = "idle" /\ c.work.worker # "live"
            /\ Ended(summary[c.d])
        BY <1>1, <1>3, <1>4, <1>5, <2>1 DEF Closed
      <3>2. LET x == [c EXCEPT !.row = q] IN
            Sound(x) /\ x.d = c.d /\ x.row = q /\ Attended(x.row, x.loc, proc)
        BY <1>1, <2>1, <3>1, CloseKeeps
      <3> QED
        BY <1>1, <2>2, <3>2
    <2>4. MayClose(d, toDevice', session) /\ Later(inbox[d], o.row)
      BY <1>2, <1>3, <2>1, <2>3, NoStart, LeftOvers DEF IInv, MayClose, Later, Executable
    <2> QED
      BY <1>1, <1>2, <1>5, <2>3, <2>4, TakeKeeps
  <1>6. CASE Take(e)
    <2>1. c.row.state \in Unfinished
      BY <1>1, <1>3 DEF Unfinished, Executable
    <2> DEFINE row == b.row
    <2>0. row.state = c.row.state /\ row.cancel = c.row.cancel
      BY <1>1, <1>3, <1>4
    <2>2. /\ Sound(e) /\ Attended(e.row, e.loc, proc)
          /\ e.d = c.d /\ Later(c.row, e.row) /\ e.row.state \in Unfinished
      <3> HIDE DEF row
      <3>1. LET x == LaunchLocal(c, row, b.state) IN
            /\ Sound(x) /\ Attended(x.row, x.loc, proc)
            /\ x.d = c.d /\ Later(c.row, x.row) /\ x.row.state \in Unfinished
        BY <1>1, <2>0, <2>1, LaunchKeeps, SMTT(30)
      <3> QED
        BY <3>1 DEF row
    <2> HIDE DEF e
    <2>3. e.row.state \notin Closed
      BY <2>2 DEF Unfinished, Executable, Closed
    <2> QED
      BY <1>1, <1>2, <1>6, <2>2, <2>3, TakeKeeps
  <1> QED
    BY <1>2, <1>5, <1>6

-----------------------------------------------------------------------------
(* Frames from the gate.                                                   *)

\* A context that may be taken when q is left of toDevice.
Fit(d, e, q) ==
    /\ Sound(e) /\ e.d = d /\ Attended(e.row, e.loc, proc) /\ Later(inbox[d], e.row)
    /\ e.row.state \in Closed /\ inbox[d].state \notin Closed => MayClose(d, q, session)

\* The context of a dispatch with another offer.
LEMMA OfferMoves ==
    ASSUME IInv, NEW d \in Dispatch, NEW offer \in {"idle", "check"},
           offer = "check" => /\ inbox[d].state = "absent" /\ summary[d].state # "absent"
                              /\ summary[d].placement # "computer"
    PROVE  LET e == [Context(d) EXCEPT !.loc.offer = offer] IN
           /\ Sound(e) /\ Attended(e.row, e.loc, proc)
           /\ e.d = d /\ e.row = inbox[d] /\ e.work = work[d] /\ e.out = <<>>
           /\ e.loc.offer = offer /\ e.loc.task = local[d].task /\ e.loc.cancel = local[d].cancel
           /\ e.loc.flush = local[d].flush /\ e.loc.beat = local[d].beat
  <1> DEFINE c == Context(d)
             e == [c EXCEPT !.loc.offer = offer]
  <1>1. /\ Sound(c) /\ c.d = d /\ c.row = inbox[d] /\ c.loc = local[d]
        /\ c.work = work[d] /\ c.out = <<>> /\ Attended(c.row, c.loc, proc)
    BY ContextSound
  <1> HIDE DEF c
  <1>2. /\ e \in Ctx /\ e.d = d /\ e.row = c.row /\ e.work = c.work /\ e.out = <<>>
        /\ e.loc.offer = offer /\ e.loc.beat = c.loc.beat /\ e.loc.task = c.loc.task
        /\ e.loc.cancel = c.loc.cancel /\ e.loc.flush = c.loc.flush
    BY <1>1 DEF Sound, Ctx, LocalType
  <1> HIDE DEF e
  <1>3. MemoryOK(e.row, e.loc, e.work) /\ BeatOK(e.row, e.loc, summary[e.d], proc)
    BY <1>1, <1>2 DEF Sound, MemoryOK, BeatOK
  <1>4. HandoverOK(e.row, e.loc, summary[e.d], session) /\ Attended(e.row, e.loc, proc)
    BY <1>1, <1>2 DEF Sound, HandoverOK, Attended
  <1>5. Sound(e)
    BY <1>1, <1>2, <1>3, <1>4 DEF Sound
  <1> QED
    BY <1>1, <1>2, <1>4, <1>5 DEF e, c

\* A context that did not change fits.
LEMMA ContextFits ==
    ASSUME IInv, NEW d \in Dispatch, NEW q
    PROVE  Fit(d, Context(d), q)
  BY ContextSound DEF Fit, Later

\* An offer of work the inbox does not know.
LEMMA OfferFits ==
    ASSUME IInv, NEW d \in Dispatch, NEW q, NEW f, f.type = "offer",
           ToDeviceOK(f, inbox[d], summary[d], session)
    PROVE  Fit(d, HandleOffer(Context(d)), q)
  <1>1. CASE HandleOffer(Context(d)) = Context(d)
    BY <1>1, ContextFits
  <1>2. CASE HandleOffer(Context(d)) # Context(d)
    <2> DEFINE e == [Context(d) EXCEPT !.loc.offer = "check"]
    <2>1. HandleOffer(Context(d)) = e /\ Context(d).row.state = "absent"
      BY <1>2 DEF HandleOffer
    <2>2. inbox[d].state = "absent"
      BY <2>1, ContextSound
    <2>3. Sound(e) /\ Attended(e.row, e.loc, proc) /\ e.d = d /\ e.row = inbox[d]
      BY <2>2, OfferMoves DEF ToDeviceOK
    <2> HIDE DEF e
    <2> QED
      BY <2>1, <2>3 DEF Fit, Later
  <1> QED
    BY <1>1, <1>2

\* A withdrawn offer and a claim that could not be persisted.
LEMMA LetGoFits ==
    ASSUME IInv, NEW d \in Dispatch, NEW q
    PROVE  Fit(d, HandleWithdrawn(Context(d)), q) /\ Fit(d, ClaimNotPersisted(Context(d)), q)
  <1> DEFINE c == [Context(d) EXCEPT !.loc.offer = "idle"]
             s == Send(c, "release", "none")
  <1>1. /\ Sound(c) /\ Attended(c.row, c.loc, proc) /\ c.d = d /\ c.row = inbox[d]
        /\ c.out = <<>>
    BY OfferMoves
  <1>2. HandleWithdrawn(Context(d)) \in {Context(d), c}
    BY DEF HandleWithdrawn
  <1>3. ClaimNotPersisted(Context(d)) \in {Context(d), s}
    BY DEF ClaimNotPersisted
  <1> HIDE DEF c
  <1>4. Fit(d, c, q)
    BY <1>1 DEF Fit, Later
  <1>5. /\ s \in Ctx /\ s.d = d /\ s.row = c.row /\ s.loc = c.loc /\ s.work = c.work
        /\ \A i \in DOMAIN s.out :
              \/ i \in DOMAIN c.out /\ s.out[i] = c.out[i]
              \/ s.out[i] = [type |-> "release", d |-> c.d, outcome |-> "none"]
    BY <1>1, SendFields DEF Sound
  <1>6. \A i \in DOMAIN s.out : s.out[i].d = d /\ s.out[i].type = "release"
    BY <1>1, <1>5
  <1> HIDE DEF s
  <1>7. Sound(s)
    BY <1>1, <1>5, <1>6 DEF Sound, ToGateOK
  <1>8. Fit(d, s, q)
    BY <1>1, <1>5, <1>7 DEF Fit, Later
  <1> QED
    BY <1>2, <1>3, <1>4, <1>8, ContextFits

\* A granted claim is written before it is acknowledged.
LEMMA ClaimedFits ==
    ASSUME IInv, NEW d \in Dispatch, NEW q, NEW f, f.type = "claimed",
           ToDeviceOK(f, inbox[d], summary[d], session)
    PROVE  Fit(d, HandleClaimed(Context(d)), q)
  <1> DEFINE b == Context(d)
             c == [b EXCEPT !.loc.offer = "idle"]
             p == [c EXCEPT !.row = PersistClaim(session)]
             e == IF proc = "up" THEN LaunchLocal(p, p.row, "computer_claimed")
                  ELSE StageAndRetry(p, "canceled", FALSE)
  <1>1. CASE b.loc.offer # "wait"
    BY <1>1, ContextFits DEF HandleClaimed
  <1>2. CASE b.loc.offer = "wait"
    <2>1. /\ b \in Ctx /\ b.loc = local[d]
      BY ContextSound DEF Sound
    <2>2. local[d].offer = "wait"
      BY <1>2, <2>1
    <2>3. /\ inbox[d].state = "absent" /\ summary[d].state \notin {"absent", "offering"}
          /\ summary[d].placement # "computer"
      BY <2>2 DEF IInv, DispatchOK, MemoryOK, HandoverOK, ToDeviceOK
    <2>4. /\ c \in Ctx /\ c.d = d /\ c.work = work[d] /\ c.out = <<>>
          /\ c.loc.offer = "idle" /\ c.loc.task = local[d].task
          /\ c.loc.cancel = local[d].cancel
          /\ c.loc.flush = local[d].flush /\ c.loc.beat = local[d].beat
      BY OfferMoves DEF Sound
    <2>5. HandleClaimed(b) = e
      <3> DEFINE m == [b EXCEPT !.loc.offer = "idle", !.row = PersistClaim(session)]
      <3>1. m = p
        BY <2>1 DEF Ctx
      <3> HIDE DEF b
      <3>2. HandleClaimed(b) = IF proc = "up" THEN LaunchLocal(m, m.row, "computer_claimed")
                               ELSE StageAndRetry(m, "canceled", FALSE)
        BY <1>2, Zenon DEF HandleClaimed
      <3> HIDE DEF p, m
      <3> QED
        BY <3>1, <3>2
    <2> HIDE DEF c, b
    <2>6. /\ p \in Ctx /\ p.d = d /\ p.work = work[d] /\ p.out = <<>> /\ p.loc = c.loc
          /\ p.row = PersistClaim(session)
      BY <2>4, PersistFields DEF IInv, Ctx
    <2> HIDE DEF p
    <2>7. /\ p.row.state = "claimed" /\ p.row.sess = session /\ p.row.cancel = FALSE
          /\ p.row.orphan = FALSE
      BY <2>6, PersistFields DEF IInv
    <2>8. Sound(p) /\ Attended(p.row, p.loc, proc) /\ p.loc.beat.phase = "idle"
      BY <2>3, <2>4, <2>6, <2>7, NewRow
    <2>9. Sound(e) /\ e.d = d /\ Attended(e.row, e.loc, proc) /\ e.row.state \in Unfinished
      <3>1. CASE proc = "up"
        <4> DEFINE x == LaunchLocal(p, p.row, "computer_claimed")
        <4>1. Sound(x) /\ Attended(x.row, x.loc, proc) /\ x.d = p.d /\ x.row.state \in Unfinished
          BY <2>6, <2>7, <2>8, LaunchKeeps DEF Unfinished, Executable
        <4>2. e = x
          BY <3>1
        <4> QED
          BY <2>6, <4>1, <4>2
      <3>2. CASE proc # "up"
        <4> DEFINE x == StageAndRetry(p, "canceled", FALSE)
        <4>1. /\ Sound(x) /\ x.d = p.d /\ x.row.state = "claimed"
          BY <2>7, <2>8, StageKeeps DEF Outcome
        <4>2. e = x
          BY <3>2
        <4> QED
          BY <2>6, <4>1, <4>2 DEF Attended, Unfinished, Executable
      <3> QED
        BY <3>1, <3>2
    <2> HIDE DEF e
    <2> QED
      BY <2>3, <2>5, <2>9 DEF Fit, Later, Unfinished, Executable, Closed, b
  <1> QED
    BY <1>1, <1>2

\* A cancellation of work that was placed on this computer.
LEMMA CancelFits ==
    ASSUME IInv, NEW d \in Dispatch, NEW q, inbox[d].state # "absent",
           summary[d].placement = "computer"
    PROVE  Fit(d, CancelAccepted(Context(d), Context(d).row), q)
  <1> DEFINE c == Context(d)
             e == StageAndRetry(c, "canceled", FALSE)
  <1>1. Sound(c) /\ c.d = d /\ c.row = inbox[d] /\ Attended(c.row, c.loc, proc)
    BY ContextSound
  <1>2. CASE c.row.state \in Closed
    BY <1>2, ContextFits DEF CancelAccepted, Closed
  <1>3. CASE c.row.state \notin Closed
    <2>1. CancelAccepted(c, c.row) = e
      BY <1>3 DEF CancelAccepted, Closed
    <2>2. c.row.state # "claimed"
      BY <1>1 DEF IInv, DispatchOK, HandoverOK
    <2>3. /\ Sound(e) /\ e.d = d /\ e.row.state = c.row.state /\ e.loc.task = c.loc.task
          /\ c.row.state \in Unfinished => e.row.cancel
      BY <1>1, <2>2, StageKeeps DEF Outcome
    <2> HIDE DEF c, e
    <2>4. Attended(e.row, e.loc, proc) /\ Later(inbox[d], e.row)
      BY <1>1, <2>3 DEF Attended, Later, Unfinished, Executable
    <2> QED
      BY <1>1, <1>3, <2>1, <2>3, <2>4 DEF Fit, c
  <1> QED
    BY <1>2, <1>3

\* A dispatch frame.
LEMMA UpdateFits ==
    ASSUME IInv, NEW d \in Dispatch, NEW q, NEW f, f.type = "dispatch",
           ToDeviceOK(f, inbox[d], summary[d], session), Ends(f) => Quiet(d, q)
    PROVE  Fit(d, ApplyDispatchUpdate(Context(d), f.state), q)
  <1> DEFINE c == Context(d)
             m == [c EXCEPT !.loc.flush = "idle"]
             e == ApplyDispatchUpdate(c, f.state)
  <1>1. /\ Sound(c) /\ c.d = d /\ c.row = inbox[d] /\ c.loc = local[d] /\ c.out = <<>>
        /\ Attended(c.row, c.loc, proc)
    BY ContextSound
  <1>2. Ends(f) => Ended(summary[d]) /\ MayClose(d, q, session)
    BY DEF ToDeviceOK, MayClose
  <1>3. Ends(f) \/ summary[d].placement = "computer"
    BY DEF ToDeviceOK
  <1>4. CASE c.loc.flush = "wait" /\ Ends(f)
    <2>1. Sound(m) /\ m.d = d /\ m.row = inbox[d]
      BY FlushOver
    <2>2. e = [m EXCEPT !.row = MarkTerminal(@)]
      <3>1. e = [c EXCEPT !.loc.flush = "idle", !.row = MarkTerminal(@)]
        BY <1>4 DEF ApplyDispatchUpdate, Ends
      <3> HIDE DEF c
      <3> QED
        BY <1>1, <3>1 DEF Sound, Ctx
    <2>3. inbox[d].state \in {"terminal_pending"} \cup Closed
      BY <1>1, <1>4 DEF Sound, MemoryOK
    <2> HIDE DEF e, m
    <2>4. Sound(e) /\ e.d = d /\ Later(m.row, e.row) /\ Attended(e.row, e.loc, proc)
      BY <1>2, <1>4, <2>1, <2>2, <2>3, MarkTerminalKeeps
    <2> QED
      BY <1>2, <1>4, <2>1, <2>4 DEF Fit, e
  <1>5. CASE ~(c.loc.flush = "wait" /\ Ends(f)) /\ c.row.state = "absent"
    <2>1. e = c
      BY <1>5 DEF ApplyDispatchUpdate, Ends
    <2> QED
      BY <2>1, ContextFits
  <1>6. CASE ~(c.loc.flush = "wait" /\ Ends(f)) /\ c.row.state # "absent" /\ f.state = "cancel_pending"
    <2>1. e = CancelAccepted(c, c.row)
      BY <1>6 DEF ApplyDispatchUpdate, Ends
    <2>2. ~Ends(f)
      BY <1>6 DEF Ends, IsTerminalDispatchState, TerminalDispatchState
    <2> QED
      BY <1>1, <1>3, <1>6, <2>1, <2>2, CancelFits
  <1>7. CASE /\ ~(c.loc.flush = "wait" /\ Ends(f)) /\ c.row.state # "absent"
             /\ f.state # "cancel_pending" /\ Ends(f)
    <2>1. CASE c.row.state = "terminal_pending"
      <3>1. e = [c EXCEPT !.row = MarkTerminal(@)]
        BY <1>7, <2>1 DEF ApplyDispatchUpdate, Ends
      <3> HIDE DEF c, e
      <3>2. Sound(e) /\ e.d = d /\ Later(c.row, e.row) /\ Attended(e.row, e.loc, proc)
        BY <1>1, <1>2, <1>7, <2>1, <3>1, MarkTerminalKeeps
      <3> QED
        BY <1>1, <1>2, <1>7, <3>2 DEF Fit, e, c
    <2>2. CASE c.row.state # "terminal_pending"
      <3>1. e = c
        BY <1>7, <2>2 DEF ApplyDispatchUpdate, Ends
      <3> QED
        BY <3>1, ContextFits
    <2> QED
      BY <2>1, <2>2
  <1>8. CASE c.row.state # "absent" /\ Starts(f) /\ ~c.row.cancel
    <2> DEFINE x == LaunchLocal(c, c.row, f.state)
    <2>0. ~Ends(f) /\ f.state \in {"computer_accepted", "computer_running"}
      BY <1>8 DEF Starts, Ends, IsTerminalDispatchState, TerminalDispatchState
    <2>1. e = x
      BY <1>8, <2>0 DEF ApplyDispatchUpdate, Ends
    <2>2. inbox[d].state \notin Closed
      BY <1>8 DEF ToDeviceOK
    <2>3. c.row.state \in Unfinished /\ c.row.state # "claimed"
      <3>1. c.row \in InboxType
        BY <1>1 DEF Sound, Ctx
      <3>2. c.row.state # "claimed"
        BY <1>1, <1>3, <2>0 DEF Sound, HandoverOK
      <3> QED
        BY <1>1, <1>8, <2>2, <3>1, <3>2 DEF InboxType, Closed
    <2> HIDE DEF c, e
    <2>4. /\ Sound(x) /\ Attended(x.row, x.loc, proc)
          /\ x.d = c.d /\ Later(c.row, x.row) /\ x.row.state \in Unfinished
      BY <1>1, <2>3, LaunchKeeps
    <2> HIDE DEF x
    <2>5. x.row.state \notin Closed
      BY <2>4 DEF Unfinished, Executable, Closed
    <2>6. Fit(d, x, q)
      BY <1>1, <2>4, <2>5 DEF Fit
    <2> QED
      BY <2>1, <2>6 DEF e, c
  <1>9. CASE /\ c.row.state # "absent" /\ f.state # "cancel_pending" /\ ~Ends(f)
             /\ ~(Starts(f) /\ ~c.row.cancel)
    <2>1. e = c
      BY <1>9 DEF ApplyDispatchUpdate, Ends, Starts
    <2> QED
      BY <2>1, ContextFits
  <1>10. Starts(f) => ~Ends(f) /\ f.state # "cancel_pending"
    BY DEF Starts, Ends, IsTerminalDispatchState, TerminalDispatchState
  <1> QED
    BY <1>4, <1>5, <1>6, <1>7, <1>8, <1>9, <1>10

\* The bridge handles a frame of a proven socket.
LEMMA ReceiveKeeps ==
    ASSUME IInv, Receive, Stays
    PROVE  IInv'
  <1> DEFINE f == Head(toDevice)
             d == f.d
             q == Tail(toDevice)
  <1>1. /\ toDevice # <<>> /\ toDevice' = q
        /\ UNCHANGED <<session, proc, sock, gateVars, counters>>
    BY DEF Receive, Stays
  <1>2. /\ toDevice \in Seq(FrameToDevice) /\ f \in FrameToDevice
        /\ 1 \in DOMAIN toDevice /\ f = toDevice[1]
        /\ \A i \in DOMAIN q : i + 1 \in DOMAIN toDevice /\ q[i] = toDevice[i + 1]
        /\ DOMAIN toDevice \subseteq Nat /\ q \in Seq(FrameToDevice)
    BY <1>1, TailElements DEF IInv, Typed
  <1>3. d \in Dispatch
    BY <1>2 DEF FrameToDevice
  <1>4. ToDeviceOK(f, inbox[d], summary[d], session)
    BY <1>2 DEF IInv, FramesOK
  <1>5. Ends(f) => Quiet(d, q)
    <2> SUFFICES ASSUME Ends(f), NEW i \in DOMAIN q, Starts(q[i]) PROVE q[i].d # d
      BY DEF Quiet
    <2>1. i \in Nat /\ i >= 1
      BY <1>2
    <2>2. 1 < i + 1 /\ i + 1 \in DOMAIN toDevice /\ q[i] = toDevice[i + 1]
      BY <1>2, <2>1
    <2>3. InOrder(toDevice)
      BY DEF IInv, FramesOK
    <2> HIDE DEF f
    <2> QED
      BY <1>2, <2>2, <2>3 DEF InOrder
  <1>6. \E e : Fit(d, e, q) /\ Take(e)
    <2>1. CASE f.type = "offer" /\ Take(HandleOffer(Context(d)))
      BY <1>3, <1>4, <2>1, OfferFits
    <2>2. CASE f.type = "claimed" /\ Take(HandleClaimed(Context(d)))
      BY <1>3, <1>4, <2>2, ClaimedFits
    <2>3. CASE f.type = "claimed" /\ Take(ClaimNotPersisted(Context(d)))
      BY <1>3, <2>3, LetGoFits
    <2>4. CASE f.type = "withdrawn" /\ Take(HandleWithdrawn(Context(d)))
      BY <1>3, <2>4, LetGoFits
    <2>5. CASE f.type = "cancel" /\ Take(HandleCancel(Context(d)))
      <3>1. CASE inbox[d].state = "absent"
        <4>1. HandleCancel(Context(d)) = Context(d)
          BY <1>3, <3>1, ContextSound DEF HandleCancel
        <4> QED
          BY <1>3, <2>5, <4>1, ContextFits
      <3>2. CASE inbox[d].state # "absent"
        <4>1. HandleCancel(Context(d)) = CancelAccepted(Context(d), Context(d).row)
          BY <1>3, <3>2, ContextSound DEF HandleCancel
        <4>2. summary[d].placement = "computer"
          BY <1>4, <2>5 DEF ToDeviceOK
        <4>3. Fit(d, CancelAccepted(Context(d), Context(d).row), q)
          BY <1>3, <3>2, <4>2, CancelFits
        <4> QED
          BY <2>5, <4>1, <4>3
      <3> QED
        BY <3>1, <3>2
    <2>6. CASE f.type = "dispatch" /\ Take(ApplyDispatchUpdate(Context(d), f.state))
      BY <1>3, <1>4, <1>5, <2>6, UpdateFits
    <2> QED
      BY <2>1, <2>2, <2>3, <2>4, <2>5, <2>6 DEF Receive
  <1> PICK e : Fit(d, e, q) /\ Take(e)
    BY <1>6
  <1> HIDE DEF d, q
  <1> QED
    BY <1>1, <1>3, TakeKeeps DEF Fit, q

-----------------------------------------------------------------------------
(* The life of the bridge and of its socket.                               *)

\* What a step that touches every dispatch leaves of one.
LeftOK(d) ==
    /\ RowOK(inbox[d], session)
    /\ WorkOK(inbox[d], work[d])
    /\ MemoryOK(inbox[d], local[d], work[d])
    /\ Attended(inbox[d], local[d], proc)
    /\ BeatOK(inbox[d], local[d], summary[d], proc)
    /\ HandoverOK(inbox[d], local[d], summary[d], session)

\* A step of the whole bridge, dispatch by dispatch.
LEMMA LifeKeeps ==
    ASSUME IInv, Typed', SocketOK', UNCHANGED summary, session <= session',
           session' # session => toDevice' = <<>>, LeftOf(toDevice'),
           \A d \in Dispatch : LeftOK(d)',
           \A d \in Dispatch : Later(inbox[d], inbox'[d]),
           \A d \in Dispatch : inbox'[d].state \in Closed /\ inbox[d].state \notin Closed
                                 => MayClose(d, toDevice', session'),
           \A i \in DOMAIN toGate' :
              \/ \E j \in DOMAIN toGate : toGate'[i] = toGate[j]
              \/ toGate'[i].type \notin {"ack", "complete"}
    PROVE  IInv'
  <1>1. FramesOK'
    <2>1. \A i \in DOMAIN toGate' :
              \/ \E j \in DOMAIN toGate : toGate'[i] = toGate[j]
              \/ ToGateOK(toGate'[i], inbox'[toGate'[i].d], summary[toGate'[i].d], session')
      BY DEF ToGateOK
    <2> QED
      BY <2>1, BridgeFrames
  <1>2. ASSUME NEW d \in Dispatch PROVE DispatchOK(d)'
    <2>1. SummaryOK(summary[d], session) /\ summary[d].sess \in Nat /\ session \in Nat
      BY SummaryTyped DEF IInv, DispatchOK
    <2>2. SummaryOK(summary[d], session')
      BY <2>1 DEF SummaryOK, Typed
    <2> QED
      BY <2>2 DEF DispatchOK, LeftOK
  <1> QED
    BY <1>1, <1>2 DEF IInv

\* What a step of the whole bridge may rely on.
LEMMA LeftNow ==
    ASSUME IInv, NEW d \in Dispatch
    PROVE  LeftOK(d) /\ Later(inbox[d], inbox[d])
  BY DEF IInv, DispatchOK, LeftOK, Later

\* Only the life of the process and the socket change.
LEMMA SocketStep ==
    ASSUME IInv, UNCHANGED <<inbox, session, local, work, summary>>, Typed', SocketOK',
           LeftOf(toDevice'),
           proc' = proc \/ \A d \in Dispatch :
              /\ Attended(inbox[d], local[d], proc')
              /\ BeatOK(inbox[d], local[d], summary[d], proc'),
           \A i \in DOMAIN toGate' :
              \/ \E j \in DOMAIN toGate : toGate'[i] = toGate[j]
              \/ toGate'[i].type \notin {"ack", "complete"}
    PROVE  IInv'
  <1>1. \A d \in Dispatch : LeftOK(d)'
    BY LeftNow DEF LeftOK
  <1>2. \A d \in Dispatch : Later(inbox[d], inbox'[d])
    BY LeftNow
  <1>3. session <= session'
    BY DEF IInv, Typed
  <1> QED
    BY <1>1, <1>2, <1>3, LifeKeeps

\* No frame to the gate is new.
LEMMA SameGateFrames ==
    ASSUME toGate' = toGate \/ toGate' = <<>>
    PROVE  \A i \in DOMAIN toGate' : \E j \in DOMAIN toGate : toGate'[i] = toGate[j]
  OBVIOUS

\* An error closes the socket.
LEMMA ReceiveErrorKeeps ==
    ASSUME IInv, ReceiveError, Stays
    PROVE  IInv'
  <1>1. /\ toDevice # <<>> /\ toDevice' = Tail(toDevice) /\ sock' = "closing"
        /\ sock \in {"proven", "closing"}
        /\ UNCHANGED <<inbox, session, proc, local, work, toGate, summary, presence, faults, stops>>
    BY DEF ReceiveError, Stays, gateVars, counters
  <1>2. LeftOf(toDevice') /\ toDevice' \in Seq(FrameToDevice)
    BY <1>1, LeftOvers, TailElements DEF IInv, Typed
  <1>3. Typed'
    BY <1>1, <1>2 DEF IInv, Typed
  <1>4. SocketOK'
    BY <1>1 DEF IInv, SocketOK
  <1> QED
    BY <1>1, <1>2, <1>3, <1>4, SocketStep, SameGateFrames

\* The first frame proves the socket; owed work is announced.
LEMMA ReceiveConnectedKeeps ==
    ASSUME IInv, ReceiveConnected, Stays
    PROVE  IInv'
  <1>1. /\ toDevice # <<>> /\ toDevice' = Tail(toDevice) /\ sock' = "proven" /\ sock = "open"
        /\ UNCHANGED <<inbox, session, proc, local, work, summary, presence, faults, stops>>
    BY DEF ReceiveConnected, Stays, gateVars, counters
  <1>2. LeftOf(toDevice') /\ toDevice' \in Seq(FrameToDevice)
    BY <1>1, LeftOvers, TailElements DEF IInv, Typed
  <1> DEFINE n == Cardinality(Announced)
  <1>3. n \in Nat
    BY BridgeAssumption, FS_Subset, FS_CardinalityType DEF Announced
  <1> HIDE DEF n
  <1> PICK order \in [1 .. n -> Announced] :
              toGate' = toGate \o
                [i \in DOMAIN order |-> [type |-> "running", d |-> order[i], outcome |-> "none"]]
    BY DEF ReceiveConnected, n
  <1> DEFINE t == [i \in DOMAIN order |-> [type |-> "running", d |-> order[i], outcome |-> "none"]]
  <1>4. /\ t \in Seq(FrameToGate) /\ \A i \in DOMAIN t : t[i].type = "running"
    <2>1. t \in [1 .. n -> FrameToGate]
      BY DEF Announced, FrameToGate
    <2> QED
      BY <1>3, <2>1
  <1> HIDE DEF t
  <1>5. /\ toGate' \in Seq(FrameToGate)
        /\ \A i \in DOMAIN toGate' :
             \/ i \in DOMAIN toGate /\ toGate'[i] = toGate[i]
             \/ \E j \in DOMAIN t : toGate'[i] = t[j]
    <2>1. toGate \in Seq(FrameToGate) /\ toGate' = toGate \o t
      BY DEF IInv, Typed, t
    <2>2. /\ toGate \o t \in Seq(FrameToGate)
          /\ \A i \in DOMAIN (toGate \o t) :
               \/ i \in DOMAIN toGate /\ (toGate \o t)[i] = toGate[i]
               \/ \E j \in DOMAIN t : i = Len(toGate) + j /\ (toGate \o t)[i] = t[j]
      BY <1>4, <2>1, ConcatElements
    <2> QED
      BY <2>1, <2>2
  <1>6. \A i \in DOMAIN toGate' : \/ \E j \in DOMAIN toGate : toGate'[i] = toGate[j]
                                 \/ toGate'[i].type \notin {"ack", "complete"}
    BY <1>4, <1>5
  <1>7. Typed'
    BY <1>1, <1>2, <1>5 DEF IInv, Typed
  <1>8. SocketOK'
    BY <1>1 DEF IInv, SocketOK
  <1> QED
    BY <1>1, <1>2, <1>6, <1>7, <1>8, SocketStep

\* Frames on a dropped connection go nowhere.
LEMMA FramesLostKeeps ==
    ASSUME IInv, FramesLost
    PROVE  IInv'
  <1>1. /\ toGate' = <<>>
        /\ UNCHANGED <<inbox, session, proc, sock, local, work, toDevice, summary, presence,
                       faults, stops>>
    BY DEF FramesLost, BridgeIdle, gateVars, counters
  <1>2. Typed'
    BY <1>1 DEF IInv, Typed
  <1>3. SocketOK' /\ LeftOf(toDevice')
    BY <1>1, LeftOvers DEF IInv, SocketOK
  <1> QED
    BY <1>1, <1>2, <1>3, SocketStep, SameGateFrames

\* The gate drops its end.
LEMMA GateDisconnectsKeeps ==
    ASSUME IInv, GateDisconnects, faults' \in Nat, stops' \in Nat
    PROVE  IInv'
  <1>1. /\ presence' = [presence EXCEPT ![Me].connected = FALSE]
        /\ UNCHANGED <<inbox, session, proc, sock, local, work, toGate, toDevice, summary>>
    BY DEF GateDisconnects, Gate!Disconnect, BridgeIdle
  <1>2. presence \in [{Me} -> [connected : BOOLEAN, sess : Nat]]
    BY DEF IInv, Typed
  <1>3. /\ presence' \in [{Me} -> [connected : BOOLEAN, sess : Nat]]
        /\ presence'[Me].sess = presence[Me].sess
    BY <1>1, <1>2
  <1>4. Typed'
    BY <1>1, <1>3 DEF IInv, Typed
  <1>5. SocketOK' /\ LeftOf(toDevice')
    BY <1>1, <1>3, LeftOvers DEF IInv, SocketOK
  <1> QED
    BY <1>1, <1>4, <1>5, SocketStep, SameGateFrames

\* A new socket is bound to the process's session.
LEMMA ConnectKeeps ==
    ASSUME IInv, Connect
    PROVE  IInv'
  <1>1. /\ proc = "up" /\ sock = "none" /\ sock' = "open" /\ toGate' = <<>>
        /\ presence' = [presence EXCEPT ![Me] = [connected |-> TRUE, sess |-> session]]
        /\ UNCHANGED <<inbox, session, proc, local, work, summary, faults, stops>>
    BY DEF Connect, Gate!Connect, counters
  <1> PICK d \in Dispatch : toDevice' = FrameTo("connected", d, "absent")
    BY DEF Connect
  <1> DEFINE f == [type |-> "connected", d |-> d, state |-> "absent"]
  <1>2. f \in FrameToDevice
    BY DEF FrameToDevice
  <1>3. toDevice' = <<f>> /\ f.type = "connected"
    BY DEF FrameTo
  <1> HIDE DEF f
  <1>4. /\ toDevice' \in Seq(FrameToDevice)
        /\ \A i \in DOMAIN toDevice' : toDevice'[i] = f
    BY <1>2, <1>3
  <1>5. presence \in [{Me} -> [connected : BOOLEAN, sess : Nat]] /\ session \in Nat
    BY DEF IInv, Typed
  <1>6. /\ presence' \in [{Me} -> [connected : BOOLEAN, sess : Nat]]
        /\ presence'[Me].sess = session
    BY <1>1, <1>5
  <1>7. Typed'
    BY <1>1, <1>4, <1>6 DEF IInv, Typed
  <1>8. SocketOK'
    BY <1>1, <1>5, <1>6 DEF IInv, SocketOK
  <1>9. FramesOK'
    BY <1>1, <1>3, <1>4 DEF FramesOK, ToDeviceOK, InOrder, Starts, Ends
  <1>10. \A e \in Dispatch : DispatchOK(e)'
    BY <1>1 DEF IInv, DispatchOK
  <1> QED
    BY <1>7, <1>8, <1>9, <1>10 DEF IInv

\* The steps that only announce a stop, a rotation or a new token.
LEMMA AnnouncedKeeps ==
    ASSUME IInv, TokenRefresh \/ StopBegins \/ RotateBegins,
           UNCHANGED gateVars, faults' \in Nat, stops' \in Nat
    PROVE  IInv'
  <1>1. /\ UNCHANGED <<inbox, session, local, work, toGate, summary, presence>>
    BY DEF TokenRefresh, StopBegins, RotateBegins, gateVars
  <1>2. CASE TokenRefresh
    <2>1. sock \in {"open", "proven"} /\ sock' = "closing" /\ UNCHANGED <<proc, toDevice>>
      BY <1>2 DEF TokenRefresh
    <2>2. Typed'
      BY <1>1, <2>1 DEF IInv, Typed
    <2>3. SocketOK' /\ LeftOf(toDevice')
      BY <1>1, <2>1, LeftOvers DEF IInv, SocketOK
    <2> QED
      BY <1>1, <2>1, <2>2, <2>3, SocketStep, SameGateFrames
  <1>3. CASE StopBegins
    <2>1. proc \in {"reconciling", "up"} /\ proc' = "stopping" /\ UNCHANGED <<sock, toDevice>>
      BY <1>3 DEF StopBegins
    <2>2. Typed'
      BY <1>1, <2>1 DEF IInv, Typed, Life
    <2>3. SocketOK' /\ LeftOf(toDevice')
      BY <1>1, <2>1, LeftOvers DEF IInv, SocketOK
    <2>4. ASSUME NEW d \in Dispatch
          PROVE  Attended(inbox[d], local[d], proc') /\ BeatOK(inbox[d], local[d], summary[d], proc')
      BY <2>1 DEF IInv, DispatchOK, Attended, BeatOK
    <2> QED
      BY <1>1, <2>2, <2>3, <2>4, SocketStep, SameGateFrames
  <1>4. CASE RotateBegins
    <2>1. /\ proc = "up" /\ proc' = "rotating" /\ sock' = "none" /\ toDevice' = <<>>
          /\ \A d \in Dispatch : local[d].beat.phase = "idle"
      BY <1>4 DEF RotateBegins
    <2>2. Typed'
      BY <1>1, <2>1 DEF IInv, Typed, Life
    <2>3. SocketOK' /\ LeftOf(toDevice')
      BY <1>1, <2>1, LeftOvers DEF IInv, SocketOK
    <2>4. ASSUME NEW d \in Dispatch
          PROVE  Attended(inbox[d], local[d], proc') /\ BeatOK(inbox[d], local[d], summary[d], proc')
      BY <2>1 DEF IInv, DispatchOK, Attended, BeatOK
    <2> QED
      BY <1>1, <2>2, <2>3, <2>4, SocketStep, SameGateFrames
  <1> QED
    BY <1>2, <1>3, <1>4

\* The socket is gone; memory and worker may have changed with it.
LEMMA ForgetsKeeps ==
    ASSUME IInv, UNCHANGED <<inbox, session, toGate, summary, presence>>,
           faults' \in Nat, stops' \in Nat, sock' = "none", toDevice' = <<>>, proc' \in Life,
           local' \in [Dispatch -> LocalType], work' \in [Dispatch -> WorkType],
           \A d \in Dispatch :
              /\ WorkOK(inbox[d], work'[d]) /\ MemoryOK(inbox[d], local'[d], work'[d])
              /\ Attended(inbox[d], local'[d], proc')
              /\ BeatOK(inbox[d], local'[d], summary[d], proc')
              /\ local'[d].offer \in {"idle", local[d].offer}
    PROVE  IInv'
  <1>1. Typed'
    BY DEF IInv, Typed
  <1>2. SocketOK' /\ LeftOf(toDevice')
    BY LeftOvers DEF IInv, SocketOK
  <1>3. ASSUME NEW d \in Dispatch PROVE LeftOK(d)'
    <2>1. RowOK(inbox[d], session) /\ HandoverOK(inbox[d], local[d], summary[d], session)
      BY DEF IInv, DispatchOK
    <2>2. HandoverOK(inbox[d], local'[d], summary[d], session)
      BY <2>1 DEF HandoverOK
    <2> QED
      BY <2>1, <2>2 DEF LeftOK
  <1>4. session <= session' /\ \A d \in Dispatch : Later(inbox[d], inbox'[d])
    BY LeftNow DEF IInv, Typed
  <1> QED
    BY <1>1, <1>2, <1>3, <1>4, LifeKeeps, SameGateFrames

\* A closed socket ends what waited for it.
LEMMA SocketClosedKeeps ==
    ASSUME IInv, SocketClosed, UNCHANGED <<inbox, session, proc, work, toGate, gateVars>>,
           faults' \in Nat, stops' \in Nat
    PROVE  IInv'
  <1>1. /\ sock' = "none" /\ toDevice' = <<>>
        /\ local' = [d \in Dispatch |->
                       [local[d] EXCEPT !.offer = IF @ = "wait" THEN "idle" ELSE @,
                                        !.flush = IF @ = "wait" THEN "ask" ELSE @]]
        /\ UNCHANGED <<summary, presence>>
    BY DEF SocketClosed, gateVars
  <1>2. ASSUME NEW d \in Dispatch
        PROVE  /\ local'[d] \in LocalType /\ local'[d].task = local[d].task
               /\ local'[d].cancel = local[d].cancel /\ local'[d].beat = local[d].beat
               /\ local'[d].offer \in {"idle", local[d].offer}
               /\ local'[d].flush = local[d].flush \/ local[d].flush # "idle"
    <2>1. local[d] \in LocalType
      BY DEF IInv, Typed
    <2>2. local'[d] = [local[d] EXCEPT !.offer = IF @ = "wait" THEN "idle" ELSE @,
                                       !.flush = IF @ = "wait" THEN "ask" ELSE @]
      BY <1>1
    <2> QED
      BY <2>1, <2>2 DEF LocalType
  <1>3. local' \in [Dispatch -> LocalType] /\ proc' \in Life /\ work' \in [Dispatch -> WorkType]
    <2>1. DOMAIN local' = Dispatch
      BY <1>1
    <2>2. local' = [d \in Dispatch |-> local'[d]]
      BY <1>1
    <2> QED
      BY <1>2, <2>1, <2>2 DEF IInv, Typed
  <1>4. ASSUME NEW d \in Dispatch
        PROVE  /\ WorkOK(inbox[d], work'[d]) /\ MemoryOK(inbox[d], local'[d], work'[d])
               /\ Attended(inbox[d], local'[d], proc')
               /\ BeatOK(inbox[d], local'[d], summary[d], proc')
    <2>1. DispatchOK(d)
      BY DEF IInv
    <2>2. WorkOK(inbox[d], work'[d]) /\ MemoryOK(inbox[d], local'[d], work'[d])
      BY <1>2, <2>1 DEF DispatchOK, MemoryOK
    <2>3. Attended(inbox[d], local'[d], proc') /\ BeatOK(inbox[d], local'[d], summary[d], proc')
      BY <1>2, <2>1 DEF DispatchOK, Attended, BeatOK
    <2> QED
      BY <2>2, <2>3
  <1> QED
    BY <1>1, <1>2, <1>3, <1>4, ForgetsKeeps

\* The memory of a new process.
LEMMA ForgottenFields ==
    /\ Forgotten \in LocalType /\ Forgotten.offer = "idle" /\ Forgotten.task = "idle"
    /\ Forgotten.cancel = "idle" /\ Forgotten.flush = "idle" /\ Forgotten.beat.phase = "idle"
  BY NoBeatFields DEF Forgotten, LocalType

\* The process dies; the worker may go on.
LEMMA CrashKeeps ==
    ASSUME IInv, Crash, UNCHANGED gateVars, faults' \in Nat, stops' \in Nat
    PROVE  IInv'
  <1>1. /\ proc' = "down" /\ sock' = "none" /\ toDevice' = <<>>
        /\ local' = [d \in Dispatch |-> Forgotten]
        /\ UNCHANGED <<inbox, session, toGate, summary, presence>>
    BY DEF Crash, gateVars
  <1>2. ASSUME NEW d \in Dispatch
        PROVE  /\ work'[d] \in WorkType /\ work'[d].launches = work[d].launches
               /\ work'[d].worker = work[d].worker
                    \/ (work[d].worker = "live" /\ work'[d].worker = "stopped")
    <2>1. work[d] \in WorkType
      BY DEF IInv, Typed
    <2>2. \/ work'[d] = work[d]
          \/ work'[d] = [work[d] EXCEPT !.worker = IF @ = "live" THEN "stopped" ELSE @]
      BY DEF Crash
    <2> QED
      BY <2>1, <2>2 DEF WorkType
  <1>3. work' \in [Dispatch -> WorkType] /\ local' \in [Dispatch -> LocalType] /\ proc' \in Life
    <2>1. work' = [d \in Dispatch |-> work'[d]]
      BY DEF Crash, IInv, Typed
    <2> QED
      BY <1>1, <1>2, <2>1, ForgottenFields DEF Life
  <1>4. ASSUME NEW d \in Dispatch
        PROVE  /\ WorkOK(inbox[d], work'[d]) /\ MemoryOK(inbox[d], local'[d], work'[d])
               /\ Attended(inbox[d], local'[d], proc')
               /\ BeatOK(inbox[d], local'[d], summary[d], proc')
               /\ local'[d].offer \in {"idle", local[d].offer}
    <2>1. DispatchOK(d) /\ local'[d] = Forgotten
      BY <1>1 DEF IInv
    <2>2. WorkOK(inbox[d], work'[d])
      BY <1>2, <2>1 DEF DispatchOK, WorkOK
    <2>3. MemoryOK(inbox[d], local'[d], work'[d])
      BY <2>1, ForgottenFields DEF DispatchOK, MemoryOK
    <2> QED
      BY <1>1, <2>1, <2>2, <2>3, ForgottenFields DEF Attended, BeatOK
  <1> QED
    BY <1>1, <1>3, <1>4, ForgetsKeeps

\* The process ends in order.
LEMMA StopEndsKeeps ==
    ASSUME IInv, StopEnds, Stays
    PROVE  IInv'
  <1>1. /\ proc' = "down" /\ sock' = "none" /\ toDevice' = <<>>
        /\ local' = [d \in Dispatch |-> [Forgotten EXCEPT !.offer = local[d].offer]]
        /\ UNCHANGED <<inbox, session, work, toGate, summary, presence, faults, stops>>
    BY DEF StopEnds, Stays, gateVars, counters
  <1>2. ASSUME NEW d \in Dispatch
        PROVE  /\ local'[d] \in LocalType /\ local'[d].offer = local[d].offer
               /\ local'[d].task = "idle" /\ local'[d].cancel = "idle"
               /\ local'[d].flush = "idle" /\ local'[d].beat.phase = "idle"
    <2>1. local'[d] = [Forgotten EXCEPT !.offer = local[d].offer] /\ local[d] \in LocalType
      BY <1>1 DEF IInv, Typed
    <2>2. local[d].offer \in {"idle", "check", "wait", "submitted"}
      BY <2>1 DEF LocalType
    <2> QED
      BY <2>1, <2>2, ForgottenFields DEF LocalType
  <1>3. /\ work' \in [Dispatch -> WorkType] /\ local' \in [Dispatch -> LocalType] /\ proc' \in Life
        /\ faults' \in Nat /\ stops' \in Nat
    <2>1. local' = [d \in Dispatch |-> local'[d]]
      BY <1>1
    <2> QED
      BY <1>1, <1>2, <2>1 DEF Life, IInv, Typed
  <1>4. ASSUME NEW d \in Dispatch
        PROVE  /\ WorkOK(inbox[d], work'[d]) /\ MemoryOK(inbox[d], local'[d], work'[d])
               /\ Attended(inbox[d], local'[d], proc')
               /\ BeatOK(inbox[d], local'[d], summary[d], proc')
               /\ local'[d].offer \in {"idle", local[d].offer}
    <2>1. DispatchOK(d)
      BY DEF IInv
    <2>2. MemoryOK(inbox[d], local'[d], work'[d])
      BY <1>2, <2>1 DEF DispatchOK, MemoryOK
    <2> QED
      BY <1>1, <1>2, <2>1, <2>2 DEF DispatchOK, Attended, BeatOK
  <1> QED
    BY <1>1, <1>3, <1>4, ForgetsKeeps

\* How a start, a rotation or a stop moves a row: not at all, to a staged
\* cancellation, or to an orphan of the session that a new one replaces.
Strands(r, q, ss, ss2) ==
    \/ q = r
    \/ /\ r.state \in Unfinished /\ q.state = r.state /\ q.sess = r.sess
       /\ q.cancel /\ q.outcome # "none" /\ (q.orphan => r.orphan \/ r.sess < ss2)
    \/ /\ r.state = "terminal_pending" /\ ~r.cancel /\ ss < ss2
       /\ q.state = "orphaned" /\ q.sess = r.sess /\ ~q.cancel /\ q.orphan = r.orphan

\* Staging a cancellation.
LEMMA StagedStrands ==
    ASSUME NEW r \in InboxType, NEW outcome \in Outcome, NEW orphan \in BOOLEAN,
           NEW ss, NEW ss2, orphan => r.sess < ss2
    PROVE  /\ StageCancellation(r, outcome, orphan) \in InboxType
           /\ Strands(r, StageCancellation(r, outcome, orphan), ss, ss2)
           /\ r.state \in Unfinished => StageCancellation(r, outcome, orphan).cancel
           /\ StageCancellation(r, outcome, orphan).state = r.state
  <1>1. CASE r.state \notin Unfinished
    BY <1>1 DEF StageCancellation, Strands
  <1>2. CASE r.state \in Unfinished
    <2> DEFINE q == [r EXCEPT !.cancel = TRUE, !.orphan = @ \/ orphan, !.outcome = outcome]
    <2>1. /\ q \in InboxType /\ q.state = r.state /\ q.sess = r.sess
          /\ q.cancel = TRUE /\ q.orphan = (r.orphan \/ orphan) /\ q.outcome = outcome
      BY DEF InboxType
    <2>2. StageCancellation(r, outcome, orphan) = q
      BY <1>2 DEF StageCancellation
    <2> HIDE DEF q
    <2>3. Strands(r, q, ss, ss2)
      BY <1>2, <2>1 DEF Strands, Outcome
    <2> QED
      BY <2>1, <2>2, <2>3
  <1> QED
    BY <1>1, <1>2

\* Opening a session over the rows of an older one.
LEMMA OpenedStrands ==
    ASSUME NEW r \in InboxType, NEW ss \in Nat, NEW ss2 \in Nat, r.sess <= ss, ss < ss2
    PROVE  /\ OpenSession(r) \in InboxType
           /\ Strands(r, OpenSession(r), ss, ss2)
           /\ OpenSession(r).state \in Executable => OpenSession(r).cancel
  <1>0. r.sess \in Nat /\ r.sess < ss2
    BY DEF InboxType
  <1>1. CASE r.state \in Executable
    <2> DEFINE q == [r EXCEPT !.cancel = TRUE, !.orphan = TRUE, !.outcome = "canceled"]
    <2>1. /\ q \in InboxType /\ q.state = r.state /\ q.sess = r.sess
          /\ q.cancel = TRUE /\ q.orphan = TRUE /\ q.outcome = "canceled"
      BY DEF InboxType, Outcome
    <2>2. OpenSession(r) = q
      BY <1>1 DEF OpenSession
    <2> HIDE DEF q
    <2>3. Strands(r, q, ss, ss2)
      BY <1>0, <1>1, <2>1 DEF Strands, Unfinished
    <2> QED
      BY <2>1, <2>2, <2>3
  <1>2. CASE r.state = "terminal_pending" /\ ~r.cancel
    <2> DEFINE q == [r EXCEPT !.state = "orphaned"]
    <2>1. /\ q \in InboxType /\ q.state = "orphaned" /\ q.sess = r.sess /\ q.cancel = r.cancel
          /\ q.orphan = r.orphan
      BY MarkFields DEF Closed
    <2>2. OpenSession(r) = q
      BY <1>2 DEF OpenSession, Executable
    <2> HIDE DEF q
    <2>3. Strands(r, q, ss, ss2)
      BY <1>2, <2>1 DEF Strands
    <2> QED
      BY <2>1, <2>2, <2>3 DEF Executable
  <1>3. CASE r.state \notin Executable /\ ~(r.state = "terminal_pending" /\ ~r.cancel)
    BY <1>3 DEF OpenSession, Strands
  <1> QED
    BY <1>1, <1>2, <1>3

\* What is known of a row survives its stranding.
LEMMA StrandedRow ==
    ASSUME NEW r \in InboxType, NEW q \in InboxType, NEW l, NEW w, NEW s,
           NEW ss \in Nat, NEW ss2 \in Nat, ss <= ss2, s.sess \in Nat,
           RowOK(r, ss), WorkOK(r, w), MemoryOK(r, l, w), SummaryOK(s, ss),
           HandoverOK(r, l, s, ss), Strands(r, q, ss, ss2)
    PROVE  /\ RowOK(q, ss2) /\ WorkOK(q, w) /\ MemoryOK(q, l, w) /\ HandoverOK(q, l, s, ss2)
           /\ Later(r, q)
           /\ q.state \in Closed /\ r.state \notin Closed => s.sess < ss2
  <1>0. r.sess \in Nat /\ q.sess \in Nat
    BY DEF InboxType
  <1>1. CASE q = r
    BY <1>0, <1>1 DEF RowOK, HandoverOK, Later
  <1>2. CASE /\ r.state \in Unfinished /\ q.state = r.state /\ q.sess = r.sess
             /\ q.cancel /\ q.outcome # "none" /\ (q.orphan => r.orphan \/ r.sess < ss2)
    <2>1. RowOK(q, ss2) /\ WorkOK(q, w) /\ Later(r, q)
      BY <1>0, <1>2 DEF RowOK, WorkOK, Later
    <2>2. MemoryOK(q, l, w) /\ HandoverOK(q, l, s, ss2)
      BY <1>0, <1>2 DEF MemoryOK, HandoverOK, Unfinished, Executable, Closed
    <2> QED
      BY <1>2, <2>1, <2>2 DEF Closed
  <1>3. CASE /\ r.state = "terminal_pending" /\ ~r.cancel /\ ss < ss2
             /\ q.state = "orphaned" /\ q.sess = r.sess /\ ~q.cancel /\ q.orphan = r.orphan
    <2>1. s.sess < ss2
      BY <1>3 DEF SummaryOK
    <2>2. RowOK(q, ss2) /\ WorkOK(q, w) /\ Later(r, q)
      BY <1>0, <1>3 DEF RowOK, WorkOK, Later, Executable
    <2>3. MemoryOK(q, l, w) /\ HandoverOK(q, l, s, ss2)
      BY <1>0, <1>3, <2>1 DEF MemoryOK, HandoverOK, Executable, Closed
    <2> QED
      BY <2>1, <2>2, <2>3
  <1> QED
    BY <1>1, <1>2, <1>3 DEF Strands

\* A start, a rotation and the staging of a stop.
LEMMA StrandsKeeps ==
    ASSUME IInv, UNCHANGED <<sock, local, work, toGate, toDevice>>, Stays,
           proc' \in Life, session' \in Nat, session <= session',
           session' # session => sock = "none",
           proc' \in {"down", "reconciling", "rotating"} => sock = "none",
           inbox' \in [Dispatch -> InboxType],
           \A d \in Dispatch : /\ Strands(inbox[d], inbox'[d], session, session')
                               /\ inbox'[d].state \in Executable => inbox'[d].cancel
                               /\ local[d].beat.phase = "idle"
    PROVE  IInv'
  <1>0. UNCHANGED <<summary, presence, faults, stops>>
    BY DEF Stays, gateVars, counters
  <1>1. Typed'
    BY <1>0 DEF IInv, Typed
  <1>2. SocketOK'
    BY <1>0, <1>1 DEF IInv, SocketOK, Typed
  <1>3. (session' # session => toDevice' = <<>>) /\ LeftOf(toDevice')
    BY LeftOvers DEF IInv, SocketOK
  <1>4. ASSUME NEW d \in Dispatch
        PROVE  /\ LeftOK(d)' /\ Later(inbox[d], inbox'[d])
               /\ inbox'[d].state \in Closed /\ inbox[d].state \notin Closed
                    => MayClose(d, toDevice', session')
    <2>1. /\ DispatchOK(d) /\ summary[d].sess \in Nat /\ session \in Nat
          /\ inbox[d] \in InboxType /\ inbox'[d] \in InboxType
      BY SummaryTyped DEF IInv, Typed
    <2>2. /\ RowOK(inbox'[d], session') /\ WorkOK(inbox'[d], work[d])
          /\ MemoryOK(inbox'[d], local[d], work[d])
          /\ HandoverOK(inbox'[d], local[d], summary[d], session')
          /\ Later(inbox[d], inbox'[d])
          /\ inbox'[d].state \in Closed /\ inbox[d].state \notin Closed
               => summary[d].sess < session'
      BY <2>1, StrandedRow DEF DispatchOK
    <2>3. Attended(inbox'[d], local[d], proc') /\ BeatOK(inbox'[d], local[d], summary[d], proc')
      BY DEF Attended, BeatOK, Executable
    <2>4. LeftOK(d)'
      BY <1>0, <2>2, <2>3 DEF LeftOK
    <2>5. ASSUME inbox'[d].state \in Closed, inbox[d].state \notin Closed
          PROVE  MayClose(d, toDevice', session')
      <3>1. CASE session' = session
        <4>1. Quiet(d, toDevice')
          BY <1>3, <2>2, <2>5, <3>1, NoStart
        <4> QED
          BY <2>2, <2>5, <4>1 DEF MayClose
      <3>2. CASE session' # session
        <4>1. Quiet(d, toDevice')
          BY <1>3, <3>2 DEF Quiet
        <4> QED
          BY <2>2, <2>5, <4>1 DEF MayClose
      <3> QED
        BY <3>1, <3>2
    <2> QED
      BY <2>2, <2>4, <2>5
  <1> QED
    BY <1>0, <1>1, <1>2, <1>3, <1>4, LifeKeeps, SameGateFrames

\* A start cancels every run it did not launch.
LEMMA StartKeeps ==
    ASSUME IInv, NEW stopSeen, NEW sess \in {session, session + 1}, Start(sess, stopSeen), Stays
    PROVE  IInv'
  <1> DEFINE opened(d) == IF sess = session THEN inbox[d] ELSE OpenSession(inbox[d])
             outcome(d) == IF d \in stopSeen THEN "canceled" ELSE "failed"
             staged(d) == IF opened(d).state \in Executable /\ ~opened(d).cancel
                          THEN StageCancellation(opened(d), outcome(d), FALSE) ELSE opened(d)
  <1>1. /\ proc = "down" /\ proc' = "reconciling" /\ session' = sess
        /\ inbox' = [d \in Dispatch |-> staged(d)]
        /\ UNCHANGED <<sock, local, work, toGate, toDevice>>
    BY DEF Start
  <1>2. session \in Nat /\ sess \in Nat /\ session <= sess /\ sock = "none"
    BY <1>1 DEF IInv, Typed, SocketOK
  <1>3. ASSUME NEW d \in Dispatch
        PROVE  /\ staged(d) \in InboxType /\ Strands(inbox[d], staged(d), session, sess)
               /\ staged(d).state \in Executable => staged(d).cancel
               /\ local[d].beat.phase = "idle"
    <2>1. inbox[d] \in InboxType /\ inbox[d].sess <= session
      BY DEF IInv, Typed, DispatchOK, RowOK
    <2>2. local[d].beat.phase = "idle"
      BY <1>1 DEF IInv, DispatchOK, BeatOK
    <2>3. CASE sess = session
      <3>1. CASE inbox[d].state \in Executable /\ ~inbox[d].cancel
        <4>1. staged(d) = StageCancellation(inbox[d], outcome(d), FALSE)
          BY <2>3, <3>1
        <4>2. outcome(d) \in Outcome
          BY DEF Outcome
        <4> DEFINE q == StageCancellation(inbox[d], outcome(d), FALSE)
        <4> HIDE DEF staged, outcome
        <4>3. q \in InboxType /\ Strands(inbox[d], q, session, sess)
              /\ (inbox[d].state \in Unfinished => q.cancel)
          BY <2>1, <4>2, StagedStrands
        <4> QED
          BY <2>2, <3>1, <4>1, <4>3 DEF Unfinished
      <3>2. CASE ~(inbox[d].state \in Executable /\ ~inbox[d].cancel)
        <4>1. staged(d) = inbox[d]
          BY <2>3, <3>2
        <4> HIDE DEF staged
        <4> QED
          BY <2>1, <2>2, <3>2, <4>1 DEF Strands
      <3> QED
        BY <3>1, <3>2
    <2>4. CASE sess # session
      <3>1. /\ OpenSession(inbox[d]) \in InboxType
            /\ Strands(inbox[d], OpenSession(inbox[d]), session, sess)
            /\ OpenSession(inbox[d]).state \in Executable => OpenSession(inbox[d]).cancel
        BY <1>2, <2>1, <2>4, OpenedStrands
      <3>2. staged(d) = OpenSession(inbox[d])
        BY <2>4, <3>1
      <3> HIDE DEF staged
      <3> QED
        BY <2>2, <3>1, <3>2
    <2> QED
      BY <2>3, <2>4
  <1> HIDE DEF staged
  <1>4. inbox' \in [Dispatch -> InboxType] /\ \A d \in Dispatch : inbox'[d] = staged(d)
    BY <1>1, <1>3
  <1> QED
    BY <1>1, <1>2, <1>3, <1>4, StrandsKeeps DEF Life

\* A rotation opens the next session.
LEMMA RotateEndsKeeps ==
    ASSUME IInv, RotateEnds(session + 1), Stays
    PROVE  IInv'
  <1>1. /\ proc = "rotating" /\ proc' = "reconciling" /\ session' = session + 1
        /\ inbox' = [d \in Dispatch |-> OpenSession(inbox[d])]
        /\ UNCHANGED <<sock, local, work, toGate, toDevice>>
    BY DEF RotateEnds
  <1>2. session \in Nat /\ session' \in Nat /\ session < session' /\ sock = "none"
    BY <1>1 DEF IInv, Typed, SocketOK
  <1>3. ASSUME NEW d \in Dispatch
        PROVE  /\ OpenSession(inbox[d]) \in InboxType
               /\ Strands(inbox[d], OpenSession(inbox[d]), session, session')
               /\ OpenSession(inbox[d]).state \in Executable => OpenSession(inbox[d]).cancel
               /\ local[d].beat.phase = "idle"
    <2>1. inbox[d] \in InboxType /\ inbox[d].sess <= session
      BY DEF IInv, Typed, DispatchOK, RowOK
    <2>2. local[d].beat.phase = "idle"
      BY <1>1 DEF IInv, DispatchOK, BeatOK
    <2> QED
      BY <1>2, <2>1, <2>2, OpenedStrands
  <1>4. inbox' \in [Dispatch -> InboxType]
    BY <1>1, <1>3
  <1> QED
    BY <1>1, <1>2, <1>3, <1>4, StrandsKeeps DEF Life

\* A stop cancels every run.
LEMMA StopStagesKeeps ==
    ASSUME IInv, StopStages, Stays
    PROVE  IInv'
  <1> DEFINE staged(d) == IF inbox[d].state \in Executable
                          THEN StageCancellation(inbox[d], "canceled", inbox[d].sess # session)
                          ELSE inbox[d]
  <1>1. /\ proc = "stopping" /\ proc' = "draining"
        /\ inbox' = [d \in Dispatch |-> staged(d)]
        /\ \A d \in Dispatch : local[d].beat.phase = "idle"
        /\ UNCHANGED <<session, sock, local, work, toGate, toDevice>>
    BY DEF StopStages
  <1>2. ASSUME NEW d \in Dispatch
        PROVE  /\ staged(d) \in InboxType /\ Strands(inbox[d], staged(d), session, session)
               /\ staged(d).state \in Executable => staged(d).cancel
    <2>1. inbox[d] \in InboxType /\ inbox[d].sess <= session /\ inbox[d].sess \in Nat /\ session \in Nat
      BY DEF IInv, Typed, DispatchOK, RowOK, InboxType
    <2>2. (inbox[d].sess # session) \in BOOLEAN /\ (inbox[d].sess # session => inbox[d].sess < session)
      BY <2>1
    <2>3. CASE inbox[d].state \in Executable
      <3> DEFINE orphan == inbox[d].sess # session
                 q == StageCancellation(inbox[d], "canceled", orphan)
      <3>1. staged(d) = q
        BY <2>3
      <3> HIDE DEF staged
      <3>2. q \in InboxType /\ Strands(inbox[d], q, session, session)
            /\ (inbox[d].state \in Unfinished => q.cancel)
        BY <2>1, <2>2, StagedStrands DEF Outcome
      <3> QED
        BY <2>3, <3>1, <3>2 DEF Unfinished
    <2>4. CASE inbox[d].state \notin Executable
      <3>1. staged(d) = inbox[d]
        BY <2>4
      <3> QED
        BY <2>1, <2>4, <3>1 DEF Strands
    <2> QED
      BY <2>3, <2>4
  <1> HIDE DEF staged
  <1>3. inbox' \in [Dispatch -> InboxType] /\ \A d \in Dispatch : inbox'[d] = staged(d)
    BY <1>1, <1>2
  <1>4. session \in Nat /\ session' \in Nat /\ session <= session' /\ session' = session
    BY <1>1 DEF IInv, Typed
  <1> QED
    BY <1>1, <1>2, <1>3, <1>4, StrandsKeeps DEF Life

\* What reconciling makes of a row that owes a receipt, and of its memory.
Reconciles(r, q, l, m, s) ==
    \/ q = r /\ m = l
    \/ /\ r.state = "terminal_pending" /\ q.state \in Closed /\ Ended(s) /\ m = l
       /\ q.sess = r.sess /\ q.cancel = r.cancel /\ q.orphan = r.orphan
    \/ /\ r.state = "terminal_pending" /\ q.state = r.state /\ q.sess = r.sess
       /\ q.cancel /\ q.orphan = r.orphan /\ q.outcome # "none"
       /\ m.offer = l.offer /\ m.flush = l.flush /\ m.beat = l.beat
       /\ m.cancel = "rpc" /\ m.task = "join"

\* What is known of a row survives reconciling.
LEMMA ReconciledRow ==
    ASSUME NEW r, NEW q, NEW l, NEW m, NEW w, NEW s, NEW ss,
           RowOK(r, ss), WorkOK(r, w), MemoryOK(r, l, w), Attended(r, l, "reconciling"),
           HandoverOK(r, l, s, ss), Reconciles(r, q, l, m, s),
           ~r.cancel, l.task = "idle", l.beat.phase = "idle"
    PROVE  /\ RowOK(q, ss) /\ WorkOK(q, w) /\ MemoryOK(q, m, w) /\ Attended(q, m, "up")
           /\ HandoverOK(q, m, s, ss) /\ BeatOK(q, m, s, "up") /\ Later(r, q)
           /\ q.state \in Closed /\ r.state \notin Closed => Ended(s)
  <1>1. CASE q = r /\ m = l
    BY <1>1 DEF Attended, BeatOK, Later
  <1>2. CASE /\ r.state = "terminal_pending" /\ q.state \in Closed /\ Ended(s) /\ m = l
             /\ q.sess = r.sess /\ q.cancel = r.cancel /\ q.orphan = r.orphan
    <2>1. RowOK(q, ss) /\ WorkOK(q, w) /\ Later(r, q)
      BY <1>2 DEF RowOK, WorkOK, Later, Closed, Executable
    <2>2. MemoryOK(q, m, w) /\ HandoverOK(q, m, s, ss)
      BY <1>2 DEF MemoryOK, HandoverOK, Closed, Executable
    <2> QED
      BY <1>2, <2>1, <2>2 DEF Attended, BeatOK, Closed
  <1>3. CASE /\ r.state = "terminal_pending" /\ q.state = r.state /\ q.sess = r.sess
             /\ q.cancel /\ q.orphan = r.orphan /\ q.outcome # "none"
             /\ m.offer = l.offer /\ m.flush = l.flush /\ m.beat = l.beat
             /\ m.cancel = "rpc" /\ m.task = "join"
    <2>1. RowOK(q, ss) /\ WorkOK(q, w) /\ Later(r, q)
      BY <1>3 DEF RowOK, WorkOK, Later
    <2>2. MemoryOK(q, m, w) /\ HandoverOK(q, m, s, ss)
      BY <1>3 DEF MemoryOK, HandoverOK
    <2> QED
      BY <1>3, <2>1, <2>2 DEF Attended, BeatOK, Closed
  <1> QED
    BY <1>1, <1>2, <1>3 DEF Reconciles

\* The bridge has reconciled, and goes up.
LEMMA ReadyKeeps ==
    ASSUME IInv, NEW answered, Ready(answered, summary), Stays
    PROVE  IInv'
  <1> DEFINE owed(d) == /\ d \in answered
                        /\ inbox[d].state = "terminal_pending" /\ inbox[d].sess = session
             stopping(d) == /\ owed(d) /\ summary[d].placement # "cloud"
                            /\ summary[d].state = "cancel_pending"
             row(d) == IF ~owed(d) THEN inbox[d]
                       ELSE IF summary[d].placement = "cloud" THEN MarkOrphaned(inbox[d])
                       ELSE IF IsTerminalDispatchState(summary[d].state) THEN MarkTerminal(inbox[d])
                       ELSE IF stopping(d) THEN StageCancellation(inbox[d], "canceled", FALSE)
                       ELSE inbox[d]
             memo(d) == IF stopping(d)
                        THEN [local[d] EXCEPT !.cancel = "rpc", !.task = "join"] ELSE local[d]
  <1>1. /\ proc = "reconciling" /\ proc' = "up"
        /\ \A d \in Dispatch : ~inbox[d].cancel /\ local[d].task = "idle"
        /\ inbox' = [d \in Dispatch |-> row(d)] /\ local' = [d \in Dispatch |-> memo(d)]
        /\ UNCHANGED <<session, sock, work, toGate, toDevice, summary, presence, faults, stops>>
    BY DEF Ready, Stays, gateVars, counters
  <1>2. ASSUME NEW d \in Dispatch
        PROVE  /\ row(d) \in InboxType /\ memo(d) \in LocalType
               /\ Reconciles(inbox[d], row(d), local[d], memo(d), summary[d])
    <2>1. inbox[d] \in InboxType /\ local[d] \in LocalType /\ ~inbox[d].cancel
      BY <1>1 DEF IInv, Typed
    <2>2. CASE owed(d) /\ summary[d].placement = "cloud"
      <3> DEFINE q == [inbox[d] EXCEPT !.state = "orphaned"]
      <3>1. row(d) = q /\ memo(d) = local[d]
        BY <2>1, <2>2 DEF MarkOrphaned
      <3>2. /\ q \in InboxType /\ q.state = "orphaned" /\ q.sess = inbox[d].sess
            /\ q.cancel = inbox[d].cancel /\ q.orphan = inbox[d].orphan
        BY <2>1, MarkFields DEF Closed
      <3> HIDE DEF q, row, memo
      <3> QED
        BY <2>1, <2>2, <3>1, <3>2 DEF Reconciles, Closed, Ended
    <2>3. CASE /\ owed(d) /\ summary[d].placement # "cloud"
               /\ IsTerminalDispatchState(summary[d].state)
      <3> DEFINE q == [inbox[d] EXCEPT !.state = "terminal"]
      <3>1. row(d) = q /\ memo(d) = local[d]
        BY <2>1, <2>3 DEF MarkTerminal, IsTerminalDispatchState, TerminalDispatchState
      <3>2. /\ q \in InboxType /\ q.state = "terminal" /\ q.sess = inbox[d].sess
            /\ q.cancel = inbox[d].cancel /\ q.orphan = inbox[d].orphan
        BY <2>1, MarkFields DEF Closed
      <3> HIDE DEF q, row, memo
      <3> QED
        BY <2>1, <2>3, <3>1, <3>2 DEF Reconciles, Closed, Ended
    <2>4. CASE stopping(d)
      <3> DEFINE q == [inbox[d] EXCEPT !.cancel = TRUE, !.orphan = @ \/ FALSE, !.outcome = "canceled"]
                 m == [local[d] EXCEPT !.cancel = "rpc", !.task = "join"]
      <3>1. row(d) = q /\ memo(d) = m
        BY <2>4 DEF StageCancellation, Unfinished, IsTerminalDispatchState, TerminalDispatchState
      <3>2. /\ q \in InboxType /\ q.state = inbox[d].state /\ q.sess = inbox[d].sess
            /\ q.cancel = TRUE /\ q.orphan = inbox[d].orphan /\ q.outcome = "canceled"
        BY <2>1 DEF InboxType, Outcome
      <3>3. m \in LocalType
        BY <2>1 DEF LocalType
      <3>4. /\ m.offer = local[d].offer /\ m.flush = local[d].flush /\ m.beat = local[d].beat
            /\ m.cancel = "rpc" /\ m.task = "join"
        BY <2>1 DEF LocalType
      <3> HIDE DEF q, m, row, memo
      <3> QED
        BY <2>4, <3>1, <3>2, <3>3, <3>4 DEF Reconciles
    <2>5. CASE row(d) = inbox[d] /\ memo(d) = local[d]
      BY <2>1, <2>5 DEF Reconciles
    <2> QED
      BY <2>2, <2>3, <2>4, <2>5
  <1> HIDE DEF row, memo
  <1>3. /\ inbox' \in [Dispatch -> InboxType] /\ local' \in [Dispatch -> LocalType]
        /\ \A d \in Dispatch : inbox'[d] = row(d) /\ local'[d] = memo(d)
    BY <1>1, <1>2
  <1>4. Typed'
    BY <1>1, <1>3 DEF IInv, Typed, Life
  <1>5. SocketOK' /\ LeftOf(toDevice')
    BY <1>1, LeftOvers DEF IInv, SocketOK
  <1>6. toDevice' = <<>> /\ session <= session'
    BY <1>1 DEF IInv, SocketOK, Typed
  <1>7. ASSUME NEW d \in Dispatch
        PROVE  /\ LeftOK(d)' /\ Later(inbox[d], inbox'[d])
               /\ inbox'[d].state \in Closed /\ inbox[d].state \notin Closed
                    => MayClose(d, toDevice', session')
    <2>1. /\ DispatchOK(d) /\ ~inbox[d].cancel /\ local[d].task = "idle"
          /\ local[d].beat.phase = "idle"
          /\ Reconciles(inbox[d], inbox'[d], local[d], local'[d], summary[d])
      BY <1>1, <1>2, <1>3 DEF IInv, DispatchOK, BeatOK
    <2>2. /\ RowOK(inbox'[d], session) /\ WorkOK(inbox'[d], work[d])
          /\ MemoryOK(inbox'[d], local'[d], work[d]) /\ Attended(inbox'[d], local'[d], "up")
          /\ HandoverOK(inbox'[d], local'[d], summary[d], session)
          /\ BeatOK(inbox'[d], local'[d], summary[d], "up") /\ Later(inbox[d], inbox'[d])
          /\ inbox'[d].state \in Closed /\ inbox[d].state \notin Closed => Ended(summary[d])
      BY <1>1, <2>1, ReconciledRow DEF DispatchOK
    <2>3. Quiet(d, toDevice')
      BY <1>6 DEF Quiet
    <2> QED
      BY <1>1, <2>2, <2>3 DEF LeftOK, MayClose
  <1> QED
    BY <1>1, <1>4, <1>5, <1>6, <1>7, LifeKeeps, SameGateFrames

-----------------------------------------------------------------------------
(* A step of the gate.                                                     *)

\* How the summary of one dispatch moves, given its row at the computer.
Follows(r, s, s1, ss) ==
    /\ Ended(s) => Ended(s1)
    /\ s.sess < ss /\ r.state \in Closed => s1.sess < ss
    /\ s.state # "absent" => s1.state # "absent"
    /\ s.state \notin {"absent", "offering"} => s1.state \notin {"absent", "offering"}
    /\ s.placement = "computer" => s1.placement = "computer" /\ s1.sess = s.sess
    /\ s1.placement = "computer" =>
         s.placement = "computer" \/ r.state # "absent" \/ s.state = "absent"

\* Frames under way stay true while the summary they speak of moves.
LEMMA FramesFollow ==
    ASSUME NEW r, NEW s, NEW s1, NEW ss \in Nat, s.sess \in Nat, Follows(r, s, s1, ss)
    PROVE  /\ \A f : ToGateOK(f, r, s, ss) => ToGateOK(f, r, s1, ss)
           /\ \A f : ToDeviceOK(f, r, s, ss) => ToDeviceOK(f, r, s1, ss)
  <1>1. ASSUME NEW f, ToGateOK(f, r, s, ss) PROVE ToGateOK(f, r, s1, ss)
    BY <1>1 DEF ToGateOK, Follows
  <1>2. ASSUME NEW f, ToDeviceOK(f, r, s, ss) PROVE ToDeviceOK(f, r, s1, ss)
    <2>1. Starts(f) => f.type = "dispatch" /\ ~Ends(f)
      BY DEF Starts, Ends, IsTerminalDispatchState, TerminalDispatchState
    <2> QED
      BY <1>2, <2>1 DEF ToDeviceOK, Follows
  <1> QED
    BY <1>1, <1>2

\* What the gate says is appended to what it said before.
LEMMA Told ==
    ASSUME Typed, NEW f \in FrameToDevice, NEW frames \in {<<>>, <<f>>}, Tell(frames)
    PROVE  /\ toDevice' \in Seq(FrameToDevice)
           /\ \/ toDevice' = toDevice
              \/ /\ presence[Me].connected /\ sock # "none" /\ frames = <<f>>
                 /\ toDevice' = toDevice \o <<f>>
           /\ \A i \in DOMAIN toDevice' :
                \/ i \in DOMAIN toDevice /\ toDevice'[i] = toDevice[i]
                \/ /\ toDevice'[i] = f /\ i = Len(toDevice) + 1
                   /\ presence[Me].connected /\ sock # "none" /\ frames = <<f>>
  <1>0. toDevice \in Seq(FrameToDevice) /\ <<f>> \in Seq(FrameToDevice)
    BY DEF Typed
  <1>1. \/ toDevice' = toDevice
        \/ /\ presence[Me].connected /\ sock # "none" /\ frames = <<f>>
           /\ toDevice' = toDevice \o <<f>>
    <2>1. toDevice \o <<>> = toDevice
      BY <1>0
    <2> QED
      BY <2>1 DEF Tell
  <1>2. CASE toDevice' = toDevice
    BY <1>0, <1>2
  <1>3. CASE /\ presence[Me].connected /\ sock # "none" /\ frames = <<f>>
             /\ toDevice' = toDevice \o <<f>>
    <2>1. /\ toDevice \o <<f>> \in Seq(FrameToDevice)
          /\ \A i \in DOMAIN (toDevice \o <<f>>) :
                \/ i \in DOMAIN toDevice /\ (toDevice \o <<f>>)[i] = toDevice[i]
                \/ \E j \in DOMAIN <<f>> :
                     i = Len(toDevice) + j /\ (toDevice \o <<f>>)[i] = <<f>>[j]
      BY <1>0, ConcatElements
    <2>2. \A j \in DOMAIN <<f>> : j = 1 /\ <<f>>[j] = f
      OBVIOUS
    <2> QED
      BY <1>3, <2>1, <2>2
  <1> QED
    BY <1>1, <1>2, <1>3

\* The gate moves one summary and tells the computer at most one frame of it.
LEMMA GateKeeps ==
    ASSUME IInv, NEW d \in Dispatch, NEW f \in FrameToDevice, f.d = d,
           NEW frames \in {<<>>, <<f>>}, Tell(frames),
           UNCHANGED <<inbox, session, proc, sock, work, presence>>,
           faults' \in Nat, stops' \in Nat,
           toGate' = toGate \/ (toGate # <<>> /\ toGate' = Tail(toGate)),
           summary' \in [Dispatch -> Gate!SummaryType],
           local' \in [Dispatch -> LocalType],
           \A e \in Dispatch : e # d => summary'[e] = summary[e] /\ local'[e] = local[e],
           local'[d].task = local[d].task, local'[d].beat = local[d].beat,
           MemoryOK(inbox[d], local'[d], work[d]),
           SummaryOK(summary'[d], session),
           HandoverOK(inbox[d], local'[d], summary'[d], session),
           Follows(inbox[d], summary[d], summary'[d], session),
           frames = <<f>> /\ presence[Me].connected /\ sock # "none"
             => /\ ToDeviceOK(f, inbox[d], summary'[d], session)
                /\ Starts(f) => ~Ended(summary[d])
    PROVE  IInv'
  <1>0. /\ Typed /\ toGate \in Seq(FrameToGate) /\ toDevice \in Seq(FrameToDevice)
        /\ \A e \in Dispatch : summary[e].sess \in Nat /\ session \in Nat
    BY SummaryTyped DEF IInv, Typed
  <1>1. /\ toDevice' \in Seq(FrameToDevice)
        /\ \/ toDevice' = toDevice
           \/ /\ presence[Me].connected /\ sock # "none" /\ frames = <<f>>
              /\ toDevice' = toDevice \o <<f>>
        /\ \A i \in DOMAIN toDevice' :
             \/ i \in DOMAIN toDevice /\ toDevice'[i] = toDevice[i]
             \/ /\ toDevice'[i] = f /\ i = Len(toDevice) + 1
                /\ presence[Me].connected /\ sock # "none" /\ frames = <<f>>
    BY <1>0, Told
  <1>2. /\ toGate' \in Seq(FrameToGate)
        /\ \A i \in DOMAIN toGate' : \E j \in DOMAIN toGate : toGate'[i] = toGate[j]
    <2>1. CASE toGate' = toGate
      BY <1>0, <2>1
    <2>2. CASE toGate # <<>> /\ toGate' = Tail(toGate)
      <3>1. /\ Tail(toGate) \in Seq(FrameToGate)
            /\ \A i \in DOMAIN Tail(toGate) : i + 1 \in DOMAIN toGate /\ Tail(toGate)[i] = toGate[i + 1]
        BY <1>0, <2>2, TailElements
      <3> QED
        BY <2>2, <3>1
    <2> QED
      BY <2>1, <2>2
  <1>3. Typed'
    BY <1>1, <1>2 DEF IInv, Typed
  <1>4. SocketOK'
    BY <1>1 DEF IInv, SocketOK
  <1>5. ASSUME NEW e \in Dispatch
        PROVE  /\ Follows(inbox[e], summary[e], summary'[e], session)
               /\ \A g : ToGateOK(g, inbox[e], summary[e], session)
                           => ToGateOK(g, inbox[e], summary'[e], session)
               /\ \A g : ToDeviceOK(g, inbox[e], summary[e], session)
                           => ToDeviceOK(g, inbox[e], summary'[e], session)
    <2>1. Follows(inbox[e], summary[e], summary'[e], session)
      <3>1. CASE e = d
        BY <3>1
      <3>2. CASE e # d
        BY <3>2 DEF Follows
      <3> QED
        BY <3>1, <3>2
    <2> QED
      BY <1>0, <2>1, FramesFollow
  <1>6. ASSUME NEW i \in DOMAIN toGate'
        PROVE  ToGateOK(toGate'[i], inbox[toGate'[i].d], summary'[toGate'[i].d], session)
    <2> PICK j \in DOMAIN toGate : toGate'[i] = toGate[j]
      BY <1>2
    <2>0. toGate[j] \in FrameToGate
      BY <1>0, Elements
    <2>1. toGate[j].d \in Dispatch
      BY <2>0 DEF FrameToGate
    <2>2. ToGateOK(toGate[j], inbox[toGate[j].d], summary[toGate[j].d], session)
      BY DEF IInv, FramesOK
    <2> QED
      BY <1>5, <2>1, <2>2
  <1>7. ASSUME NEW i \in DOMAIN toDevice'
        PROVE  ToDeviceOK(toDevice'[i], inbox[toDevice'[i].d], summary'[toDevice'[i].d], session)
    <2>1. CASE i \in DOMAIN toDevice /\ toDevice'[i] = toDevice[i]
      <3>0. toDevice[i] \in FrameToDevice
        BY <1>0, <2>1, Elements
      <3>1. toDevice[i].d \in Dispatch
        BY <3>0 DEF FrameToDevice
      <3>2. ToDeviceOK(toDevice[i], inbox[toDevice[i].d], summary[toDevice[i].d], session)
        BY <2>1 DEF IInv, FramesOK
      <3> QED
        BY <1>5, <2>1, <3>1, <3>2
    <2>2. CASE toDevice'[i] = f /\ presence[Me].connected /\ sock # "none" /\ frames = <<f>>
      BY <2>2
    <2> QED
      BY <1>1, <1>7, <2>1, <2>2
  <1>8. InOrder(toDevice')
    <2> SUFFICES ASSUME NEW i \in DOMAIN toDevice', NEW j \in DOMAIN toDevice',
                        i < j, Ends(toDevice'[i]), Starts(toDevice'[j])
                 PROVE  toDevice'[i].d # toDevice'[j].d
      BY DEF InOrder
    <2>0. /\ DOMAIN toDevice = 1 .. Len(toDevice) /\ Len(toDevice) \in Nat
          /\ DOMAIN toDevice' = 1 .. Len(toDevice') /\ Len(toDevice') \in Nat
      BY <1>0, <1>1, LenProperties
    <2>1. CASE j \in DOMAIN toDevice /\ toDevice'[j] = toDevice[j]
      <3>0. i \in DOMAIN toDevice /\ i # Len(toDevice) + 1
        BY <2>0, <2>1
      <3>1. i \in DOMAIN toDevice /\ toDevice'[i] = toDevice[i]
        BY <1>1, <3>0
      <3>2. InOrder(toDevice)
        BY DEF IInv, FramesOK
      <3> QED
        BY <2>1, <3>1, <3>2 DEF InOrder
    <2>2. CASE /\ toDevice'[j] = f /\ j = Len(toDevice) + 1
               /\ presence[Me].connected /\ sock # "none" /\ frames = <<f>>
      <3>0. i \in DOMAIN toDevice /\ i # Len(toDevice) + 1
        BY <2>0, <2>2
      <3>1. i \in DOMAIN toDevice /\ toDevice'[i] = toDevice[i]
        BY <1>1, <3>0
      <3>2. ToDeviceOK(toDevice[i], inbox[toDevice[i].d], summary[toDevice[i].d], session)
        BY <3>1 DEF IInv, FramesOK
      <3>3. Ended(summary[toDevice[i].d])
        BY <3>1, <3>2 DEF ToDeviceOK
      <3> QED
        BY <2>2, <3>1, <3>3
    <2> QED
      BY <1>1, <2>1, <2>2
  <1>9. ASSUME NEW e \in Dispatch PROVE DispatchOK(e)'
    <2>1. DispatchOK(e)
      BY DEF IInv
    <2>2. CASE e # d
      BY <2>1, <2>2 DEF DispatchOK
    <2>3. CASE e = d
      <3>1. Attended(inbox[d], local'[d], proc) /\ BeatOK(inbox[d], local'[d], summary'[d], proc)
        BY <2>1, <2>3 DEF DispatchOK, Attended, BeatOK, Follows
      <3> QED
        BY <2>1, <2>3, <3>1 DEF DispatchOK
    <2> QED
      BY <2>2, <2>3
  <1>10. FramesOK'
    BY <1>6, <1>7, <1>8 DEF FramesOK
  <1> QED
    BY <1>3, <1>4, <1>9, <1>10 DEF IInv

FrameOf(type, d, state) == [type |-> type, d |-> d, state |-> state]

\* The fields of a frame of the gate.
LEMMA FrameFields ==
    ASSUME NEW type \in {"connected", "error", "offer", "withdrawn", "claimed", "cancel", "dispatch"},
           NEW d \in Dispatch, NEW state \in DispatchState \cup {"absent"}
    PROVE  /\ FrameOf(type, d, state) \in FrameToDevice
           /\ FrameOf(type, d, state).type = type /\ FrameOf(type, d, state).d = d
           /\ FrameOf(type, d, state).state = state
           /\ FrameTo(type, d, state) = <<FrameOf(type, d, state)>>
  BY DEF FrameOf, FrameTo, FrameToDevice

\* The bridge does not notice.
LEMMA GateMoves ==
    ASSUME IInv, NEW d \in Dispatch, NEW f \in FrameToDevice, f.d = d,
           NEW frames \in {<<>>, <<f>>}, Tell(frames), BridgeIdle, UNCHANGED presence,
           faults' \in Nat, stops' \in Nat,
           toGate' = toGate \/ (toGate # <<>> /\ toGate' = Tail(toGate)),
           NEW s1 \in Gate!SummaryType, Gate!Put(d, s1),
           SummaryOK(s1, session), HandoverOK(inbox[d], local[d], s1, session),
           Follows(inbox[d], summary[d], s1, session),
           frames = <<f>> /\ presence[Me].connected /\ sock # "none"
             => /\ ToDeviceOK(f, inbox[d], s1, session)
                /\ Starts(f) => ~Ended(summary[d])
    PROVE  IInv'
  <1>1. summary \in [Dispatch -> Gate!SummaryType] /\ local \in [Dispatch -> LocalType]
    BY DEF IInv, Typed
  <1>2. /\ summary' \in [Dispatch -> Gate!SummaryType] /\ summary'[d] = s1
        /\ \A e \in Dispatch : e # d => summary'[e] = summary[e]
    BY <1>1 DEF Gate!Put
  <1>3. MemoryOK(inbox[d], local[d], work[d])
    BY DEF IInv, DispatchOK
  <1>4. UNCHANGED <<inbox, session, proc, sock, work, presence>> /\ local' = local
    BY DEF BridgeIdle
  <1>5. /\ local' \in [Dispatch -> LocalType] /\ local'[d] = local[d]
        /\ \A e \in Dispatch : e # d => summary'[e] = summary[e] /\ local'[e] = local[e]
    BY <1>1, <1>2, <1>4
  <1>6. /\ local'[d].task = local[d].task /\ local'[d].beat = local[d].beat
        /\ MemoryOK(inbox[d], local'[d], work[d]) /\ SummaryOK(summary'[d], session)
        /\ HandoverOK(inbox[d], local'[d], summary'[d], session)
        /\ Follows(inbox[d], summary[d], summary'[d], session)
        /\ frames = <<f>> /\ presence[Me].connected /\ sock # "none"
             => /\ ToDeviceOK(f, inbox[d], summary'[d], session)
                /\ Starts(f) => ~Ended(summary[d])
    BY <1>2, <1>3, <1>5
  <1> QED
    BY <1>2, <1>4, <1>5, <1>6, GateKeeps

\* The gate only speaks.
LEMMA GateSpeaks ==
    ASSUME IInv, NEW d \in Dispatch, NEW f \in FrameToDevice, f.d = d,
           Tell(<<f>>), BridgeIdle, UNCHANGED <<gateVars, counters>>,
           toGate' = toGate \/ (toGate # <<>> /\ toGate' = Tail(toGate)),
           presence[Me].connected /\ sock # "none" => ToDeviceOK(f, inbox[d], summary[d], session),
           ~Starts(f)
    PROVE  IInv'
  <1>1. summary \in [Dispatch -> Gate!SummaryType] /\ local \in [Dispatch -> LocalType]
    BY DEF IInv, Typed
  <1>2. /\ MemoryOK(inbox[d], local[d], work[d]) /\ SummaryOK(summary[d], session)
        /\ HandoverOK(inbox[d], local[d], summary[d], session)
    BY DEF IInv, DispatchOK
  <1>3. /\ UNCHANGED <<inbox, session, proc, sock, work, presence>>
        /\ local' = local /\ summary' = summary /\ faults' \in Nat /\ stops' \in Nat
    BY DEF BridgeIdle, gateVars, counters, IInv, Typed
  <1>4. Follows(inbox[d], summary[d], summary[d], session)
    BY DEF Follows
  <1> DEFINE frames == <<f>>
  <1>5. frames \in {<<>>, <<f>>} /\ Tell(frames)
    OBVIOUS
  <1> HIDE DEF frames
  <1>6. /\ summary' \in [Dispatch -> Gate!SummaryType] /\ local' \in [Dispatch -> LocalType]
        /\ \A e \in Dispatch : e # d => summary'[e] = summary[e] /\ local'[e] = local[e]
        /\ local'[d] = local[d] /\ summary'[d] = summary[d]
    BY <1>1, <1>3
  <1> QED
    BY <1>2, <1>3, <1>4, <1>5, <1>6, GateKeeps

\* A row of the computer, as a dispatch frame tells it.
LEMMA RowNews ==
    ASSUME NEW r, NEW l, NEW s1, NEW ss \in Nat, NEW f,
           f.type = "dispatch", f.state = s1.state, s1.placement = "computer", s1.sess = ss,
           HandoverOK(r, l, s1, ss)
    PROVE  ToDeviceOK(f, r, s1, ss) /\ (Starts(f) => ~Ended(s1))
  <1>1. Starts(f) => ~Ended(s1)
    BY DEF Starts, Ended, IsTerminalDispatchState, TerminalDispatchState
  <1> QED
    BY <1>1 DEF ToDeviceOK, HandoverOK, Starts, Ends, Ended

\* The gate moves a row of the connected session and says so.
LEMMA GateAnnounces ==
    ASSUME IInv, NEW d \in Dispatch, TellDispatch(d), BridgeIdle, UNCHANGED <<presence, counters>>,
           toGate # <<>>, toGate' = Tail(toGate),
           NEW s1 \in Gate!SummaryType, Gate!Put(d, s1),
           s1.placement = "computer", s1.sess = presence[Me].sess,
           SummaryOK(s1, session), HandoverOK(inbox[d], local[d], s1, session),
           Follows(inbox[d], summary[d], s1, session)
    PROVE  IInv'
  <1> DEFINE f == FrameOf("dispatch", d, s1.state)
  <1>0. s1.state \in DispatchState \cup {"absent"}
    BY SameWords DEF Gate!SummaryType
  <1>1. /\ f \in FrameToDevice /\ f.type = "dispatch" /\ f.d = d /\ f.state = s1.state
        /\ FrameTo("dispatch", d, s1.state) = <<f>>
    BY <1>0, FrameFields
  <1>2. summary'[d] = s1
    BY DEF IInv, Typed, Gate!Put
  <1>3. Tell(<<f>>)
    BY <1>1, <1>2 DEF TellDispatch
  <1> HIDE DEF f
  <1>4. faults' \in Nat /\ stops' \in Nat /\ session \in Nat
    BY DEF counters, IInv, Typed
  <1>5. ASSUME sock # "none"
        PROVE  ToDeviceOK(f, inbox[d], s1, session) /\ (Starts(f) => ~Ended(summary[d]))
    <2>1. s1.sess = session
      BY <1>5 DEF IInv, SocketOK
    <2>2. ToDeviceOK(f, inbox[d], s1, session) /\ (Starts(f) => ~Ended(s1))
      BY <1>1, <1>4, <2>1, RowNews
    <2> QED
      BY <2>2 DEF Follows
  <1> QED
    BY <1>1, <1>3, <1>4, <1>5, GateMoves

\* A step of accepted work that leaves it with its computer.
LEMMA StateMoves ==
    ASSUME NEW r, NEW l, NEW s \in Gate!SummaryType, NEW ss \in Nat,
           NEW state \in DispatchState \ {"offering", "computer_claimed"},
           SummaryOK(s, ss), HandoverOK(r, l, s, ss), s.placement = "computer",
           IsTerminalDispatchState(s.state) => IsTerminalDispatchState(state),
           IsTerminalDispatchState(state) => r.state \notin Executable \cup {"absent"}
    PROVE  LET s1 == [s EXCEPT !.state = state] IN
           /\ s1 \in Gate!SummaryType /\ s1.placement = "computer" /\ s1.sess = s.sess
           /\ s1.state = state
           /\ SummaryOK(s1, ss) /\ HandoverOK(r, l, s1, ss) /\ Follows(r, s, s1, ss)
  <1> DEFINE s1 == [s EXCEPT !.state = state]
  <1>1. /\ s1 \in Gate!SummaryType /\ s1.placement = "computer" /\ s1.sess = s.sess
        /\ s1.exec = s.exec /\ s1.state = state /\ s.sess \in Nat
    BY SameWords DEF Gate!SummaryType
  <1>2. state \notin {"absent", "offering", "computer_claimed"}
    BY DEF DispatchState, TerminalDispatchState
  <1> HIDE DEF s1
  <1>3. SummaryOK(s1, ss)
    BY <1>1, <1>2 DEF SummaryOK
  <1>4. HandoverOK(r, l, s1, ss)
    BY <1>1, <1>2 DEF HandoverOK, Ended
  <1>5. Follows(r, s, s1, ss)
    BY <1>1, <1>2 DEF Follows, Ended
  <1> QED
    BY <1>1, <1>3, <1>4, <1>5 DEF s1

\* Work that no computer has accepted goes to the cloud or ends.
LEMMA GoesAway ==
    ASSUME NEW r \in InboxType, NEW l, NEW s \in Gate!SummaryType, NEW ss \in Nat,
           NEW state \in DispatchState \ {"offering", "computer_claimed"},
           NEW s1 \in {Gate!OnCloud(state), Gate!Unplaced(state)},
           s1 = Gate!OnCloud(state) \/ IsTerminalDispatchState(state),
           HandoverOK(r, l, s, ss), s.state # "absent", s.placement # "computer"
    PROVE  /\ s1 \in Gate!SummaryType
           /\ SummaryOK(s1, ss) /\ HandoverOK(r, l, s1, ss) /\ Follows(r, s, s1, ss)
  <1>1. /\ s1 \in Gate!SummaryType /\ s1.placement \in {"none", "cloud"} /\ s1.sess = 0
        /\ s1.exec = NoDevice /\ s1.state = state /\ s.sess \in Nat
        /\ s1.placement = "cloud" \/ IsTerminalDispatchState(state)
    BY SameWords DEF Gate!SummaryType, Gate!OnCloud, Gate!Unplaced
  <1>2. state \notin {"absent", "offering", "computer_claimed"} /\ Ended(s1)
    BY <1>1 DEF DispatchState, TerminalDispatchState, Ended
  <1>3. SummaryOK(s1, ss)
    BY <1>1, <1>2, PlacementAssumption DEF SummaryOK
  <1>4. HandoverOK(r, l, s1, ss)
    <2>1. r.sess \in Nat
      BY DEF InboxType
    <2> QED
      BY <1>1, <1>2, <2>1 DEF HandoverOK
  <1>5. Follows(r, s, s1, ss)
    BY <1>1, <1>2 DEF Follows
  <1> QED
    BY <1>1, <1>3, <1>4, <1>5

\* What the invariant says of one summary.
LEMMA GateFacts ==
    ASSUME IInv, NEW d \in Dispatch
    PROVE  /\ summary[d] \in Gate!SummaryType /\ summary[d].sess \in Nat
           /\ summary[d].state \in DispatchState \cup {"absent"}
           /\ SummaryOK(summary[d], session)
           /\ HandoverOK(inbox[d], local[d], summary[d], session)
           /\ inbox[d] \in InboxType /\ inbox[d].sess \in Nat /\ session \in Nat
           /\ presence[Me].sess \in Nat /\ presence[Me].sess <= session
           /\ faults \in Nat /\ stops \in Nat
  <1>1. presence \in [{Me} -> [connected : BOOLEAN, sess : Nat]]
    BY DEF IInv, Typed
  <1>2. presence[Me].sess \in Nat /\ presence[Me].sess <= session
    BY <1>1 DEF IInv, SocketOK
  <1> QED
    BY <1>2, SummaryTyped DEF IInv, DispatchOK, Typed, InboxType

\* The gate takes a frame of the socket.
Hears == toGate # <<>> /\ toGate' = Tail(toGate) /\ BridgeIdle /\ UNCHANGED counters

\* A claim, granted or granted already.
LEMMA OnClaimKeeps ==
    ASSUME IInv, NEW d \in Dispatch, OnClaim(d), Hears
    PROVE  IInv'
  <1> DEFINE f == FrameOf("claimed", d, "absent")
  <1>1. f \in FrameToDevice /\ f.type = "claimed" /\ f.d = d
    BY FrameFields
  <1>2. Tell(<<f>>)
    BY FrameFields DEF OnClaim
  <1>3. ~Starts(f) /\ ~Ends(f)
    BY <1>1 DEF Starts, Ends
  <1> HIDE DEF f
  <1>4. CASE summary[d].state = "computer_claimed" /\ UNCHANGED gateVars
    <2>1. ToDeviceOK(f, inbox[d], summary[d], session)
      BY <1>1, <1>3, <1>4 DEF ToDeviceOK
    <2> QED
      BY <1>1, <1>2, <1>3, <1>4, <2>1, GateSpeaks DEF Hears
  <1>5. CASE Gate!Claim(Me, d)
    <2> DEFINE s1 == [state |-> "computer_claimed", placement |-> "none",
                      exec |-> Me, sess |-> presence[Me].sess]
    <2>1. summary[d].state = "offering" /\ Gate!Put(d, s1) /\ UNCHANGED presence
      BY <1>5 DEF Gate!Claim
    <2>2. /\ s1 \in Gate!SummaryType /\ s1.state = "computer_claimed" /\ s1.placement = "none"
          /\ s1.sess = presence[Me].sess /\ s1.exec = Me
      BY GateFacts, SameWords DEF Gate!SummaryType, DispatchState
    <2> HIDE DEF s1
    <2>3. SummaryOK(s1, session)
      BY <2>2, GateFacts DEF SummaryOK
    <2>4. inbox[d].state = "absent" /\ local[d].offer # "submitted" /\ summary[d].placement = "none"
      BY <2>1, GateFacts DEF HandoverOK, SummaryOK
    <2>5. HandoverOK(inbox[d], local[d], s1, session)
      BY <2>2, <2>4 DEF HandoverOK, Closed
    <2>6. Follows(inbox[d], summary[d], s1, session)
      BY <2>1, <2>2, <2>4 DEF Follows, Closed, Ended, IsTerminalDispatchState, TerminalDispatchState
    <2>7. ToDeviceOK(f, inbox[d], s1, session)
      BY <1>1, <1>3, <2>2 DEF ToDeviceOK
    <2>8. faults' \in Nat /\ stops' \in Nat
      BY GateFacts DEF Hears, counters
    <2> DEFINE frames == <<f>>
    <2>9. frames \in {<<>>, <<f>>} /\ Tell(frames)
      BY <1>2
    <2> HIDE DEF frames
    <2> QED
      BY <1>1, <1>3, <2>1, <2>2, <2>3, <2>5, <2>6, <2>7, <2>8, <2>9, GateMoves DEF Hears
  <1> QED
    BY <1>4, <1>5 DEF OnClaim

\* What a session owns: a claim, or work it accepted.
LEMMA OwnedIsOurs ==
    ASSUME IInv, NEW d \in Dispatch, Gate!Owns(Me, d), summary[d].state # "computer_claimed"
    PROVE  summary[d].placement = "computer" /\ summary[d].sess = presence[Me].sess
  BY GateFacts DEF Gate!Owns, SummaryOK

\* A move of the state column puts a summary.
LEMMA PutState ==
    ASSUME NEW d, NEW state, Gate!Move(d, state)
    PROVE  Gate!Put(d, [summary[d] EXCEPT !.state = state])
  BY DEF Gate!Move, Gate!Put

\* The gate moves accepted work and tells its computer.
LEMMA MoveIsAnnounced ==
    ASSUME IInv, NEW d \in Dispatch, Gate!Owns(Me, d), summary[d].placement = "computer",
           NEW state \in DispatchState \ {"offering", "computer_claimed"},
           Gate!Move(d, state), UNCHANGED presence, TellDispatch(d), Hears,
           IsTerminalDispatchState(summary[d].state) => IsTerminalDispatchState(state),
           IsTerminalDispatchState(state) => inbox[d].state \notin Executable \cup {"absent"}
    PROVE  IInv'
  <1> DEFINE s1 == [summary[d] EXCEPT !.state = state]
  <1>1. Gate!Put(d, s1)
    BY PutState
  <1>2. /\ s1 \in Gate!SummaryType /\ s1.placement = "computer" /\ s1.sess = summary[d].sess
        /\ SummaryOK(s1, session) /\ HandoverOK(inbox[d], local[d], s1, session)
        /\ Follows(inbox[d], summary[d], s1, session)
    BY GateFacts, StateMoves
  <1> HIDE DEF s1
  <1>3. s1.sess = presence[Me].sess
    BY <1>2 DEF Gate!Owns
  <1> QED
    BY <1>1, <1>2, <1>3, GateAnnounces DEF Hears

\* Running, renewing a lease, and a receipt of work the gate has not closed.
LEMMA ProgressKeeps ==
    ASSUME IInv, NEW d \in Dispatch, TellDispatch(d), Hears,
           \/ Gate!Running(Me, d)
           \/ Gate!Renew(Me, d)
           \/ /\ inbox[d].state \notin Executable \cup {"absent"}
              /\ \E outcome \in Outcome : Gate!Complete(Me, d, outcome)
    PROVE  IInv'
  <1>0. Gate!Owns(Me, d) /\ summary[d].state \in Gate!AcceptedState /\ UNCHANGED presence
    BY DEF Gate!Running, Gate!Renew, Gate!Complete, Gate!AcceptedState
  <1>1. /\ summary[d].placement = "computer" /\ ~IsTerminalDispatchState(summary[d].state)
        /\ summary[d].state \in DispatchState \ {"offering", "computer_claimed"}
    BY <1>0, OwnedIsOurs DEF Gate!AcceptedState, IsTerminalDispatchState, TerminalDispatchState,
         DispatchState
  <1>2. CASE Gate!Running(Me, d)
    <2>1. Gate!Move(d, "computer_running")
      BY <1>2 DEF Gate!Running
    <2>2. /\ "computer_running" \in DispatchState \ {"offering", "computer_claimed"}
          /\ ~IsTerminalDispatchState("computer_running")
      BY DEF DispatchState, IsTerminalDispatchState, TerminalDispatchState
    <2> QED
      BY <1>0, <1>1, <2>1, <2>2, MoveIsAnnounced
  <1>3. CASE Gate!Renew(Me, d)
    <2> PICK state \in {"computer_accepted", "computer_running"} :
             Gate!Move(d, IF summary[d].state = "reconciliation_required"
                          THEN state ELSE summary[d].state)
      BY <1>3 DEF Gate!Renew
    <2> DEFINE next == IF summary[d].state = "reconciliation_required"
                       THEN state ELSE summary[d].state
    <2>1. /\ next \in DispatchState \ {"offering", "computer_claimed"}
          /\ ~IsTerminalDispatchState(next) /\ Gate!Move(d, next)
      BY <1>1 DEF DispatchState, IsTerminalDispatchState, TerminalDispatchState
    <2> HIDE DEF next
    <2> QED
      BY <1>0, <1>1, <2>1, MoveIsAnnounced
  <1>4. CASE /\ inbox[d].state \notin Executable \cup {"absent"}
             /\ \E outcome \in Outcome : Gate!Complete(Me, d, outcome)
    <2> PICK outcome \in Outcome : Gate!Complete(Me, d, outcome)
      BY <1>4
    <2>1. Gate!Move(d, outcome)
      BY DEF Gate!Complete
    <2>2. outcome \in DispatchState \ {"offering", "computer_claimed"}
      BY DEF Outcome, DispatchState, TerminalDispatchState
    <2> QED
      BY <1>0, <1>1, <1>4, <2>1, <2>2, MoveIsAnnounced
  <1> QED
    BY <1>2, <1>3, <1>4

\* A receipt of work that has ended is answered with the row as it ended.
LEMMA EchoKeeps ==
    ASSUME IInv, NEW d \in Dispatch, Hears, Gate!Owns(Me, d),
           IsTerminalDispatchState(summary[d].state), UNCHANGED gateVars, TellDispatch(d)
    PROVE  IInv'
  <1> DEFINE f == FrameOf("dispatch", d, summary[d].state)
  <1>1. /\ f \in FrameToDevice /\ f.type = "dispatch" /\ f.d = d /\ f.state = summary[d].state
        /\ FrameTo("dispatch", d, summary[d].state) = <<f>>
    BY GateFacts, FrameFields
  <1>2. Tell(<<f>>)
    <2>1. summary' = summary
      BY DEF gateVars
    <2> QED
      BY <1>1, <2>1 DEF TellDispatch
  <1> HIDE DEF f
  <1>3. ~Starts(f) /\ Ends(f) /\ Ended(summary[d])
    BY <1>1 DEF Starts, Ends, Ended, IsTerminalDispatchState, TerminalDispatchState
  <1>4. ToDeviceOK(f, inbox[d], summary[d], session)
    BY <1>1, <1>3 DEF ToDeviceOK
  <1> QED
    BY <1>1, <1>2, <1>3, <1>4, GateSpeaks DEF Hears

\* Telling nothing leaves the queue alone.
LEMMA Silence ==
    ASSUME Typed, UNCHANGED toDevice
    PROVE  Tell(<<>>)
  <1>1. toDevice \o <<>> = toDevice
    BY DEF Typed
  <1> QED
    BY <1>1 DEF Tell

\* The gate moves and says nothing.
LEMMA GateSilent ==
    ASSUME IInv, NEW d \in Dispatch, Tell(<<>>), BridgeIdle, UNCHANGED presence,
           faults' \in Nat, stops' \in Nat,
           toGate' = toGate \/ (toGate # <<>> /\ toGate' = Tail(toGate)),
           NEW s1 \in Gate!SummaryType, Gate!Put(d, s1),
           SummaryOK(s1, session), HandoverOK(inbox[d], local[d], s1, session),
           Follows(inbox[d], summary[d], s1, session)
    PROVE  IInv'
  <1> DEFINE f == FrameOf("error", d, "absent")
             frames == <<>>
  <1>1. f \in FrameToDevice /\ f.d = d
    BY FrameFields
  <1> HIDE DEF f
  <1>2. frames \in {<<>>, <<f>>} /\ Tell(frames) /\ frames # <<f>>
    OBVIOUS
  <1> HIDE DEF frames
  <1> QED
    BY <1>1, <1>2, GateMoves

\* A frame changes nothing at the gate, and is answered with nothing or an error.
LEMMA GateIgnores ==
    ASSUME IInv, NEW d \in Dispatch, Hears, UNCHANGED gateVars,
           UNCHANGED toDevice \/ Tell(FrameTo("error", d, "absent"))
    PROVE  IInv'
  <1>1. CASE UNCHANGED toDevice
    <2>1. /\ Tell(<<>>) /\ Gate!Put(d, summary[d]) /\ UNCHANGED presence /\ BridgeIdle
          /\ faults' \in Nat /\ stops' \in Nat
      <3>1. Tell(<<>>)
        BY <1>1, Silence DEF IInv
      <3>2. summary' = summary /\ [summary EXCEPT ![d] = summary[d]] = summary
        BY DEF gateVars, IInv, Typed
      <3> QED
        BY <3>1, <3>2, GateFacts DEF Gate!Put, gateVars, Hears, counters
    <2>2. Follows(inbox[d], summary[d], summary[d], session)
      BY DEF Follows
    <2>3. /\ summary[d] \in Gate!SummaryType /\ SummaryOK(summary[d], session)
          /\ HandoverOK(inbox[d], local[d], summary[d], session)
      BY GateFacts
    <2> QED
      BY <2>1, <2>2, <2>3, GateSilent DEF Hears
  <1>2. CASE Tell(FrameTo("error", d, "absent"))
    <2> DEFINE f == FrameOf("error", d, "absent")
    <2>1. f \in FrameToDevice /\ f.type = "error" /\ f.d = d /\ Tell(<<f>>)
      BY <1>2, FrameFields
    <2> HIDE DEF f
    <2>2. ~Starts(f) /\ ToDeviceOK(f, inbox[d], summary[d], session)
      BY <2>1 DEF Starts, Ends, ToDeviceOK
    <2> QED
      BY <2>1, <2>2, GateSpeaks DEF Hears
  <1> QED
    BY <1>1, <1>2

\* An acknowledged claim is accepted work, told to the row that sent the ack.
LEMMA OnAckKeeps ==
    ASSUME IInv, NEW d \in Dispatch, OnAck(d), Hears,
           inbox[d].state \notin {"absent", "claimed"},
           inbox[d].state \in Closed => Ended(summary[d]) \/ summary[d].sess < session
    PROVE  IInv'
  <1>1. CASE UNCHANGED <<gateVars, toDevice>>
    BY <1>1, GateIgnores
  <1>2. CASE Gate!Ack(Me, d) /\ TellDispatch(d)
    <2> DEFINE s == summary[d]
               s1 == [s EXCEPT !.state = "computer_accepted", !.placement = "computer"]
    <2>1. /\ Gate!Owns(Me, d) /\ s.state = "computer_claimed" /\ UNCHANGED presence
          /\ summary' = [summary EXCEPT ![d].state = "computer_accepted",
                                        ![d].placement = "computer"]
      BY <1>2 DEF Gate!Ack
    <2>2. Gate!Put(d, s1)
      BY <2>1 DEF Gate!Put, IInv, Typed
    <2>3. /\ s \in Gate!SummaryType /\ s.sess \in Nat /\ SummaryOK(s, session)
          /\ HandoverOK(inbox[d], local[d], s, session) /\ session \in Nat
      BY GateFacts
    <2> HIDE DEF s
    <2>4. /\ s1 \in Gate!SummaryType /\ s1.placement = "computer" /\ s1.state = "computer_accepted"
          /\ s1.sess = s.sess /\ s1.exec = s.exec
      BY <2>3, SameWords DEF Gate!SummaryType, DispatchState
    <2> HIDE DEF s1
    <2>5. SummaryOK(s1, session)
      BY <2>3, <2>4 DEF SummaryOK
    <2>6. /\ s.placement = "none" /\ ~Ended(s) /\ ~IsTerminalDispatchState(s1.state)
          /\ inbox[d].state \in Closed => s.sess < session
      BY <2>1, <2>3, <2>4 DEF SummaryOK, Ended, IsTerminalDispatchState, TerminalDispatchState, s
    <2>7. HandoverOK(inbox[d], local[d], s1, session)
      BY <2>3, <2>4, <2>6 DEF HandoverOK
    <2>8. Follows(inbox[d], summary[d], s1, session)
      BY <2>4, <2>6 DEF Follows, s
    <2>9. s1.sess = presence[Me].sess
      BY <2>1, <2>4 DEF Gate!Owns, s
    <2> QED
      BY <1>2, <2>1, <2>2, <2>4, <2>5, <2>7, <2>8, <2>9, GateAnnounces DEF Hears
  <1> QED
    BY <1>1, <1>2 DEF OnAck

\* Falling back, whoever asks for it, and a stop of work nobody accepted.
LEMMA FallbackMoves ==
    ASSUME IInv, NEW d \in Dispatch, MayFallbackToCloud(summary[d].state),
           Gate!Fallback(d) \/ Gate!Put(d, Gate!Unplaced("canceled"))
    PROVE  \E s1 \in Gate!SummaryType :
             /\ Gate!Put(d, s1) /\ SummaryOK(s1, session)
             /\ HandoverOK(inbox[d], local[d], s1, session)
             /\ Follows(inbox[d], summary[d], s1, session)
  <1>0. summary[d].state # "absent" /\ summary[d].placement # "computer"
    BY GateFacts DEF MayFallbackToCloud, SummaryOK
  <1>1. \E state \in DispatchState \ {"offering", "computer_claimed"} :
          \E s1 \in {Gate!OnCloud(state), Gate!Unplaced(state)} :
             /\ s1 = Gate!OnCloud(state) \/ IsTerminalDispatchState(state)
             /\ Gate!Put(d, s1)
    <2>1. /\ {"cloud_committed", "failed", "blocked", "canceled"}
                \subseteq DispatchState \ {"offering", "computer_claimed"}
          /\ IsTerminalDispatchState("blocked") /\ IsTerminalDispatchState("canceled")
      BY DEF DispatchState, IsTerminalDispatchState, TerminalDispatchState
    <2> QED
      BY <2>1 DEF Gate!Fallback
  <1> PICK state \in DispatchState \ {"offering", "computer_claimed"} :
          \E s1 \in {Gate!OnCloud(state), Gate!Unplaced(state)} :
             /\ s1 = Gate!OnCloud(state) \/ IsTerminalDispatchState(state)
             /\ Gate!Put(d, s1)
    BY <1>1
  <1> PICK s1 \in {Gate!OnCloud(state), Gate!Unplaced(state)} :
             /\ s1 = Gate!OnCloud(state) \/ IsTerminalDispatchState(state)
             /\ Gate!Put(d, s1)
    OBVIOUS
  <1>2. /\ summary[d] \in Gate!SummaryType /\ inbox[d] \in InboxType /\ session \in Nat
        /\ HandoverOK(inbox[d], local[d], summary[d], session)
    BY GateFacts
  <1>3. /\ s1 \in Gate!SummaryType /\ SummaryOK(s1, session)
        /\ HandoverOK(inbox[d], local[d], s1, session)
        /\ Follows(inbox[d], summary[d], s1, session)
    BY <1>0, <1>2, GoesAway
  <1> QED
    BY <1>3

\* A released claim falls back.
LEMMA OnReleaseKeeps ==
    ASSUME IInv, NEW d \in Dispatch, OnRelease(d), Hears
    PROVE  IInv'
  <1>1. MayFallbackToCloud(summary[d].state) /\ Gate!Fallback(d) /\ Tell(<<>>)
    BY DEF OnRelease, MayFallbackToCloud
  <1>2. UNCHANGED presence /\ faults' \in Nat /\ stops' \in Nat
    BY <1>1, GateFacts DEF Gate!Fallback, Hears, counters
  <1> PICK s1 \in Gate!SummaryType :
             /\ Gate!Put(d, s1) /\ SummaryOK(s1, session)
             /\ HandoverOK(inbox[d], local[d], s1, session)
             /\ Follows(inbox[d], summary[d], s1, session)
    BY <1>1, FallbackMoves
  <1> QED
    BY <1>1, <1>2, GateSilent DEF Hears

\* Every frame of the computer, granted or refused.
LEMMA GateReceivesKeeps ==
    ASSUME IInv, GateReceives
    PROVE  IInv'
  <1> DEFINE f == Head(toGate)
             d == f.d
  <1>1. toGate # <<>> /\ Hears
    BY DEF GateReceives, Hears
  <1>2. f \in FrameToGate /\ f = toGate[1] /\ 1 \in DOMAIN toGate
    BY <1>1, TailElements DEF IInv, Typed
  <1>3. d \in Dispatch
    BY <1>2 DEF FrameToGate
  <1>4. ToGateOK(f, inbox[d], summary[d], session)
    BY <1>2 DEF IInv, FramesOK
  <1>5. Handles(f) \/ (UNCHANGED gateVars /\ Tell(FrameTo("error", d, "absent")))
    BY DEF GateReceives
  <1> HIDE DEF f, d
  <1>6. CASE UNCHANGED gateVars /\ Tell(FrameTo("error", d, "absent"))
    BY <1>1, <1>3, <1>6, GateIgnores
  <1>7. CASE f.type = "claim" /\ OnClaim(d)
    BY <1>1, <1>3, <1>7, OnClaimKeeps
  <1>8. CASE f.type = "release" /\ OnRelease(d)
    BY <1>1, <1>3, <1>8, OnReleaseKeeps
  <1>9. CASE f.type = "ack" /\ OnAck(d)
    BY <1>1, <1>3, <1>4, <1>9, OnAckKeeps DEF ToGateOK
  <1>10. CASE f.type = "running" /\ Gate!Running(Me, d) /\ TellDispatch(d)
    BY <1>1, <1>3, <1>10, ProgressKeeps
  <1>11. CASE f.type = "renew" /\ Gate!Renew(Me, d) /\ TellDispatch(d)
    BY <1>1, <1>3, <1>11, ProgressKeeps
  <1>12. CASE f.type = "complete" /\ OnComplete(d, f.outcome)
    <2>1. f.outcome \in Outcome /\ inbox[d].state \notin Executable \cup {"absent"}
      BY <1>4, <1>12 DEF ToGateOK
    <2>2. CASE Gate!Complete(Me, d, f.outcome) /\ TellDispatch(d)
      BY <1>1, <1>3, <2>1, <2>2, ProgressKeeps
    <2>3. CASE /\ Gate!Owns(Me, d) /\ IsTerminalDispatchState(summary[d].state)
               /\ UNCHANGED gateVars /\ TellDispatch(d)
      BY <1>1, <1>3, <2>3, EchoKeeps
    <2> QED
      BY <1>12, <2>2, <2>3 DEF OnComplete
  <1> QED
    BY <1>5, <1>6, <1>7, <1>8, <1>9, <1>10, <1>11, <1>12 DEF Handles, d

\* What the gate says of work it takes back or stops.
LEMMA NoticeFields ==
    ASSUME NEW d \in Dispatch, NEW type \in {"withdrawn", "cancel", "offer"}
    PROVE  LET f == FrameOf(type, d, "absent") IN
           /\ f \in FrameToDevice /\ f.type = type /\ f.d = d
           /\ FrameTo(type, d, "absent") = <<f>>
           /\ ~Starts(f) /\ ~Ends(f)
  <1> DEFINE f == FrameOf(type, d, "absent")
  <1>1. /\ f \in FrameToDevice /\ f.type = type /\ f.d = d
        /\ FrameTo(type, d, "absent") = <<f>>
    BY FrameFields
  <1> HIDE DEF f
  <1>2. ~Starts(f) /\ ~Ends(f)
    BY <1>1 DEF Starts, Ends
  <1> QED
    BY <1>1, <1>2 DEF f

\* A move of the gate with one of these notices, or with none.
LEMMA GateNotifies ==
    ASSUME IInv, NEW d \in Dispatch, NEW type \in {"withdrawn", "cancel", "offer"},
           Tell(<<>>) \/ Tell(FrameTo(type, d, "absent")), BridgeIdle, UNCHANGED presence,
           faults' \in Nat, stops' \in Nat, UNCHANGED toGate,
           NEW s1 \in Gate!SummaryType, Gate!Put(d, s1),
           SummaryOK(s1, session), HandoverOK(inbox[d], local[d], s1, session),
           Follows(inbox[d], summary[d], s1, session),
           type = "cancel" => s1.placement = "computer",
           type = "offer" => s1.state # "absent" /\ s1.placement # "computer"
    PROVE  IInv'
  <1>1. CASE Tell(<<>>)
    BY <1>1, GateSilent
  <1>2. CASE Tell(FrameTo(type, d, "absent"))
    <2> DEFINE f == FrameOf(type, d, "absent")
               frames == <<f>>
    <2>1. /\ f \in FrameToDevice /\ f.type = type /\ f.d = d
          /\ FrameTo(type, d, "absent") = <<f>> /\ ~Starts(f) /\ ~Ends(f)
      BY NoticeFields
    <2> HIDE DEF f
    <2>2. frames \in {<<>>, <<f>>} /\ Tell(frames)
      BY <1>2, <2>1
    <2> HIDE DEF frames
    <2>3. ToDeviceOK(f, inbox[d], s1, session)
      BY <2>1 DEF ToDeviceOK
    <2> QED
      BY <2>1, <2>2, <2>3, GateMoves
  <1> QED
    BY <1>1, <1>2

\* New work is offered.
LEMMA SubmitOfferKeeps ==
    ASSUME IInv, NEW d \in Dispatch, SubmitOffer(d)
    PROVE  IInv'
  <1> DEFINE s1 == Gate!Unplaced("offering")
  <1>1. /\ summary[d].state = "absent" /\ Gate!Put(d, s1) /\ UNCHANGED <<presence, toGate>>
        /\ BridgeIdle /\ Tell(FrameTo("offer", d, "absent"))
        /\ faults' \in Nat /\ stops' \in Nat
    BY GateFacts DEF SubmitOffer, Gate!SubmitOffered, counters
  <1>2. /\ s1 \in Gate!SummaryType /\ s1.state = "offering" /\ s1.placement = "none"
        /\ s1.exec = NoDevice /\ s1.sess = 0
    BY SameWords DEF Gate!SummaryType, Gate!Unplaced, DispatchState
  <1> HIDE DEF s1
  <1>3. /\ inbox[d].state = "absent" /\ local[d].offer \notin {"submitted", "check", "wait"}
        /\ summary[d].placement = "none"
    BY <1>1, GateFacts DEF HandoverOK, SummaryOK
  <1>4. SummaryOK(s1, session)
    BY <1>2, GateFacts, PlacementAssumption DEF SummaryOK
  <1>5. HandoverOK(inbox[d], local[d], s1, session)
    BY <1>2, <1>3 DEF HandoverOK, Closed
  <1>6. Follows(inbox[d], summary[d], s1, session)
    BY <1>1, <1>2, <1>3 DEF Follows, Closed, Ended, IsTerminalDispatchState, TerminalDispatchState
  <1> QED
    BY <1>1, <1>2, <1>4, <1>5, <1>6, GateNotifies

\* The computer's own work is accepted at once, and its answer is under way.
LEMMA SubmitOwnKeeps ==
    ASSUME IInv, NEW d \in Dispatch, SubmitOwn(d)
    PROVE  IInv'
  <1> DEFINE s1 == [state |-> "computer_accepted", placement |-> "computer",
                    exec |-> Me, sess |-> presence[Me].sess]
             m == [local[d] EXCEPT !.offer = "submitted"]
             f == FrameOf("dispatch", d, "computer_accepted")
             frames == <<f>>
  <1>1. /\ "own" \in Submits /\ local[d].offer = "idle" /\ inbox[d].state = "absent"
        /\ summary[d].state = "absent" /\ Gate!Put(d, s1)
        /\ local' = [local EXCEPT ![d].offer = "submitted"]
        /\ TellDispatch(d)
        /\ UNCHANGED <<inbox, session, proc, sock, work, presence>> /\ UNCHANGED toGate
        /\ faults' \in Nat /\ stops' \in Nat
    BY GateFacts DEF SubmitOwn, Gate!SubmitOwn, counters
  <1>2. /\ s1 \in Gate!SummaryType /\ s1.state = "computer_accepted" /\ s1.placement = "computer"
        /\ s1.exec = Me /\ s1.sess = presence[Me].sess
    BY GateFacts, SameWords DEF Gate!SummaryType, DispatchState
  <1>3. local \in [Dispatch -> LocalType] /\ summary \in [Dispatch -> Gate!SummaryType]
    BY DEF IInv, Typed
  <1>4. /\ m \in LocalType /\ m.offer = "submitted" /\ m.task = local[d].task
        /\ m.cancel = local[d].cancel /\ m.flush = local[d].flush /\ m.beat = local[d].beat
    BY <1>3 DEF LocalType
  <1> HIDE DEF s1, m
  <1>5. /\ local' \in [Dispatch -> LocalType] /\ local'[d] = m
        /\ summary' \in [Dispatch -> Gate!SummaryType] /\ summary'[d] = s1
        /\ \A e \in Dispatch : e # d => summary'[e] = summary[e] /\ local'[e] = local[e]
    <2>1. local' = [local EXCEPT ![d] = m]
      BY <1>1 DEF m
    <2> QED
      BY <1>1, <1>2, <1>3, <1>4, <2>1 DEF Gate!Put
  <1>6. /\ f \in FrameToDevice /\ f.type = "dispatch" /\ f.d = d /\ f.state = s1.state
        /\ FrameTo("dispatch", d, s1.state) = frames
    BY <1>2, FrameFields DEF DispatchState
  <1>7. Tell(frames) /\ frames \in {<<>>, <<f>>}
    BY <1>1, <1>5, <1>6 DEF TellDispatch
  <1> HIDE DEF f, frames
  <1>8. /\ ~Ended(summary[d]) /\ ~IsTerminalDispatchState(s1.state)
        /\ MemoryOK(inbox[d], local[d], work[d])
    BY <1>1, GateFacts DEF Ended, SummaryOK, IsTerminalDispatchState, TerminalDispatchState,
       IInv, DispatchOK, s1
  <1>9. MemoryOK(inbox[d], m, work[d])
    BY <1>1, <1>4, <1>8 DEF MemoryOK
  <1>10. SummaryOK(s1, session)
    BY <1>2, GateFacts DEF SummaryOK
  <1>11. HandoverOK(inbox[d], m, s1, session)
    BY <1>1, <1>2, <1>4, <1>8 DEF HandoverOK, Closed
  <1>12. Follows(inbox[d], summary[d], s1, session)
    <2>1. summary[d].placement = "none"
      BY <1>1, GateFacts DEF SummaryOK
    <2> QED
      BY <1>1, <1>2, <1>8, <2>1 DEF Follows, Closed
  <1>13. ASSUME sock # "none"
         PROVE  ToDeviceOK(f, inbox[d], s1, session)
    <2>1. s1.sess = session /\ session \in Nat
      BY <1>2, <1>13, GateFacts DEF IInv, SocketOK
    <2> QED
      BY <1>2, <1>6, <1>11, <2>1, RowNews
  <1>14. /\ local'[d].task = local[d].task /\ local'[d].beat = local[d].beat
         /\ MemoryOK(inbox[d], local'[d], work[d]) /\ SummaryOK(summary'[d], session)
         /\ HandoverOK(inbox[d], local'[d], summary'[d], session)
         /\ Follows(inbox[d], summary[d], summary'[d], session)
         /\ frames = <<f>> /\ presence[Me].connected /\ sock # "none"
              => /\ ToDeviceOK(f, inbox[d], summary'[d], session)
                 /\ Starts(f) => ~Ended(summary[d])
    BY <1>4, <1>5, <1>8, <1>9, <1>10, <1>11, <1>12, <1>13
  <1>15. IInv'
    <2>1. /\ UNCHANGED <<inbox, session, proc, sock, work, presence>> /\ toGate' = toGate
          /\ faults' \in Nat /\ stops' \in Nat
      BY <1>1
    <2> QED
      BY <1>5, <1>6, <1>7, <1>14, <2>1, GateKeeps
  <1> QED
    BY <1>15

\* An offer or a claim runs out.
LEMMA GateFallsBackKeeps ==
    ASSUME IInv, NEW d \in Dispatch, GateFallsBack(d)
    PROVE  IInv'
  <1>1. /\ MayFallbackToCloud(summary[d].state) /\ Gate!Fallback(d) /\ BridgeIdle
        /\ Tell(<<>>) \/ Tell(FrameTo("withdrawn", d, "absent"))
        /\ UNCHANGED <<presence, toGate>> /\ faults' \in Nat /\ stops' \in Nat
    BY GateFacts DEF GateFallsBack, Gate!Fallback, counters
  <1> PICK s1 \in Gate!SummaryType :
             /\ Gate!Put(d, s1) /\ SummaryOK(s1, session)
             /\ HandoverOK(inbox[d], local[d], s1, session)
             /\ Follows(inbox[d], summary[d], s1, session)
    BY <1>1, FallbackMoves
  <1> QED
    BY <1>1, GateNotifies

\* The cloud side moves.
LEMMA GateCloudMovesKeeps ==
    ASSUME IInv, NEW d \in Dispatch, GateCloudMoves(d)
    PROVE  IInv'
  <1>1. /\ summary[d].placement = "cloud" /\ BridgeIdle
        /\ UNCHANGED <<presence, toGate, toDevice>> /\ faults' \in Nat /\ stops' \in Nat
    BY GateFacts DEF GateCloudMoves, Gate!CloudMoves, counters
  <1> PICK state \in Gate!CloudState : Gate!Put(d, Gate!OnCloud(state))
    BY DEF GateCloudMoves, Gate!CloudMoves
  <1>2. Tell(<<>>)
    BY <1>1, Silence DEF IInv
  <1>3. state \in DispatchState \ {"offering", "computer_claimed"}
    BY DEF Gate!CloudState, DispatchState, TerminalDispatchState
  <1>4. /\ summary[d] \in Gate!SummaryType /\ inbox[d] \in InboxType /\ session \in Nat
        /\ HandoverOK(inbox[d], local[d], summary[d], session)
        /\ summary[d].state # "absent" /\ summary[d].placement # "computer"
    BY <1>1, GateFacts DEF SummaryOK
  <1> DEFINE s1 == Gate!OnCloud(state)
  <1>5. s1 \in {Gate!OnCloud(state), Gate!Unplaced(state)} /\ s1 = Gate!OnCloud(state)
        /\ Gate!Put(d, s1)
    OBVIOUS
  <1> HIDE DEF s1
  <1>6. /\ s1 \in Gate!SummaryType /\ SummaryOK(s1, session)
        /\ HandoverOK(inbox[d], local[d], s1, session)
        /\ Follows(inbox[d], summary[d], s1, session)
    BY <1>3, <1>4, <1>5, GoesAway
  <1> QED
    BY <1>1, <1>2, <1>5, <1>6, GateSilent

\* Accepted work that asks for a stop or whose lease lapses.
LEMMA AcceptedMoves ==
    ASSUME IInv, NEW d \in Dispatch, summary[d].placement = "computer",
           ~IsTerminalDispatchState(summary[d].state),
           NEW state \in {"cancel_pending", "reconciliation_required"}, Gate!Move(d, state)
    PROVE  \E s1 \in Gate!SummaryType :
             /\ Gate!Put(d, s1) /\ SummaryOK(s1, session) /\ s1.placement = "computer"
             /\ HandoverOK(inbox[d], local[d], s1, session)
             /\ Follows(inbox[d], summary[d], s1, session)
  <1> DEFINE s1 == [summary[d] EXCEPT !.state = state]
  <1>1. Gate!Put(d, s1)
    BY PutState
  <1>2. state \in DispatchState \ {"offering", "computer_claimed"} /\ ~IsTerminalDispatchState(state)
    BY DEF DispatchState, IsTerminalDispatchState, TerminalDispatchState
  <1>3. /\ summary[d] \in Gate!SummaryType /\ session \in Nat
        /\ SummaryOK(summary[d], session)
        /\ HandoverOK(inbox[d], local[d], summary[d], session)
    BY GateFacts
  <1>4. /\ s1 \in Gate!SummaryType /\ s1.placement = "computer" /\ SummaryOK(s1, session)
        /\ HandoverOK(inbox[d], local[d], s1, session)
        /\ Follows(inbox[d], summary[d], s1, session)
    BY <1>2, <1>3, StateMoves
  <1> QED
    BY <1>1, <1>4

\* A lease lapses.
LEMMA GateLeaseLapsesKeeps ==
    ASSUME IInv, NEW d \in Dispatch, GateLeaseLapses(d)
    PROVE  IInv'
  <1>1. /\ summary[d].placement = "computer" /\ ~IsTerminalDispatchState(summary[d].state)
        /\ Gate!Move(d, "reconciliation_required") /\ BridgeIdle
        /\ UNCHANGED <<presence, toGate, toDevice>> /\ faults' \in Nat /\ stops' \in Nat
    BY GateFacts DEF GateLeaseLapses, Gate!LeaseLapses, counters,
       IsTerminalDispatchState, TerminalDispatchState
  <1>2. Tell(<<>>)
    BY <1>1, Silence DEF IInv
  <1> PICK s1 \in Gate!SummaryType :
             /\ Gate!Put(d, s1) /\ SummaryOK(s1, session) /\ s1.placement = "computer"
             /\ HandoverOK(inbox[d], local[d], s1, session)
             /\ Follows(inbox[d], summary[d], s1, session)
    BY <1>1, AcceptedMoves
  <1> QED
    BY <1>1, <1>2, GateSilent

\* The user stops the work.
LEMMA GateStopsKeeps ==
    ASSUME IInv, NEW d \in Dispatch, GateStops(d)
    PROVE  IInv'
  <1>1. /\ ~IsTerminalDispatchState(summary[d].state) /\ BridgeIdle
        /\ UNCHANGED <<presence, toGate>> /\ faults' \in Nat /\ stops' \in Nat
    BY GateFacts, SameWords DEF GateStops, Gate!Stop
  <1>2. Tell(IF summary[d].state = "offering" THEN FrameTo("withdrawn", d, "absent")
             ELSE IF summary[d].placement = "computer" THEN FrameTo("cancel", d, "absent")
             ELSE <<>>)
    BY DEF GateStops
  <1>3. CASE MayFallbackToCloud(summary[d].state) /\ Gate!Put(d, Gate!Unplaced("canceled"))
    <2>1. summary[d].placement # "computer"
      BY <1>3, GateFacts DEF SummaryOK, MayFallbackToCloud
    <2>2. Tell(<<>>) \/ Tell(FrameTo("withdrawn", d, "absent"))
      BY <1>2, <2>1
    <2> PICK s1 \in Gate!SummaryType :
               /\ Gate!Put(d, s1) /\ SummaryOK(s1, session)
               /\ HandoverOK(inbox[d], local[d], s1, session)
               /\ Follows(inbox[d], summary[d], s1, session)
      BY <1>3, FallbackMoves
    <2> QED
      BY <1>1, <2>2, GateNotifies
  <1>4. CASE summary[d].placement = "computer" /\ Gate!Move(d, "cancel_pending")
    <2>1. summary[d].state # "offering"
      BY <1>4, GateFacts DEF SummaryOK
    <2>2. Tell(FrameTo("cancel", d, "absent"))
      BY <1>2, <1>4, <2>1
    <2> PICK s1 \in Gate!SummaryType :
               /\ Gate!Put(d, s1) /\ SummaryOK(s1, session) /\ s1.placement = "computer"
               /\ HandoverOK(inbox[d], local[d], s1, session)
               /\ Follows(inbox[d], summary[d], s1, session)
      BY <1>1, <1>4, AcceptedMoves
    <2> QED
      BY <1>1, <2>2, GateNotifies
  <1> QED
    BY <1>3, <1>4, SameWords DEF GateStops, Gate!Stop

-----------------------------------------------------------------------------
(* Every step, and the theorems.                                           *)

\* Nothing has happened yet.
LEMMA InitHolds == Init => IInv
  <1> SUFFICES ASSUME Init PROVE IInv
    OBVIOUS
  <1>1. /\ inbox = [d \in Dispatch |-> NoInboxRow] /\ session = 1 /\ proc = "up" /\ sock = "none"
        /\ local = [d \in Dispatch |-> Forgotten]
        /\ work = [d \in Dispatch |-> [worker |-> "none", launches |-> 0]]
        /\ toGate = <<>> /\ toDevice = <<>>
        /\ summary = [d \in Dispatch |-> Gate!Unplaced("absent")]
        /\ presence = [p \in {Me} |-> [connected |-> FALSE, sess |-> 0]]
        /\ faults = 0 /\ stops = 0
    BY DEF Init, BridgeInit, Gate!Init
  <1>2. /\ NoInboxRow \in InboxType /\ NoInboxRow.state = "absent" /\ NoInboxRow.sess = 0
        /\ NoInboxRow.cancel = FALSE /\ NoInboxRow.orphan = FALSE
    BY DEF NoInboxRow, InboxType
  <1>3. /\ Gate!Unplaced("absent") \in Gate!SummaryType
        /\ Gate!Unplaced("absent").state = "absent" /\ Gate!Unplaced("absent").placement = "none"
        /\ Gate!Unplaced("absent").exec = NoDevice /\ Gate!Unplaced("absent").sess = 0
    BY DEF Gate!Unplaced, Gate!SummaryType
  <1>4. Typed
    <2>1. inbox \in [Dispatch -> InboxType] /\ session \in Nat /\ proc \in Life
      BY <1>1, <1>2 DEF Life
    <2>2. local \in [Dispatch -> LocalType] /\ work \in [Dispatch -> WorkType]
      BY <1>1, ForgottenFields DEF WorkType
    <2>3. /\ summary \in [Dispatch -> Gate!SummaryType]
          /\ presence \in [{Me} -> [connected : BOOLEAN, sess : Nat]]
      BY <1>1, <1>3
    <2>4. toGate \in Seq(FrameToGate) /\ toDevice \in Seq(FrameToDevice)
      BY <1>1
    <2> QED
      BY <1>1, <2>1, <2>2, <2>3, <2>4 DEF Typed
  <1>5. SocketOK /\ FramesOK
    BY <1>1 DEF SocketOK, FramesOK, InOrder
  <1>6. ASSUME NEW d \in Dispatch PROVE DispatchOK(d)
    <2>1. /\ inbox[d] = NoInboxRow /\ local[d] = Forgotten /\ summary[d] = Gate!Unplaced("absent")
          /\ work[d].worker = "none" /\ work[d].launches = 0
      BY <1>1
    <2>2. RowOK(inbox[d], session) /\ WorkOK(inbox[d], work[d])
      BY <1>1, <1>2, <2>1 DEF RowOK, WorkOK
    <2>3. /\ MemoryOK(inbox[d], local[d], work[d]) /\ Attended(inbox[d], local[d], proc)
          /\ BeatOK(inbox[d], local[d], summary[d], proc)
      BY <1>2, <2>1, ForgottenFields DEF MemoryOK, Attended, BeatOK, Closed
    <2>4. SummaryOK(summary[d], session)
      BY <1>1, <1>3, <2>1, PlacementAssumption DEF SummaryOK
    <2>5. HandoverOK(inbox[d], local[d], summary[d], session)
      BY <1>2, <1>3, <2>1, ForgottenFields DEF HandoverOK, Closed
    <2> QED
      BY <2>2, <2>3, <2>4, <2>5 DEF DispatchOK
  <1> QED
    BY <1>4, <1>5, <1>6 DEF IInv

\* A step of one dispatch.
LEMMA DispatchStep ==
    ASSUME IInv, PromptFrames, NEW d \in Dispatch,
           \/ BridgeStep(d) \/ Resumes(d) \/ Settles(d) \/ LooksUp(d) \/ Retries(d)
           \/ Cancels(d) \/ GateStep(d)
    PROVE  IInv'
  <1>1. CASE BridgeStep(d)
    BY <1>1, AdoptKeeps, BeatBeginsKeeps, WorkerEndsKeeps, RunThrowsKeeps, MemoryMoves
       DEF BridgeStep, Stays
  <1>2. CASE Resumes(d)
    BY <1>2, ClaimOfferKeeps, BeatRenewsKeeps, BeatAsksKeeps, BeatAnsweredKeeps DEF Resumes, Stays
  <1>3. CASE Settles(d)
    BY <1>3, RunReturnsKeeps, MemoryMoves, CancelJoinedKeeps DEF Settles, Stays
  <1>4. CASE LooksUp(d)
    BY <1>4, MemoryMoves, FlushAsksKeeps DEF LooksUp, Stays
  <1>5. CASE Retries(d)
    BY <1>5, RetryOwedKeeps DEF Retries, Stays
  <1>6. CASE Cancels(d)
    BY <1>6, CancelExecutionKeeps DEF Cancels, Stays
  <1>7. CASE GateStep(d)
    BY <1>7, SubmitOfferKeeps, SubmitOwnKeeps, GateFallsBackKeeps, GateCloudMovesKeeps,
       GateStopsKeeps, GateLeaseLapsesKeeps DEF GateStep
  <1> QED
    BY <1>1, <1>2, <1>3, <1>4, <1>5, <1>6, <1>7

\* A step in the life of the process or of the socket.
LEMMA LifeStep ==
    ASSUME IInv, \/ Lifecycle \/ SocketNoticed \/ LifecycleAdvances
                 \/ StopFails /\ UNCHANGED <<gateVars, counters>>
    PROVE  IInv'
  <1>0. faults \in Nat /\ stops \in Nat
    BY DEF IInv, Typed
  <1>1. CASE Lifecycle
    <2>1. faults' \in Nat /\ stops' \in Nat
      BY <1>0, <1>1 DEF Lifecycle, Fault
    <2>2. CASE Drop /\ UNCHANGED gateVars
      BY <2>1, <2>2, SocketClosedKeeps DEF Drop
    <2> QED
      BY <1>1, <2>1, <2>2, CrashKeeps, AnnouncedKeeps, GateDisconnectsKeeps DEF Lifecycle
  <1>2. CASE SocketNoticed
    <2>1. faults' \in Nat /\ stops' \in Nat
      BY <1>0, <1>2 DEF SocketNoticed, counters
    <2>2. CASE Drop /\ UNCHANGED gateVars
      BY <2>1, <2>2, SocketClosedKeeps DEF Drop
    <2> QED
      BY <1>2, <2>1, <2>2, GateDisconnectsKeeps DEF SocketNoticed
  <1>3. CASE LifecycleAdvances
    BY <1>3, StartKeeps, ReadyKeeps, RotateEndsKeeps, StopStagesKeeps, StopEndsKeeps
       DEF LifecycleAdvances, Stays
  <1>4. CASE StopFails /\ UNCHANGED <<gateVars, counters>>
    <2>1. faults' \in Nat /\ stops' \in Nat
      BY <1>0, <1>4 DEF counters
    <2> QED
      BY <1>4, <2>1, SocketClosedKeeps DEF StopFails
  <1> QED
    BY <1>1, <1>2, <1>3, <1>4

\* Nothing happens.
LEMMA StutterKeeps ==
    ASSUME IInv, UNCHANGED vars
    PROVE  IInv'
  <1>1. Typed'
    BY DEF IInv, Typed, vars
  <1>2. SocketOK' /\ FramesOK'
    BY DEF IInv, SocketOK, FramesOK, vars
  <1>3. \A d \in Dispatch : DispatchOK(d)'
    BY DEF IInv, DispatchOK, vars
  <1> QED
    BY <1>1, <1>2, <1>3 DEF IInv

\* Every step keeps the invariant.
LEMMA NextKeeps ==
    ASSUME PromptFrames, IInv, [Next]_vars
    PROVE  IInv'
  <1>1. CASE \E d \in Dispatch :
               \/ BridgeStep(d) \/ Resumes(d) \/ Settles(d) \/ LooksUp(d) \/ Retries(d)
               \/ Cancels(d) \/ GateStep(d)
    BY <1>1, DispatchStep
  <1>2. CASE Receives
    BY <1>2, ReceiveKeeps, ReceiveErrorKeeps, ReceiveConnectedKeeps DEF Receives, Stays
  <1>3. CASE GateReceives \/ FramesLost \/ Connect
    BY <1>3, GateReceivesKeeps, FramesLostKeeps, ConnectKeeps
  <1>4. CASE \/ Lifecycle \/ SocketNoticed \/ LifecycleAdvances
             \/ StopFails /\ UNCHANGED <<gateVars, counters>>
    BY <1>4, LifeStep
  <1>5. CASE UNCHANGED vars
    BY <1>5, StutterKeeps
  <1> QED
    BY <1>1, <1>2, <1>3, <1>4, <1>5 DEF Next

\* The invariant holds of every execution in which no frame is slower than
\* the completion timeout.
LEMMA InvariantHolds ==
    ASSUME PromptFrames
    PROVE  Spec => []IInv
  <1>1. IInv /\ [Next]_vars => IInv'
    BY NextKeeps
  <1> QED
    BY <1>1, InitHolds, PTL DEF Spec

\* The inbox, the bridge's memory, the frames of the socket and the gate's
\* columns always hold values of their types, whatever frames, crashes, stops
\* and account changes come in between.
THEOREM PlacementTypeCorrect ==
    ASSUME PromptFrames
    PROVE  Spec => []TypeOK
  <1>1. IInv => TypeOK
    <2> SUFFICES ASSUME IInv PROVE TypeOK
      OBVIOUS
    <2>1. /\ \A i \in DOMAIN toGate : toGate[i] \in FrameToGate
          /\ \A i \in DOMAIN toDevice : toDevice[i] \in FrameToDevice
      BY Elements DEF IInv, Typed
    <2> QED
      BY <2>1 DEF IInv, Typed, TypeOK, Gate!TypeOK
  <1> QED
    BY <1>1, InvariantHolds, PTL

\* A dispatch is handed to the worker at most once: acceptOrLaunch marks the
\* row running before it calls the worker, and no echo, retry, heartbeat,
\* crash or restart finds a row that says otherwise.
THEOREM RunsAtMostOnce ==
    ASSUME PromptFrames
    PROVE  Spec => []LaunchedOnce
  <1>1. IInv => LaunchedOnce
    BY DEF IInv, DispatchOK, WorkOK, LaunchedOnce
  <1> QED
    BY <1>1, InvariantHolds, PTL

\* A run that is still going has a row that says so: whatever happened to the
\* process that launched it, the next one finds the row and cancels the run.
THEOREM LiveRunsAreRecorded ==
    ASSUME PromptFrames
    PROVE  Spec => []LiveRunIsRecorded
  <1>1. IInv => LiveRunIsRecorded
    BY DEF IInv, DispatchOK, WorkOK, LiveRunIsRecorded, Executable
  <1> QED
    BY <1>1, InvariantHolds, PTL

\* Computer work that the gate shows as ended no longer runs: a receipt is
\* only sent by a row that is past its run.
THEOREM EndedWorkIsQuiet ==
    ASSUME PromptFrames
    PROVE  Spec => []EndedIsQuiet
  <1>1. IInv => EndedIsQuiet
    BY DEF IInv, DispatchOK, WorkOK, HandoverOK, EndedIsQuiet, Executable
  <1> QED
    BY <1>1, InvariantHolds, PTL

\* Work of other devices that this computer's session accepted stays in its
\* inbox, unfinished, until the gate shows it as ended: the ack leaves only
\* after the row is written, and no row is closed on a reading that is stale.
THEOREM AcceptedWorkIsHeld ==
    ASSUME PromptFrames, "own" \notin Submits
    PROVE  Spec => []AcceptedIsHeld
  <1>1. IInv => AcceptedIsHeld
    <2> SUFFICES ASSUME IInv, NEW d \in Dispatch, summary[d].placement = "computer",
                        ~IsTerminalDispatchState(summary[d].state), summary[d].sess = session
                 PROVE  inbox[d].state \in Unfinished
      BY DEF AcceptedIsHeld
    <2>1. inbox[d] \in InboxType /\ session \in Nat
          /\ HandoverOK(inbox[d], local[d], summary[d], session)
      BY GateFacts
    <2>2. inbox[d].state \notin {"absent", "terminal", "orphaned"}
      BY <2>1 DEF HandoverOK, Closed, Ended
    <2> QED
      BY <2>1, <2>2 DEF InboxType
  <1> QED
    BY <1>1, InvariantHolds, PTL

=============================================================================
