------------------------- MODULE DeviceToolsProofs -------------------------
(***************************************************************************)
(* Proofs about a cloud agent's tool call, for any finite number of calls, *)
(* connections, attempts, restarts and evictions.                          *)
(***************************************************************************)
EXTENDS DeviceTools, SequenceTheorems, FiniteSetTheorems, TLAPS

-----------------------------------------------------------------------------
(* Types.                                                                  *)

Kept == [r : Request, code : Code]

\* TypeOK, with the queues as sequences.
Typed ==
    /\ caller \in [Request -> CallerType]
    /\ checking \in [Request -> BOOLEAN]
    /\ pending \in [Request -> PendingType]
    /\ liveSocket \in Nat
    /\ down \in Seq(DownFrame)
    /\ run \in [Request -> RunType]
    /\ answers \in Seq(Kept)
    /\ socket \in [conn : Nat, proven : BOOLEAN]
    /\ up \in Seq(UpFrameType)
    /\ conns \in Nat /\ restarts \in Nat /\ evictions \in Nat
    /\ attempts \in [Request -> Nat]

RelayTyped ==
    /\ caller \in [Request -> CallerType]
    /\ checking \in [Request -> BOOLEAN]
    /\ pending \in [Request -> PendingType]
    /\ liveSocket \in Nat
    /\ down \in Seq(DownFrame)

ServerTyped ==
    /\ run \in [Request -> RunType]
    /\ answers \in Seq(Kept)
    /\ socket \in [conn : Nat, proven : BOOLEAN]
    /\ up \in Seq(UpFrameType)

CountersTyped ==
    /\ conns \in Nat /\ restarts \in Nat /\ evictions \in Nat
    /\ attempts \in [Request -> Nat]

LEMMA TypedParts == Typed <=> RelayTyped /\ ServerTyped /\ CountersTyped
  BY DEF Typed, RelayTyped, ServerTyped, CountersTyped

\* Every element of a sequence over T is in T.
LEMMA Elements ==
    ASSUME NEW T, NEW s \in Seq(T)
    PROVE  \A i \in DOMAIN s : s[i] \in T
  OBVIOUS

\* Where the elements of a concatenation, a tail and a cut sequence come from.
LEMMA ConcatElements ==
    ASSUME NEW T, NEW s \in Seq(T), NEW t \in Seq(T)
    PROVE  /\ s \o t \in Seq(T)
           /\ Len(s \o t) = Len(s) + Len(t)
           /\ \A i \in DOMAIN s : i \in DOMAIN (s \o t) /\ (s \o t)[i] = s[i]
           /\ \A j \in DOMAIN t : /\ Len(s) + j \in DOMAIN (s \o t)
                                 /\ (s \o t)[Len(s) + j] = t[j]
           /\ \A i \in DOMAIN (s \o t) :
                \/ i \in DOMAIN s /\ (s \o t)[i] = s[i]
                \/ \E j \in DOMAIN t : i = Len(s) + j /\ (s \o t)[i] = t[j]
  <1>1. /\ s \o t \in Seq(T) /\ Len(s \o t) = Len(s) + Len(t)
        /\ \A i \in 1 .. Len(s) + Len(t) :
             (s \o t)[i] = IF i <= Len(s) THEN s[i] ELSE t[i - Len(s)]
    BY ConcatProperties
  <1>2. /\ DOMAIN s = 1 .. Len(s) /\ DOMAIN t = 1 .. Len(t)
        /\ DOMAIN (s \o t) = 1 .. Len(s) + Len(t)
        /\ Len(s) \in Nat /\ Len(t) \in Nat
    BY <1>1, LenProperties
  <1>3. ASSUME NEW i \in DOMAIN s
        PROVE  i \in DOMAIN (s \o t) /\ (s \o t)[i] = s[i]
    BY <1>1, <1>2
  <1>4. ASSUME NEW j \in DOMAIN t
        PROVE  Len(s) + j \in DOMAIN (s \o t) /\ (s \o t)[Len(s) + j] = t[j]
    BY <1>1, <1>2
  <1>5. ASSUME NEW i \in DOMAIN (s \o t)
        PROVE  \/ i \in DOMAIN s /\ (s \o t)[i] = s[i]
               \/ \E j \in DOMAIN t : i = Len(s) + j /\ (s \o t)[i] = t[j]
    <2>1. CASE i <= Len(s)
      BY <1>1, <1>2, <2>1
    <2>2. CASE i > Len(s)
      <3>1. i - Len(s) \in DOMAIN t /\ i = Len(s) + (i - Len(s)) /\ (s \o t)[i] = t[i - Len(s)]
        BY <1>1, <1>2, <2>2
      <3> QED
        BY <3>1
    <2> QED
      BY <1>2, <2>1, <2>2
  <1> QED
    BY <1>1, <1>3, <1>4, <1>5

LEMMA TailElements ==
    ASSUME NEW T, NEW s \in Seq(T), s # <<>>
    PROVE  /\ Tail(s) \in Seq(T)
           /\ \A i \in DOMAIN Tail(s) : i + 1 \in DOMAIN s /\ Tail(s)[i] = s[i + 1]
           /\ 1 \in DOMAIN s /\ Head(s) = s[1] /\ Head(s) \in T
           /\ DOMAIN s \subseteq Nat
  OBVIOUS

LEMMA CutElements ==
    ASSUME NEW T, NEW s \in Seq(T), NEW m \in Nat, m >= 1, m <= Len(s) + 1
    PROVE  /\ SubSeq(s, m, Len(s)) \in Seq(T)
           /\ \A i \in DOMAIN SubSeq(s, m, Len(s)) :
                /\ i \in Nat /\ m + i - 1 \in DOMAIN s
                /\ SubSeq(s, m, Len(s))[i] = s[m + i - 1]
  OBVIOUS

LEMMA TypedImpliesTypeOK == Typed => TypeOK
  <1> SUFFICES ASSUME Typed PROVE TypeOK
    OBVIOUS
  <1>1. \A i \in DOMAIN down : down[i] \in DownFrame
    BY Elements DEF Typed
  <1>2. \A i \in DOMAIN answers : answers[i] \in [r : Request, code : Code]
    BY Elements DEF Typed, Kept
  <1>3. \A i \in DOMAIN up : up[i] \in UpFrameType
    BY Elements DEF Typed
  <1> QED
    BY <1>1, <1>2, <1>3 DEF Typed, TypeOK

LEMMA InitTyped == Init => Typed
  <1> SUFFICES ASSUME Init PROVE Typed
    OBVIOUS
  <1>1. RelayTyped
    BY DEF Init, RelayInit, RelayTyped, CallerType, PendingType, NoCall
  <1>2. ServerTyped
    BY DEF Init, ServerInit, ServerTyped, RunType
  <1>3. CountersTyped
    BY DEF Init, CountersTyped
  <1> QED
    BY <1>1, <1>2, <1>3, TypedParts

-----------------------------------------------------------------------------
(* The relay.                                                              *)

LEMMA NoCallType == NoCall \in PendingType
  BY DEF NoCall, PendingType

LEMMA CodesAreCaller == Code \subseteq CallerType
  BY DEF CallerType

\* Putting one frame on the way to the computer.
LEMMA DownSend ==
    ASSUME RelayTyped, NEW conn \in Nat, NEW type \in {"connected", "call", "resume", "cancel"},
           NEW r \in Request
    PROVE  down \o Frame(conn, type, r) \in Seq(DownFrame)
  <1>1. Frame(conn, type, r) \in Seq(DownFrame)
    BY DEF Frame, DownFrame
  <1> QED
    BY <1>1 DEF RelayTyped

LEMMA ToldType ==
    ASSUME RelayTyped, NEW r \in Request, NEW outcome \in Code, Told(r, outcome)
    PROVE  caller' \in [Request -> CallerType]
  BY CodesAreCaller DEF RelayTyped, Told

LEMMA SettleTyped ==
    ASSUME RelayTyped, NEW r \in Request, NEW outcome \in Code, Settle(r, outcome)
    PROVE  caller' \in [Request -> CallerType] /\ pending' \in [Request -> PendingType]
  BY ToldType, NoCallType DEF RelayTyped, Settle

LEMMA WithdrawTyped ==
    ASSUME RelayTyped, NEW r \in Request, Withdraw(r)
    PROVE  down' \in Seq(DownFrame)
  <1>1. pending[r].socket \in Nat
    BY DEF RelayTyped, PendingType
  <1> QED
    BY <1>1, DownSend DEF Withdraw, RelayTyped

LEMMA RelayActionsTyped ==
    ASSUME RelayTyped, NEW r \in Request,
           \/ DeviceTool(r) \/ Call(r) \/ Stop(r) \/ Cancel(r) \/ CallerLost(r) \/ TimerFires(r)
    PROVE  RelayTyped'
  <1>1. CASE DeviceTool(r)
    BY <1>1 DEF DeviceTool, RelayTyped, CallerType
  <1>2. CASE Call(r)
    <2>1. checking' \in [Request -> BOOLEAN] /\ liveSocket' \in Nat
      BY <1>2 DEF Call, RelayTyped
    <2>2. \A o \in {"refused", "device_offline", "device_busy"} :
             Told(r, o) => caller' \in [Request -> CallerType]
      BY ToldType DEF Code
    <2>3. CASE UNCHANGED <<pending, down>>
      <3>1. caller' \in [Request -> CallerType]
        BY <1>2, <2>2, <2>3 DEF Call, RelayTyped
      <3> QED
        BY <2>1, <2>3, <3>1 DEF RelayTyped
    <2>4. CASE /\ pending' = [pending EXCEPT ![r] =
                           [on |-> TRUE, socket |-> liveSocket, accepted |-> FALSE,
                            timer |-> "unsupported"]]
               /\ down' = down \o Frame(liveSocket, "call", r)
               /\ UNCHANGED caller
      <3>1. [on |-> TRUE, socket |-> liveSocket, accepted |-> FALSE, timer |-> "unsupported"]
               \in PendingType
        BY DEF RelayTyped, PendingType
      <3>2. pending' \in [Request -> PendingType]
        BY <2>4, <3>1 DEF RelayTyped
      <3>3. down' \in Seq(DownFrame)
        BY <2>4, DownSend DEF RelayTyped
      <3> QED
        BY <2>1, <2>4, <3>2, <3>3 DEF RelayTyped
    <2> QED
      BY <1>2, <2>3, <2>4 DEF Call
  <1>3. CASE Stop(r) \/ CallerLost(r)
    BY <1>3 DEF Stop, CallerLost, RelayTyped, CallerType
  <1>4. CASE Cancel(r)
    <2>1. caller' \in [Request -> CallerType] /\ UNCHANGED <<checking, liveSocket>>
      BY <1>4 DEF Cancel, RelayTyped, CallerType
    <2>2. pending' \in [Request -> PendingType] /\ down' \in Seq(DownFrame)
      BY <1>4, NoCallType, WithdrawTyped DEF Cancel, RelayTyped
    <2> QED
      BY <2>1, <2>2 DEF RelayTyped
  <1>5. CASE TimerFires(r)
    <2>1. pending[r].timer \in Code
      BY <1>5 DEF TimerFires, RelayTyped, PendingType, Code
    <2>2. caller' \in [Request -> CallerType] /\ pending' \in [Request -> PendingType]
      BY <1>5, <2>1, SettleTyped DEF TimerFires
    <2>3. down' \in Seq(DownFrame) /\ UNCHANGED <<checking, liveSocket>>
      BY <1>5, WithdrawTyped DEF TimerFires, RelayTyped
    <2> QED
      BY <2>2, <2>3 DEF RelayTyped
  <1> QED
    BY <1>1, <1>2, <1>3, <1>4, <1>5

LEMMA OnFrameTyped ==
    ASSUME RelayTyped, NEW f \in UpFrameType, OnFrame(f)
    PROVE  RelayTyped'
  <1>1. f.r \in Request /\ f.code \in Code /\ UNCHANGED <<checking, liveSocket, down>>
    BY DEF UpFrameType, OnFrame
  <1>2. CASE UNCHANGED <<caller, pending>>
    BY <1>1, <1>2 DEF RelayTyped
  <1>3. CASE /\ pending' = [pending EXCEPT ![f.r].accepted = TRUE, ![f.r].timer = "timeout"]
             /\ UNCHANGED caller
    <2>1. pending[f.r] \in PendingType
      BY <1>1 DEF RelayTyped
    <2> DEFINE s == [pending[f.r] EXCEPT !.accepted = TRUE, !.timer = "timeout"]
    <2>2. s \in PendingType
      BY <2>1 DEF PendingType
    <2>3. pending' = [pending EXCEPT ![f.r] = s]
      BY <1>1, <1>3, <2>1 DEF RelayTyped, PendingType
    <2> HIDE DEF s
    <2> QED
      BY <1>1, <1>3, <2>2, <2>3 DEF RelayTyped
  <1>4. CASE Settle(f.r, f.code)
    BY <1>1, <1>4, SettleTyped DEF RelayTyped
  <1> QED
    BY <1>2, <1>3, <1>4 DEF OnFrame

LEMMA GoneType ==
    ASSUME RelayTyped
    PROVE  /\ Gone \in [Request -> PendingType]
           /\ \A r \in Request : Gone[r].on = pending[r].on
  <1>1. ASSUME NEW r \in Request
        PROVE  /\ [pending[r] EXCEPT !.socket = 0, !.timer = "device_offline"] \in PendingType
               /\ [pending[r] EXCEPT !.socket = 0, !.timer = "device_offline"].on = pending[r].on
               /\ pending[r] \in PendingType
    <2>1. pending[r] \in PendingType
      BY DEF RelayTyped
    <2> QED
      BY <2>1 DEF PendingType
  <1> QED
    BY <1>1 DEF Gone

\* What a new connection puts on the way: the greeting, then a resume for each
\* call in flight.
LEMMA Reconnects ==
    ASSUME RelayTyped, NEW conn \in Nat, OnDeviceConnected(conn)
    PROVE  /\ RelayTyped'
           /\ \A i \in DOMAIN down' :
                \/ down'[i].type = "connected"
                \/ down'[i].type = "resume" /\ down'[i].r \in InFlight
           /\ \A r \in Request : pending'[r].on = pending[r].on
           /\ UNCHANGED <<caller, checking>>
  <1>1. PICK order \in [1 .. Cardinality(InFlight) -> InFlight], q \in Request :
          down' = Frame(conn, "connected", q) \o
                  [i \in DOMAIN order |-> Resent(conn, order[i])]
    BY DEF OnDeviceConnected
  <1> DEFINE n == Cardinality(InFlight)
             resends == [i \in DOMAIN order |-> Resent(conn, order[i])]
             first == Frame(conn, "connected", q)
  <1>2. n \in Nat
    <2>1. InFlight \in SUBSET Request /\ IsFiniteSet(Request)
      BY DeviceToolsAssumption DEF InFlight
    <2>2. IsFiniteSet(InFlight)
      BY <2>1, FS_Subset
    <2> QED
      BY <2>2, FS_CardinalityType
  <1>3. \A i \in 1 .. n : order[i] \in InFlight /\ order[i] \in Request
    BY <1>1 DEF InFlight
  <1>4. /\ resends \in Seq(DownFrame) /\ Len(resends) = n
        /\ \A i \in 1 .. n : resends[i].type = "resume" /\ resends[i].r \in InFlight
    <2>1. resends = [i \in 1 .. n |-> Resent(conn, order[i])]
      BY <1>1
    <2>2. \A i \in 1 .. n : /\ Resent(conn, order[i]) \in DownFrame
                            /\ Resent(conn, order[i]).type = "resume"
                            /\ Resent(conn, order[i]).r \in InFlight
      BY <1>3 DEF Resent, DownFrame
    <2>3. resends \in Seq(DownFrame)
      BY <1>2, <2>1, <2>2, IsASeq
    <2> QED
      BY <1>2, <2>1, <2>2, <2>3
  <1>5. /\ first \in Seq(DownFrame) /\ Len(first) = 1 /\ first[1].type = "connected"
    BY DEF Frame, DownFrame
  <1> HIDE DEF n, resends, first
  <1>6. /\ down' \in Seq(DownFrame)
        /\ \A i \in DOMAIN down' : down'[i] = first[1] \/ \E j \in 1 .. n : down'[i] = resends[j]
    <2>1. down' = first \o resends
      BY <1>1 DEF first, resends
    <2>2. DOMAIN first = {1} /\ DOMAIN resends = 1 .. n
      BY <1>2, <1>4, <1>5
    <2> QED
      BY <1>4, <1>5, <2>1, <2>2, ConcatElements
  <1>7. /\ pending' \in [Request -> PendingType]
        /\ \A r \in Request : pending'[r].on = pending[r].on
    <2>1. ASSUME NEW r \in Request, NEW t \in {"timeout", "device_offline"}
          PROVE  /\ [Gone[r] EXCEPT !.socket = conn, !.timer = t] \in PendingType
                 /\ [Gone[r] EXCEPT !.socket = conn, !.timer = t].on = Gone[r].on
                 /\ Gone[r] \in PendingType /\ Gone[r].on = pending[r].on
      BY GoneType DEF PendingType
    <2> QED
      BY <2>1 DEF OnDeviceConnected
  <1>8. liveSocket' \in Nat /\ UNCHANGED <<caller, checking>>
    BY DEF OnDeviceConnected
  <1> QED
    BY <1>4, <1>5, <1>6, <1>7, <1>8 DEF RelayTyped

LEMMA RelayEnvironmentTyped ==
    ASSUME RelayTyped, OnDeviceGone \/ Evict
    PROVE  RelayTyped'
  <1>1. CASE OnDeviceGone
    BY <1>1, GoneType DEF OnDeviceGone, RelayTyped
  <1>2. CASE Evict
    <2>1. \A r \in Request : (IF caller[r] = "waiting" THEN "failed" ELSE caller[r]) \in CallerType
      BY DEF RelayTyped, CallerType, Code
    <2> QED
      BY <1>2, <2>1, NoCallType DEF Evict, RelayTyped
  <1> QED
    BY <1>1, <1>2

-----------------------------------------------------------------------------
(* The computer.                                                           *)

\* A frame that is sent joins the ones on their way.
LEMMA Sends ==
    ASSUME ServerTyped, NEW frames \in Seq(UpFrameType), Send(frames)
    PROVE  /\ up' \in Seq(UpFrameType)
           /\ \A i \in DOMAIN up' : \/ \E j \in DOMAIN up : up'[i] = up[j]
                                    \/ \E j \in DOMAIN frames : up'[i] = frames[j]
  <1>1. CASE socket.proven
    <2>1. up' = up \o frames
      BY <1>1 DEF Send
    <2>2. up \in Seq(UpFrameType)
      BY DEF ServerTyped
    <2>3. /\ up \o frames \in Seq(UpFrameType)
          /\ \A i \in DOMAIN (up \o frames) :
               \/ i \in DOMAIN up /\ (up \o frames)[i] = up[i]
               \/ \E j \in DOMAIN frames :
                    i = Len(up) + j /\ (up \o frames)[i] = frames[j]
      BY <2>2, ConcatElements
    <2> QED
      BY <2>1, <2>3
  <1>2. CASE ~socket.proven
    BY <1>2 DEF Send, ServerTyped
  <1> QED
    BY <1>1, <1>2

LEMMA UpFrameFields ==
    ASSUME ServerTyped, NEW type \in {"accepted", "answer"}, NEW r \in Request, NEW code \in Code
    PROVE  /\ UpFrame(type, r, code) \in UpFrameType
           /\ UpFrame(type, r, code).type = type
           /\ UpFrame(type, r, code).r = r
           /\ UpFrame(type, r, code).code = code
  BY DEF ServerTyped, UpFrame, UpFrameType

\* One frame is sent.
LEMMA SendsOne ==
    ASSUME ServerTyped, NEW type \in {"accepted", "answer"}, NEW r \in Request, NEW code \in Code,
           Send(<<UpFrame(type, r, code)>>)
    PROVE  /\ up' \in Seq(UpFrameType)
           /\ \A i \in DOMAIN up' :
                \/ \E j \in DOMAIN up : up'[i] = up[j]
                \/ up'[i].type = type /\ up'[i].r = r /\ up'[i].code = code
  <1> DEFINE f == UpFrame(type, r, code)
  <1>1. f \in UpFrameType /\ f.type = type /\ f.r = r /\ f.code = code
    BY UpFrameFields
  <1> HIDE DEF f
  <1>2. <<f>> \in Seq(UpFrameType) /\ DOMAIN <<f>> = {1} /\ <<f>>[1] = f
    BY <1>1
  <1>3. Send(<<f>>)
    BY DEF f
  <1>4. /\ up' \in Seq(UpFrameType)
        /\ \A i \in DOMAIN up' : \/ \E j \in DOMAIN up : up'[i] = up[j]
                                 \/ \E j \in DOMAIN <<f>> : up'[i] = <<f>>[j]
    BY <1>2, <1>3, Sends
  <1> QED
    BY <1>1, <1>2, <1>4

\* Pruning lets answers go and adds none.
LEMMA Prunes ==
    ASSUME ServerTyped
    PROVE  /\ Prune(answers) \in Seq(Kept)
           /\ \A i \in DOMAIN Prune(answers) :
                \E j \in DOMAIN answers : Prune(answers)[i] = answers[j]
  <1>1. answers \in Seq(Kept) /\ Len(answers) \in Nat /\ MaxKeptAnswers \in Nat
    BY DeviceToolsAssumption DEF ServerTyped
  <1>2. CASE Len(answers) > MaxKeptAnswers
    <2> DEFINE m == Len(answers) - MaxKeptAnswers + 1
    <2>1. m \in Nat /\ m >= 1 /\ m <= Len(answers) + 1
      BY <1>1, <1>2
    <2>2. Prune(answers) = SubSeq(answers, m, Len(answers))
      BY <1>2 DEF Prune
    <2> HIDE DEF m
    <2> QED
      BY <1>1, <2>1, <2>2, CutElements
  <1>3. CASE ~(Len(answers) > MaxKeptAnswers)
    BY <1>1, <1>3 DEF Prune
  <1> QED
    BY <1>2, <1>3

\* The kept answer of a call that has one.
LEMMA AnswerIsKept ==
    ASSUME ServerTyped, NEW r \in Request, IsAnswered(Prune(answers), r)
    PROVE  /\ AnswerOf(Prune(answers), r) \in Code
           /\ \E j \in DOMAIN answers :
                answers[j].r = r /\ answers[j].code = AnswerOf(Prune(answers), r)
  <1> DEFINE kept == Prune(answers)
             i == CHOOSE k \in DOMAIN kept : kept[k].r = r
  <1>1. i \in DOMAIN kept /\ kept[i].r = r
    BY DEF IsAnswered
  <1>2. AnswerOf(kept, r) = kept[i].code
    BY DEF AnswerOf
  <1>3. PICK j \in DOMAIN answers : kept[i] = answers[j]
    BY <1>1, Prunes
  <1>4. answers[j] \in Kept
    BY Elements DEF ServerTyped
  <1> QED
    BY <1>1, <1>2, <1>3, <1>4 DEF Kept

\* Keeping one more answer.
LEMMA Keeps ==
    ASSUME NEW kept \in Seq(Kept), NEW r \in Request, NEW code \in Code, NEW next,
           next = Append(kept, [r |-> r, code |-> code])
    PROVE  /\ next \in Seq(Kept)
           /\ \A i \in DOMAIN next :
                \/ i \in DOMAIN kept /\ next[i] = kept[i]
                \/ i = Len(kept) + 1 /\ next[i].r = r /\ next[i].code = code
           /\ \A i \in DOMAIN kept : i \in DOMAIN next /\ next[i] = kept[i]
           /\ Len(kept) + 1 \in DOMAIN next /\ next[Len(kept) + 1].r = r
  <1> DEFINE a == [r |-> r, code |-> code]
  <1>1. a \in Kept /\ a.r = r /\ a.code = code
    BY DEF Kept
  <1> HIDE DEF a
  <1>2. next = Append(kept, a)
    BY DEF a
  <1>3. /\ next \in Seq(Kept)
        /\ \A i \in DOMAIN next : \/ i \in DOMAIN kept /\ next[i] = kept[i]
                                  \/ i = Len(kept) + 1 /\ next[i] = a
        /\ \A i \in DOMAIN kept : i \in DOMAIN next /\ next[i] = kept[i]
        /\ Len(kept) + 1 \in DOMAIN next /\ next[Len(kept) + 1] = a
    BY <1>1, <1>2
  <1> QED
    BY <1>1, <1>3

\* The run of r changes, and no other.
RunBecomes(r, state, starts, finished) ==
    /\ run' \in [Request -> RunType]
    /\ run'[r].state = state /\ run'[r].starts = starts /\ run'[r].finished = finished
    /\ \A q \in Request \ {r} : run'[q] = run[q]

\* What reading a call or a resend does: every frame it sends is an acceptance,
\* the kept answer of the call, or the answer of a call it has no record of.
LEMMA Handles ==
    ASSUME ServerTyped, NEW r \in Request, NEW resume \in BOOLEAN, Handle(r, resume)
    PROVE  /\ ServerTyped'
           /\ \A i \in DOMAIN up' :
                \/ \E j \in DOMAIN up : up'[i] = up[j]
                \/ up'[i].type = "accepted"
                \/ up'[i].r = r /\ up'[i].code = "unsupported"
                \/ /\ up'[i].r = r /\ up'[i].code = "no_record"
                   /\ resume /\ Unknown(Prune(answers), r)
                \/ \E j \in DOMAIN answers :
                     answers[j].r = up'[i].r /\ answers[j].code = up'[i].code
           /\ \/ answers' = Prune(answers)
              \/ /\ answers' = Append(Prune(answers), [r |-> r, code |-> "unsupported"])
                 /\ Unknown(Prune(answers), r)
           /\ \/ run' = run
              \/ /\ Unknown(Prune(answers), r) /\ ~resume /\ answers' = Prune(answers)
                 /\ RunBecomes(r, "live", run[r].starts + 1, run[r].finished)
  <1> DEFINE kept == Prune(answers)
  <1>1. UNCHANGED socket /\ {"ok", "no_record", "unsupported"} \subseteq Code
    BY DEF Handle, Code
  <1>2. kept \in Seq(Kept)
    BY Prunes
  <1>3. CASE /\ IsAnswered(kept, r)
             /\ Send(<<UpFrame("accepted", r, "ok"), UpFrame("answer", r, AnswerOf(kept, r))>>)
             /\ answers' = kept /\ UNCHANGED run
    <2>1. PICK k \in DOMAIN answers :
            answers[k].r = r /\ answers[k].code = AnswerOf(kept, r) /\ AnswerOf(kept, r) \in Code
      BY <1>3, AnswerIsKept
    <2> DEFINE f == UpFrame("accepted", r, "ok")
               g == UpFrame("answer", r, AnswerOf(kept, r))
    <2>2. /\ f \in UpFrameType /\ f.type = "accepted"
          /\ g \in UpFrameType /\ g.r = r /\ g.code = AnswerOf(kept, r)
      BY <1>1, <2>1, UpFrameFields
    <2>3. Send(<<f, g>>)
      BY <1>3
    <2> HIDE DEF f, g
    <2>4. <<f, g>> \in Seq(UpFrameType) /\ \A j \in DOMAIN <<f, g>> : <<f, g>>[j] \in {f, g}
      BY <2>2
    <2>5. /\ up' \in Seq(UpFrameType)
          /\ \A i \in DOMAIN up' : \/ \E j \in DOMAIN up : up'[i] = up[j]
                                   \/ \E j \in DOMAIN <<f, g>> : up'[i] = <<f, g>>[j]
      BY <2>3, <2>4, Sends
    <2>6. \A i \in DOMAIN up' : (\E j \in DOMAIN up : up'[i] = up[j]) \/ up'[i] = f \/ up'[i] = g
      BY <2>4, <2>5
    <2>7. ServerTyped'
      BY <1>1, <1>2, <1>3, <2>5 DEF ServerTyped
    <2> QED
      BY <1>3, <2>1, <2>2, <2>6, <2>7
  <1>4. CASE /\ Send(<<UpFrame("accepted", r, "ok")>>)
             /\ answers' = kept
             /\ \/ UNCHANGED run
                \/ /\ Unknown(kept, r) /\ ~resume
                   /\ run' = [run EXCEPT ![r].state = "live", ![r].starts = @ + 1]
    <2>1. /\ up' \in Seq(UpFrameType)
          /\ \A i \in DOMAIN up' : (\E j \in DOMAIN up : up'[i] = up[j]) \/ up'[i].type = "accepted"
      BY <1>1, <1>4, SendsOne
    <2>2. \/ run' = run
          \/ /\ Unknown(kept, r) /\ ~resume
             /\ RunBecomes(r, "live", run[r].starts + 1, run[r].finished)
      <3>1. CASE UNCHANGED run
        BY <3>1
      <3>2. CASE /\ Unknown(kept, r) /\ ~resume
                 /\ run' = [run EXCEPT ![r].state = "live", ![r].starts = @ + 1]
        <4> DEFINE s == [run[r] EXCEPT !.state = "live", !.starts = run[r].starts + 1]
        <4>0. run[r] \in RunType
          BY DEF ServerTyped
        <4>1. /\ s \in RunType /\ s.state = "live"
              /\ s.starts = run[r].starts + 1 /\ s.finished = run[r].finished
          <5>1. s \in [state : {"live"}, starts : {run[r].starts + 1},
                       finished : {run[r].finished}]
            BY <4>0 DEF RunType
          <5>2. run[r].starts + 1 \in Nat /\ run[r].finished \in BOOLEAN
            BY <4>0 DEF RunType
          <5> HIDE DEF s
          <5> QED
            BY <5>1, <5>2 DEF RunType
        <4>2. run' = [run EXCEPT ![r] = s]
          BY <3>2 DEF ServerTyped
        <4> HIDE DEF s
        <4> QED
          BY <3>2, <4>1, <4>2 DEF ServerTyped, RunBecomes
      <3> QED
        BY <1>4, <3>1, <3>2
    <2>3. run' \in [Request -> RunType]
      BY <2>2 DEF ServerTyped, RunBecomes
    <2>4. ServerTyped'
      BY <1>1, <1>2, <1>4, <2>1, <2>3 DEF ServerTyped
    <2> QED
      BY <1>4, <2>1, <2>2, <2>4
  <1>5. CASE /\ Unknown(kept, r) /\ resume
             /\ Send(<<UpFrame("answer", r, "no_record")>>)
             /\ answers' = kept /\ UNCHANGED run
    <2>1. /\ up' \in Seq(UpFrameType)
          /\ \A i \in DOMAIN up' : \/ \E j \in DOMAIN up : up'[i] = up[j]
                                   \/ up'[i].r = r /\ up'[i].code = "no_record"
      BY <1>1, <1>5, SendsOne
    <2>2. ServerTyped'
      BY <1>1, <1>2, <1>5, <2>1 DEF ServerTyped
    <2> QED
      BY <1>5, <2>1, <2>2
  <1>6. CASE /\ Unknown(kept, r) /\ ~resume
             /\ Send(<<UpFrame("answer", r, "unsupported")>>)
             /\ answers' = Append(kept, [r |-> r, code |-> "unsupported"])
             /\ UNCHANGED run
    <2>1. /\ up' \in Seq(UpFrameType)
          /\ \A i \in DOMAIN up' : \/ \E j \in DOMAIN up : up'[i] = up[j]
                                   \/ up'[i].r = r /\ up'[i].code = "unsupported"
      BY <1>1, <1>6, SendsOne
    <2>2. answers' \in Seq(Kept)
      BY <1>1, <1>2, <1>6, Keeps
    <2>3. ServerTyped'
      BY <1>1, <1>6, <2>1, <2>2 DEF ServerTyped
    <2> QED
      BY <1>6, <2>1, <2>3
  <1> QED
    BY <1>3, <1>4, <1>5, <1>6 DEF Handle

\* A tool that ends, on its own or interrupted, is answered once.
LEMMA Ends ==
    ASSUME ServerTyped, NEW r \in Request, RunEnds(r) \/ RunStopped(r)
    PROVE  /\ ServerTyped' /\ run[r].state # "none"
           /\ \E fin \in BOOLEAN, code \in {"ok", "failed", "canceled"} :
                /\ code = "ok" => fin
                /\ run[r].finished => fin
                /\ RunBecomes(r, "none", run[r].starts, fin)
                /\ answers' = Append(answers, [r |-> r, code |-> code])
                /\ \A i \in DOMAIN up' :
                     \/ \E j \in DOMAIN up : up'[i] = up[j]
                     \/ up'[i].r = r /\ up'[i].code = code
  <1>1. run \in [Request -> RunType] /\ run[r] \in RunType /\ answers \in Seq(Kept)
    BY DEF ServerTyped
  <1>2. PICK fin \in BOOLEAN, code \in {"ok", "failed", "canceled"} :
          /\ code = "ok" => fin
          /\ run[r].finished => fin
          /\ RunBecomes(r, "none", run[r].starts, fin)
          /\ Answered(r, code)
    <2>1. CASE RunEnds(r)
      <3> DEFINE s == [run[r] EXCEPT !.state = "none", !.finished = TRUE]
      <3>1. PICK code \in {"ok", "failed"} : Answered(r, code)
        BY <2>1 DEF RunEnds
      <3>2. /\ s \in RunType /\ s.state = "none"
            /\ s.starts = run[r].starts /\ s.finished = TRUE
        BY <1>1 DEF RunType
      <3>3. run' = [run EXCEPT ![r] = s]
        BY <1>1, <2>1 DEF RunEnds
      <3> HIDE DEF s
      <3>4. RunBecomes(r, "none", run[r].starts, TRUE)
        BY <1>1, <3>2, <3>3 DEF RunBecomes
      <3> QED
        BY <3>1, <3>4
    <2>2. CASE RunStopped(r)
      <3> DEFINE s == [run[r] EXCEPT !.state = "none"]
      <3>1. /\ s \in RunType /\ s.state = "none" /\ run[r].finished \in BOOLEAN
            /\ s.starts = run[r].starts /\ s.finished = run[r].finished
        BY <1>1 DEF RunType
      <3>2. run' = [run EXCEPT ![r] = s] /\ Answered(r, "canceled")
        BY <1>1, <2>2 DEF RunStopped
      <3> HIDE DEF s
      <3>3. RunBecomes(r, "none", run[r].starts, run[r].finished)
        BY <1>1, <3>1, <3>2 DEF RunBecomes
      <3> QED
        BY <3>1, <3>2, <3>3
    <2> QED
      BY <2>1, <2>2
  <1>3. code \in Code /\ UNCHANGED socket
    BY <1>2 DEF Code, Answered
  <1>4. /\ up' \in Seq(UpFrameType)
        /\ \A i \in DOMAIN up' : \/ \E j \in DOMAIN up : up'[i] = up[j]
                                 \/ up'[i].r = r /\ up'[i].code = code
    BY <1>2, <1>3, SendsOne DEF Answered
  <1>5. answers' = Append(answers, [r |-> r, code |-> code]) /\ answers' \in Seq(Kept)
    BY <1>1, <1>2, <1>3, Keeps DEF Answered
  <1>6. run[r].state # "none" /\ run' \in [Request -> RunType]
    BY <1>2 DEF RunEnds, RunStopped, RunBecomes
  <1>7. ServerTyped'
    BY <1>3, <1>4, <1>5, <1>6 DEF ServerTyped
  <1> QED
    BY <1>2, <1>4, <1>5, <1>6, <1>7

\* An interruption, a restart, a lost connection and an answer that expires.
LEMMA ServerEnvironment ==
    ASSUME ServerTyped
    PROVE  /\ \A r \in Request : StopRun(r) =>
                /\ ServerTyped'
                /\ \E state \in {"none", "live", "stopping"} :
                     /\ RunBecomes(r, state, run[r].starts, run[r].finished)
                     /\ state = "none" <=> run[r].state = "none"
           /\ Restart =>
                /\ ServerTyped'
                /\ \A q \in Request : /\ run'[q].state = "none" /\ run'[q].starts = run[q].starts
                                      /\ run'[q].finished = run[q].finished
           /\ Lose => ServerTyped'
  <1>1. ASSUME NEW r \in Request, StopRun(r)
        PROVE  /\ ServerTyped'
               /\ \E state \in {"none", "live", "stopping"} :
                    /\ RunBecomes(r, state, run[r].starts, run[r].finished)
                    /\ state = "none" <=> run[r].state = "none"
    <2> DEFINE state == IF run[r].state = "live" THEN "stopping" ELSE run[r].state
               s == [run[r] EXCEPT !.state = state]
    <2>1. run[r] \in RunType
      BY DEF ServerTyped
    <2>2. /\ state \in {"none", "live", "stopping"}
          /\ state = "none" <=> run[r].state = "none"
          /\ s \in RunType /\ s.state = state
          /\ s.starts = run[r].starts /\ s.finished = run[r].finished
      BY <2>1 DEF RunType
    <2>3. run' = [run EXCEPT ![r] = s]
      BY <1>1 DEF ServerTyped, StopRun
    <2> HIDE DEF state, s
    <2>4. RunBecomes(r, state, run[r].starts, run[r].finished)
      BY <2>2, <2>3 DEF ServerTyped, RunBecomes
    <2>5. ServerTyped'
      BY <1>1, <2>4 DEF ServerTyped, StopRun, RunBecomes
    <2> QED
      BY <2>2, <2>4, <2>5
  <1>2. ASSUME Restart
        PROVE  /\ ServerTyped'
               /\ \A q \in Request : /\ run'[q].state = "none" /\ run'[q].starts = run[q].starts
                                     /\ run'[q].finished = run[q].finished
    <2>1. ASSUME NEW q \in Request
          PROVE  LET s == [run[q] EXCEPT !.state = "none"] IN
                 /\ s \in RunType /\ s.state = "none"
                 /\ s.starts = run[q].starts /\ s.finished = run[q].finished
      BY DEF ServerTyped, RunType
    <2>2. /\ run' \in [Request -> RunType]
          /\ \A q \in Request : /\ run'[q].state = "none" /\ run'[q].starts = run[q].starts
                                /\ run'[q].finished = run[q].finished
      BY <1>2, <2>1 DEF Restart
    <2> QED
      BY <1>2, <2>2 DEF Restart, ServerTyped
  <1>3. ASSUME Lose PROVE ServerTyped'
    BY <1>3 DEF Lose, ServerTyped
  <1> QED
    BY <1>1, <1>2, <1>3

\* An answer that expires leaves the others as they were.
LEMMA Expired ==
    ASSUME ServerTyped, NEW r \in Request, Expire(r)
    PROVE  /\ ServerTyped'
           /\ \E k \in DOMAIN answers :
                /\ answers[k].r = r /\ k \in Nat
                /\ \A i \in DOMAIN answers' :
                     /\ i \in Nat
                     /\ i < k => i \in DOMAIN answers /\ answers'[i] = answers[i]
                     /\ i >= k => i + 1 \in DOMAIN answers /\ answers'[i] = answers[i + 1]
  <1>1. PICK k \in DOMAIN answers :
          /\ answers[k].r = r
          /\ answers' = SubSeq(answers, 1, k - 1) \o SubSeq(answers, k + 1, Len(answers))
    BY DEF Expire
  <1> DEFINE a == SubSeq(answers, 1, k - 1)
             b == SubSeq(answers, k + 1, Len(answers))
  <1>2. answers \in Seq(Kept) /\ k \in 1 .. Len(answers) /\ Len(answers) \in Nat
    BY DEF ServerTyped
  <1>3. /\ a \in Seq(Kept) /\ Len(a) = k - 1
        /\ \A i \in DOMAIN a : i \in Nat /\ i < k /\ i \in DOMAIN answers /\ a[i] = answers[i]
    BY <1>2
  <1>4. /\ b \in Seq(Kept)
        /\ \A j \in DOMAIN b : j \in Nat /\ j >= 1 /\ k + j \in DOMAIN answers /\ b[j] = answers[k + j]
    BY <1>2
  <1> HIDE DEF a, b
  <1>5. /\ a \o b \in Seq(Kept)
        /\ \A i \in DOMAIN (a \o b) :
             \/ i \in DOMAIN a /\ (a \o b)[i] = a[i]
             \/ \E j \in DOMAIN b : i = Len(a) + j /\ (a \o b)[i] = b[j]
    BY <1>3, <1>4, ConcatElements
  <1>6. answers' = a \o b
    BY <1>1 DEF a, b
  <1>7. ASSUME NEW i \in DOMAIN answers'
        PROVE  /\ i \in Nat
               /\ i < k => i \in DOMAIN answers /\ answers'[i] = answers[i]
               /\ i >= k => i + 1 \in DOMAIN answers /\ answers'[i] = answers[i + 1]
    <2>1. CASE i \in DOMAIN a /\ (a \o b)[i] = a[i]
      BY <1>2, <1>3, <1>6, <2>1
    <2>2. CASE \E j \in DOMAIN b : i = Len(a) + j /\ (a \o b)[i] = b[j]
      <3>1. PICK j \in DOMAIN b : i = Len(a) + j /\ (a \o b)[i] = b[j]
        BY <2>2
      <3>2. i = k - 1 + j /\ j \in Nat /\ j >= 1 /\ answers'[i] = answers[k + j]
            /\ k + j \in DOMAIN answers
        BY <1>3, <1>4, <1>6, <3>1
      <3>3. i \in Nat /\ i >= k /\ i + 1 = k + j
        BY <1>2, <3>2
      <3> QED
        BY <1>2, <3>2, <3>3
    <2> QED
      BY <1>5, <1>6, <2>1, <2>2
  <1>8. ServerTyped'
    BY <1>5, <1>6 DEF ServerTyped, Expire
  <1>9. /\ answers[k].r = r /\ k \in Nat
        /\ \A i \in DOMAIN answers' :
             /\ i \in Nat
             /\ i < k => i \in DOMAIN answers /\ answers'[i] = answers[i]
             /\ i >= k => i + 1 \in DOMAIN answers /\ answers'[i] = answers[i + 1]
    <2>1. answers[k].r = r /\ k \in Nat
      BY <1>1, <1>2
    <2> QED
      BY <1>7, <2>1, Zenon
  <1> QED
    BY <1>8, <1>9, Zenon

-----------------------------------------------------------------------------
(* Type correctness.                                                       *)

\* The frame the computer reads, and what it leaves.
LEMMA Reads ==
    ASSUME Typed, ComputerReceives
    PROVE  /\ down # <<>> /\ Head(down) \in DownFrame /\ 1 \in DOMAIN down /\ Head(down) = down[1]
           /\ Head(down).r \in Request
           /\ down' = Tail(down) /\ down' \in Seq(DownFrame)
           /\ \A i \in DOMAIN down' : i + 1 \in DOMAIN down /\ down'[i] = down[i + 1]
           /\ DOMAIN down \subseteq Nat /\ DOMAIN down' \subseteq Nat
           /\ UNCHANGED <<caller, checking, pending, liveSocket, conns, attempts, restarts, evictions>>
           /\ \/ UNCHANGED serverVars
              \/ ServerTyped' /\ UNCHANGED <<run, answers, up>>
              \/ /\ Head(down).type \in {"call", "resume"}
                 /\ Handle(Head(down).r, Head(down).type = "resume")
              \/ StopRun(Head(down).r)
  <1>1. down # <<>> /\ down \in Seq(DownFrame) /\ down' = Tail(down)
    BY DEF ComputerReceives, Typed
  <1>2. /\ Tail(down) \in Seq(DownFrame)
        /\ \A i \in DOMAIN Tail(down) : i + 1 \in DOMAIN down /\ Tail(down)[i] = down[i + 1]
        /\ 1 \in DOMAIN down /\ Head(down) = down[1] /\ Head(down) \in DownFrame
        /\ DOMAIN down \subseteq Nat
    BY <1>1, TailElements
  <1>3. DOMAIN Tail(down) \subseteq Nat
    BY <1>2
  <1>4. Head(down).r \in Request
    BY <1>2 DEF DownFrame
  <1>5. socket' = [socket EXCEPT !.proven = TRUE] => socket' \in [conn : Nat, proven : BOOLEAN]
    BY DEF Typed
  <1>6. \/ UNCHANGED serverVars
        \/ ServerTyped' /\ UNCHANGED <<run, answers, up>>
        \/ /\ Head(down).type \in {"call", "resume"}
           /\ Handle(Head(down).r, Head(down).type = "resume")
        \/ StopRun(Head(down).r)
    BY <1>5 DEF ComputerReceives, Typed, ServerTyped
  <1>7. UNCHANGED <<caller, checking, pending, liveSocket, conns, attempts, restarts, evictions>>
    BY DEF ComputerReceives, counters
  <1> QED
    BY <1>1, <1>2, <1>3, <1>4, <1>6, <1>7

\* The frame the gate reads, and what it leaves.
LEMMA GateReads ==
    ASSUME Typed, GateReceives
    PROVE  /\ Head(up) \in UpFrameType /\ 1 \in DOMAIN up /\ Head(up) = up[1]
           /\ Head(up).r \in Request /\ Head(up).code \in Code
           /\ OnFrame(Head(up))
           /\ up' \in Seq(UpFrameType)
           /\ \A i \in DOMAIN up' : i + 1 \in DOMAIN up /\ up'[i] = up[i + 1]
           /\ UNCHANGED <<run, answers, socket, conns, attempts, restarts, evictions>>
  <1>1. up # <<>> /\ up \in Seq(UpFrameType) /\ up' = Tail(up)
    BY DEF GateReceives, Typed
  <1>2. /\ Tail(up) \in Seq(UpFrameType)
        /\ \A i \in DOMAIN Tail(up) : i + 1 \in DOMAIN up /\ Tail(up)[i] = up[i + 1]
        /\ 1 \in DOMAIN up /\ Head(up) = up[1] /\ Head(up) \in UpFrameType
    BY <1>1, TailElements
  <1>3. Head(up).r \in Request /\ Head(up).code \in Code
    BY <1>2 DEF UpFrameType
  <1>4. OnFrame(Head(up)) /\ UNCHANGED <<run, answers, socket, conns, attempts, restarts, evictions>>
    BY DEF GateReceives, counters
  <1> QED
    BY <1>1, <1>2, <1>3, <1>4

LEMMA TypedStep == Typed /\ [Next]_vars => Typed'
  <1> SUFFICES ASSUME Typed, [Next]_vars PROVE Typed'
    OBVIOUS
  <1>0. RelayTyped /\ ServerTyped /\ CountersTyped
    BY TypedParts
  <1> USE DEF relayVars, serverVars, counters
  <1>1. CASE UNCHANGED vars
    BY <1>1 DEF vars, Typed
  <1>2. ASSUME NEW r \in Request, Attempt(r) PROVE Typed'
    <2>1. RelayTyped'
      BY <1>0, <1>2, RelayActionsTyped DEF Attempt
    <2>2. CountersTyped' /\ UNCHANGED <<run, answers, socket, up>>
      BY <1>0, <1>2 DEF Attempt, CountersTyped
    <2> QED
      BY <1>0, <2>1, <2>2 DEF Typed, RelayTyped, ServerTyped, CountersTyped
  <1>3. ASSUME NEW r \in Request, Relays(r) \/ Withdraws(r) \/ Expires(r) \/ AgentStops(r)
        PROVE  Typed'
    <2>1. RelayTyped'
      BY <1>0, <1>3, RelayActionsTyped DEF Relays, Withdraws, Expires, AgentStops
    <2>2. UNCHANGED <<run, answers, socket, up, conns, attempts, restarts, evictions>>
      BY <1>3 DEF Relays, Withdraws, Expires, AgentStops
    <2> QED
      BY <1>0, <2>1, <2>2 DEF Typed, RelayTyped, ServerTyped, CountersTyped
  <1>4. ASSUME NEW r \in Request, ToolEnds(r) \/ ToolStopped(r) PROVE Typed'
    <2>1. ServerTyped'
      BY <1>0, <1>4, Ends DEF ToolEnds, ToolStopped
    <2>2. UNCHANGED <<caller, checking, pending, liveSocket, down, conns, attempts, restarts, evictions>>
      BY <1>4 DEF ToolEnds, ToolStopped
    <2> QED
      BY <1>0, <2>1, <2>2 DEF Typed, RelayTyped, ServerTyped, CountersTyped
  <1>5. ASSUME NEW r \in Request, AnswerExpires(r) PROVE Typed'
    <2>1. ServerTyped'
      BY <1>0, <1>5, Expired DEF AnswerExpires
    <2>2. CountersTyped' /\ UNCHANGED <<caller, checking, pending, liveSocket, down>>
      BY <1>0, <1>5 DEF AnswerExpires, CountersTyped
    <2> QED
      BY <1>0, <2>1, <2>2 DEF Typed, RelayTyped, ServerTyped, CountersTyped
  <1>6. CASE Connect
    <2>1. RelayTyped'
      <3>1. conns + 1 \in Nat /\ OnDeviceConnected(conns + 1)
        BY <1>0, <1>6 DEF Connect, CountersTyped
      <3> QED
        BY <1>0, <3>1, Reconnects
    <2>2. ServerTyped' /\ CountersTyped'
      BY <1>0, <1>6 DEF Connect, ServerTyped, CountersTyped
    <2> QED
      BY <2>1, <2>2 DEF Typed, RelayTyped, ServerTyped, CountersTyped
  <1>7. CASE ConnectionBreaks \/ ComputerNotices
    <2>1. ServerTyped'
      BY <1>0, <1>7, ServerEnvironment DEF ConnectionBreaks, ComputerNotices
    <2>2. UNCHANGED <<caller, checking, pending, liveSocket, down, conns, attempts, restarts, evictions>>
      BY <1>7 DEF ConnectionBreaks, ComputerNotices
    <2> QED
      BY <1>0, <2>1, <2>2 DEF Typed, RelayTyped, ServerTyped, CountersTyped
  <1>8. CASE GateNotices
    <2>1. RelayTyped'
      BY <1>0, <1>8, RelayEnvironmentTyped DEF GateNotices
    <2>2. up' \in Seq(UpFrameType)
      BY <1>8 DEF GateNotices
    <2>3. UNCHANGED <<run, answers, socket, conns, attempts, restarts, evictions>>
      BY <1>8 DEF GateNotices
    <2> QED
      BY <1>0, <2>1, <2>2, <2>3 DEF Typed, RelayTyped, ServerTyped, CountersTyped
  <1>9. CASE GateReceives
    <2>1. RelayTyped'
      BY <1>0, <1>9, GateReads, OnFrameTyped
    <2>2. /\ up' \in Seq(UpFrameType)
          /\ UNCHANGED <<run, answers, socket, conns, attempts, restarts, evictions>>
      BY <1>9, GateReads
    <2> QED
      BY <1>0, <2>1, <2>2 DEF Typed, RelayTyped, ServerTyped, CountersTyped
  <1>10. CASE ComputerReceives
    <2>1. /\ down' \in Seq(DownFrame)
          /\ UNCHANGED <<caller, checking, pending, liveSocket, conns, attempts, restarts, evictions>>
      BY <1>10, Reads
    <2>2. ServerTyped'
      <3>1. CASE UNCHANGED serverVars
        BY <1>0, <3>1 DEF ServerTyped
      <3>2. CASE Handle(Head(down).r, Head(down).type = "resume")
        BY <1>0, <1>10, <3>2, Reads, Handles
      <3>3. CASE StopRun(Head(down).r)
        BY <1>0, <1>10, <3>3, Reads, ServerEnvironment
      <3> QED
        BY <1>10, <3>1, <3>2, <3>3, Reads
    <2> QED
      BY <1>0, <2>1, <2>2 DEF Typed, RelayTyped, ServerTyped, CountersTyped
  <1>11. CASE ComputerRestarts
    <2>1. ServerTyped'
      BY <1>0, <1>11, ServerEnvironment DEF ComputerRestarts
    <2>2. CountersTyped' /\ UNCHANGED <<caller, checking, pending, liveSocket, down>>
      BY <1>0, <1>11 DEF ComputerRestarts, CountersTyped
    <2> QED
      BY <1>0, <2>1, <2>2 DEF Typed, RelayTyped, ServerTyped, CountersTyped
  <1>12. CASE GateEvicted
    <2>1. RelayTyped'
      BY <1>0, <1>12, RelayEnvironmentTyped DEF GateEvicted
    <2>2. ServerTyped' /\ CountersTyped'
      BY <1>0, <1>12 DEF GateEvicted, ServerTyped, CountersTyped
    <2> QED
      BY <2>1, <2>2 DEF Typed, RelayTyped, ServerTyped, CountersTyped
  <1> QED
    BY <1>1, <1>2, <1>3, <1>4, <1>5, <1>6, <1>7, <1>8, <1>9, <1>10, <1>11, <1>12 DEF Next

LEMMA AlwaysTyped == Spec => []Typed
  <1>1. Init => Typed
    BY InitTyped
  <1>2. Typed /\ [Next]_vars => Typed'
    BY TypedStep
  <1> QED
    BY <1>1, <1>2, PTL DEF Spec

\* The relay's pending calls and timers, the computer's runs and kept answers,
\* and the frames between them keep their types, whatever is called, lost,
\* resent, replayed or restarted (device-tool-relay.ts, device-tool-server.ts).
THEOREM ToolsTypeCorrect == Spec => []TypeOK
  BY AlwaysTyped, TypedImpliesTypeOK, PTL

-----------------------------------------------------------------------------
(* Success is reported only for a run that finished.  An ok travels from   *)
(* the run to a kept answer, to frames and to the agent; each place that   *)
(* holds one is accounted for.                                             *)

OkInv ==
    /\ \A r \in Request : caller[r] = "ok" => run[r].finished
    /\ \A i \in DOMAIN up :
         up[i].type = "answer" /\ up[i].code = "ok" => run[up[i].r].finished
    /\ \A i \in DOMAIN answers : answers[i].code = "ok" => run[answers[i].r].finished

\* What the agent learns of a call, from the relay alone or from a frame.
LEMMA Learns ==
    ASSUME RelayTyped, NEW r \in Request, NEW outcome \in Code,
           Told(r, outcome) \/ Settle(r, outcome)
    PROVE  \A q \in Request : caller'[q] = caller[q] \/ (q = r /\ caller'[q] = outcome)
  <1>1. UNCHANGED caller \/ Told(r, outcome)
    BY DEF Settle
  <1>2. CASE UNCHANGED caller
    BY <1>2
  <1>3. CASE Told(r, outcome)
    BY <1>3 DEF RelayTyped, Told
  <1> QED
    BY <1>1, <1>2, <1>3

LEMMA RelayLearns ==
    ASSUME RelayTyped, NEW r \in Request,
           \/ DeviceTool(r) \/ Call(r) \/ Stop(r) \/ Cancel(r) \/ CallerLost(r) \/ TimerFires(r)
    PROVE  \A q \in Request : \/ caller'[q] = caller[q]
                              \/ caller'[q] \in {"idle", "waiting", "withdrawing", "withdrawn",
                                   "refused", "device_offline", "device_busy", "unsupported", "timeout"}
  <1>1. CASE DeviceTool(r) \/ Stop(r) \/ Cancel(r) \/ CallerLost(r)
    BY <1>1 DEF RelayTyped, DeviceTool, Stop, Cancel, CallerLost
  <1>2. CASE Call(r)
    <2>1. \/ UNCHANGED caller
          \/ \E o \in {"refused", "device_offline", "device_busy"} : Told(r, o)
      BY <1>2 DEF Call
    <2> QED
      BY <2>1, Learns DEF Code
  <1>3. CASE TimerFires(r)
    <2>1. pending[r].timer \in {"unsupported", "timeout", "device_offline"}
      BY <1>3 DEF TimerFires, RelayTyped, PendingType
    <2>2. Settle(r, pending[r].timer)
      BY <1>3 DEF TimerFires
    <2> QED
      BY <2>1, <2>2, Learns DEF Code
  <1> QED
    BY <1>1, <1>2, <1>3

\* A frame from the computer tells the agent its code, and only an answer does.
LEMMA FrameLearns ==
    ASSUME RelayTyped, NEW f \in UpFrameType, OnFrame(f)
    PROVE  \A q \in Request :
             \/ caller'[q] = caller[q]
             \/ q = f.r /\ f.type = "answer" /\ caller'[q] = f.code /\ pending[q].on /\ ~checking[q]
  <1>1. f.r \in Request /\ f.code \in Code /\ f.type \in {"accepted", "answer"}
    BY DEF UpFrameType
  <1>2. \/ UNCHANGED caller
        \/ /\ pending[f.r].on /\ ~checking[f.r]
           /\ f.type = "answer" /\ Settle(f.r, f.code)
    BY <1>1 DEF OnFrame, Settle
  <1> QED
    BY <1>1, <1>2, Learns

LEMMA OkStep == Typed /\ OkInv /\ [Next]_vars => OkInv'
  <1> SUFFICES ASSUME Typed, OkInv, [Next]_vars PROVE OkInv'
    OBVIOUS
  <1>0. RelayTyped /\ ServerTyped /\ CountersTyped
    BY TypedParts
  <1> USE DEF relayVars, serverVars, counters
  <1>t. /\ \A i \in DOMAIN up : up[i].r \in Request
        /\ \A i \in DOMAIN answers : answers[i].r \in Request
    <2>1. /\ \A i \in DOMAIN up : up[i] \in UpFrameType
          /\ \A i \in DOMAIN answers : answers[i] \in Kept
      BY Elements DEF Typed
    <2> QED
      BY <2>1 DEF UpFrameType, Kept
  <1>1. CASE UNCHANGED vars
    BY <1>1 DEF vars, OkInv
  \* Steps that leave runs and answers alone and add no ok.
  <1>u. ASSUME UNCHANGED <<run, answers>>,
               \A q \in Request : caller'[q] = "ok" => caller[q] = "ok",
               up' = up \/ up' = <<>>
        PROVE  OkInv'
    BY <1>u DEF OkInv
  <1>2. ASSUME NEW r \in Request,
               \/ Attempt(r) \/ Relays(r) \/ Withdraws(r) \/ Expires(r) \/ AgentStops(r)
        PROVE  OkInv'
    <2>1. \/ DeviceTool(r) \/ Call(r) \/ Stop(r) \/ Cancel(r) \/ CallerLost(r) \/ TimerFires(r)
      BY <1>2 DEF Attempt, Relays, Withdraws, Expires, AgentStops
    <2>2. UNCHANGED <<run, answers, up>>
      BY <1>2 DEF Attempt, Relays, Withdraws, Expires, AgentStops
    <2>3. \A q \in Request : caller'[q] = "ok" => caller[q] = "ok"
      BY <1>0, <2>1, RelayLearns
    <2> QED
      BY <1>u, <2>2, <2>3
  <1>3. CASE Connect \/ GateNotices \/ GateEvicted
    <2>1. UNCHANGED <<run, answers>> /\ up' = <<>>
      BY <1>3 DEF Connect, GateNotices, GateEvicted
    <2>2. \A q \in Request : caller'[q] = "ok" => caller[q] = "ok"
      BY <1>3 DEF Connect, OnDeviceConnected, GateNotices, OnDeviceGone, GateEvicted, Evict
    <2> QED
      BY <1>u, <2>1, <2>2
  <1>4. CASE ConnectionBreaks \/ ComputerNotices
    BY <1>4, <1>u DEF ConnectionBreaks, ComputerNotices, Lose
  <1>5. CASE GateReceives
    <2>1. /\ \A q \in Request :
               \/ caller'[q] = caller[q]
               \/ q = up[1].r /\ up[1].type = "answer" /\ caller'[q] = up[1].code
          /\ 1 \in DOMAIN up
      BY <1>0, <1>5, GateReads, FrameLearns
    <2>2. /\ \A i \in DOMAIN up' : i + 1 \in DOMAIN up /\ up'[i] = up[i + 1]
          /\ UNCHANGED <<run, answers>>
      BY <1>5, GateReads
    <2> QED
      BY <2>1, <2>2 DEF OkInv
  \* Steps of the computer: a run that finished stays finished.
  <1>s. ASSUME UNCHANGED caller,
               \A q \in Request : run[q].finished => run'[q].finished,
               \A i \in DOMAIN up' : up'[i].type = "answer" /\ up'[i].code = "ok" =>
                 \/ \E j \in DOMAIN up : up'[i] = up[j]
                 \/ \E j \in DOMAIN answers :
                      answers[j].r = up'[i].r /\ answers[j].code = up'[i].code
                 \/ run'[up'[i].r].finished,
               \A i \in DOMAIN answers' : answers'[i].code = "ok" =>
                 \/ \E j \in DOMAIN answers : answers'[i] = answers[j]
                 \/ run'[answers'[i].r].finished
        PROVE  OkInv'
    <2>1. \A r \in Request : caller'[r] = "ok" => run'[r].finished
      BY <1>s DEF OkInv
    <2>2. ASSUME NEW i \in DOMAIN up', up'[i].type = "answer", up'[i].code = "ok"
          PROVE  run'[up'[i].r].finished
      BY <1>s, <1>t, <2>2 DEF OkInv
    <2>3. ASSUME NEW i \in DOMAIN answers', answers'[i].code = "ok"
          PROVE  run'[answers'[i].r].finished
      BY <1>s, <1>t, <2>3 DEF OkInv
    <2> QED
      BY <2>1, <2>2, <2>3 DEF OkInv
  <1>6. ASSUME NEW r \in Request, ToolEnds(r) \/ ToolStopped(r) PROVE OkInv'
    <2>1. PICK fin \in BOOLEAN, code \in {"ok", "failed", "canceled"} :
            /\ code = "ok" => fin
            /\ run[r].finished => fin
            /\ RunBecomes(r, "none", run[r].starts, fin)
            /\ answers' = Append(answers, [r |-> r, code |-> code])
            /\ \A i \in DOMAIN up' : \/ \E j \in DOMAIN up : up'[i] = up[j]
                                     \/ up'[i].r = r /\ up'[i].code = code
      BY <1>0, <1>6, Ends DEF ToolEnds, ToolStopped
    <2>2. UNCHANGED caller
      BY <1>6 DEF ToolEnds, ToolStopped
    <2>3. \A q \in Request : run[q].finished => run'[q].finished
      BY <2>1 DEF RunBecomes
    <2>4. \A i \in DOMAIN answers' : \/ \E j \in DOMAIN answers : answers'[i] = answers[j]
                                     \/ answers'[i].r = r /\ answers'[i].code = code
      <3>1. answers \in Seq(Kept) /\ code \in Code
        BY <1>0 DEF ServerTyped, Code
      <3> QED
        BY <2>1, <3>1, Keeps
    <2>5. code = "ok" => run'[r].finished
      BY <2>1 DEF RunBecomes
    <2> QED
      BY <1>s, <2>1, <2>2, <2>3, <2>4, <2>5
  <1>7. ASSUME NEW r \in Request, AnswerExpires(r) PROVE OkInv'
    <2>1. UNCHANGED <<caller, run, up>>
      BY <1>7 DEF AnswerExpires, Expire
    <2>2. \A i \in DOMAIN answers' : \E j \in DOMAIN answers : answers'[i] = answers[j]
      <3>1. PICK k \in DOMAIN answers :
              /\ k \in Nat
              /\ \A i \in DOMAIN answers' :
                   /\ i \in Nat
                   /\ i < k => i \in DOMAIN answers /\ answers'[i] = answers[i]
                   /\ i >= k => i + 1 \in DOMAIN answers /\ answers'[i] = answers[i + 1]
        BY <1>0, <1>7, Expired DEF AnswerExpires
      <3> QED
        BY <3>1
    <2> QED
      BY <1>s, <2>1, <2>2
  <1>8. CASE ComputerReceives
    <2>1. UNCHANGED caller /\ Head(down).r \in Request
      BY <1>8, Reads
    <2>2. CASE UNCHANGED <<run, answers, up>>
      BY <1>s, <2>1, <2>2
    <2>3. CASE Handle(Head(down).r, Head(down).type = "resume")
      <3> DEFINE r == Head(down).r
      <3>1. /\ \A i \in DOMAIN up' :
                 \/ \E j \in DOMAIN up : up'[i] = up[j]
                 \/ up'[i].type = "accepted"
                 \/ up'[i].code = "unsupported" \/ up'[i].code = "no_record"
                 \/ \E j \in DOMAIN answers :
                      answers[j].r = up'[i].r /\ answers[j].code = up'[i].code
            /\ \/ answers' = Prune(answers)
               \/ answers' = Append(Prune(answers), [r |-> r, code |-> "unsupported"])
            /\ run' = run \/ RunBecomes(r, "live", run[r].starts + 1, run[r].finished)
        BY <1>0, <2>1, <2>3, Handles
      <3>2. \A q \in Request : run[q].finished => run'[q].finished
        BY <2>1, <3>1 DEF RunBecomes
      <3>3. \A i \in DOMAIN answers' : \/ \E j \in DOMAIN answers : answers'[i] = answers[j]
                                       \/ answers'[i].code = "unsupported"
        <4>1. /\ Prune(answers) \in Seq(Kept)
              /\ \A i \in DOMAIN Prune(answers) :
                   \E j \in DOMAIN answers : Prune(answers)[i] = answers[j]
          BY <1>0, Prunes
        <4>2. CASE answers' = Prune(answers)
          BY <4>1, <4>2
        <4>3. CASE answers' = Append(Prune(answers), [r |-> r, code |-> "unsupported"])
          <5>1. \A i \in DOMAIN answers' :
                  \/ i \in DOMAIN Prune(answers) /\ answers'[i] = Prune(answers)[i]
                  \/ answers'[i].code = "unsupported"
            <6>1. "unsupported" \in Code
              BY DEF Code
            <6> QED
              BY <2>1, <4>1, <4>3, <6>1, Keeps
          <5> QED
            BY <4>1, <5>1
        <4> QED
          BY <3>1, <4>2, <4>3
      <3> HIDE DEF r
      <3> QED
        BY <1>s, <2>1, <3>1, <3>2, <3>3
    <2>4. CASE StopRun(Head(down).r)
      <3>1. PICK state \in {"none", "live", "stopping"} :
              RunBecomes(Head(down).r, state, run[Head(down).r].starts, run[Head(down).r].finished)
        BY <1>0, <2>1, <2>4, ServerEnvironment
      <3>2. \A q \in Request : run[q].finished => run'[q].finished
        BY <2>1, <3>1 DEF RunBecomes
      <3>3. UNCHANGED <<answers, up>>
        BY <2>4 DEF StopRun
      <3> QED
        BY <1>s, <2>1, <3>2, <3>3
    <2> QED
      BY <1>8, <2>2, <2>3, <2>4, Reads
  <1>9. CASE ComputerRestarts
    <2>1. /\ UNCHANGED <<caller, up>> /\ answers' = <<>>
          /\ \A q \in Request : run[q].finished => run'[q].finished
      BY <1>0, <1>9, ServerEnvironment DEF ComputerRestarts, Restart
    <2> QED
      BY <1>s, <2>1
  <1> QED
    BY <1>1, <1>2, <1>3, <1>4, <1>5, <1>6, <1>7, <1>8, <1>9 DEF Next

\* A tool call is reported as done only when its run finished on the computer:
\* no refusal, timer, late acceptance, kept answer of another call or answer of
\* an interrupted run becomes a success (device-tool-relay.ts settle and onFrame,
\* device-tool-server.ts handle and the answers it keeps).
THEOREM SuccessIsReal == Spec => []OkMeansFinished
  <1>1. Init => OkInv
    BY DEF Init, RelayInit, ServerInit, OkInv
  <1>2. Typed /\ OkInv /\ [Next]_vars => OkInv'
    BY OkStep
  <1>3. OkInv => OkMeansFinished
    BY DEF OkInv, OkMeansFinished
  <1> QED
    BY <1>1, <1>2, <1>3, AlwaysTyped, PTL DEF Spec

-----------------------------------------------------------------------------
(* One call runs once.  While the computer keeps running and has room for  *)
(* every answer, a call that was started is in progress or answered, so    *)
(* neither a resend nor a replay finds it unknown.                         *)

KeptCall(r) ==
    /\ IsAnswered(answers, r) => run[r].state = "none"
    /\ restarts = 0 /\ run[r].starts > 0 => IsAnswered(answers, r) \/ run[r].state # "none"
    /\ restarts = 0 => run[r].starts <= 1

OneAnswerEach == \A i, j \in DOMAIN answers : answers[i].r = answers[j].r => i = j

KeptInv ==
    /\ OneAnswerEach
    /\ \A i \in DOMAIN answers : answers[i].code # "no_record"
    /\ \A r \in Request : KeptCall(r)

\* With one answer for each call there is nothing to prune.
LEMMA NothingPruned ==
    ASSUME ServerTyped, OneAnswerEach, Cardinality(Request) <= MaxKeptAnswers
    PROVE  Prune(answers) = answers
  <1> DEFINE f == [i \in DOMAIN answers |-> answers[i].r]
  <1>1. answers \in Seq(Kept) /\ Len(answers) \in Nat /\ DOMAIN answers = 1 .. Len(answers)
    BY DEF ServerTyped
  <1>2. \A i \in DOMAIN answers : answers[i].r \in Request
    <2>1. \A i \in DOMAIN answers : answers[i] \in Kept
      BY <1>1, Elements
    <2> QED
      BY <2>1 DEF Kept
  <1>3. f \in Injection(DOMAIN answers, Request)
    BY <1>2 DEF OneAnswerEach, Injection, IsInjective
  <1>4. Cardinality(DOMAIN answers) <= Cardinality(Request)
    BY <1>3, FS_Injection, DeviceToolsAssumption
  <1>5. Cardinality(DOMAIN answers) = Len(answers)
    <2> DEFINE n == Len(answers)
    <2>1. n \in Nat /\ 1 \in Int /\ DOMAIN answers = 1 .. n
      BY <1>1
    <2> HIDE DEF n
    <2>2. Cardinality(1 .. n) = IF 1 > n THEN 0 ELSE n - 1 + 1
      BY <2>1, FS_Interval
    <2>3. Cardinality(1 .. n) = n
      BY <2>1, <2>2
    <2> QED
      BY <2>1, <2>3 DEF n
  <1>6. Cardinality(Request) \in Nat /\ MaxKeptAnswers \in Nat
    BY FS_CardinalityType, DeviceToolsAssumption
  <1>7. ~(Len(answers) > MaxKeptAnswers)
    BY <1>1, <1>4, <1>5, <1>6
  <1> QED
    BY <1>7 DEF Prune

\* A call that has no answer gets one.
LEMMA OneMoreAnswer ==
    ASSUME ServerTyped, KeptInv, NEW r \in Request, NEW code \in Code,
           ~IsAnswered(answers, r), code # "no_record",
           answers' = Append(answers, [r |-> r, code |-> code])
    PROVE  /\ OneAnswerEach'
           /\ \A i \in DOMAIN answers' : answers'[i].code # "no_record"
           /\ IsAnswered(answers', r)
           /\ \A q \in Request \ {r} : IsAnswered(answers', q) <=> IsAnswered(answers, q)
  <1> DEFINE n == Len(answers) + 1
  <1>1. answers \in Seq(Kept)
    BY DEF ServerTyped
  <1>2. /\ \A i \in DOMAIN answers' :
             \/ i \in DOMAIN answers /\ answers'[i] = answers[i]
             \/ i = n /\ answers'[i].r = r /\ answers'[i].code = code
        /\ \A i \in DOMAIN answers : i \in DOMAIN answers' /\ answers'[i] = answers[i]
        /\ n \in DOMAIN answers' /\ answers'[n].r = r
    BY <1>1, Keeps
  <1> HIDE DEF n
  <1>3. \A i \in DOMAIN answers : answers[i].r # r
    BY DEF IsAnswered
  <1>4. OneAnswerEach'
    BY <1>2, <1>3 DEF KeptInv, OneAnswerEach
  <1>5. \A i \in DOMAIN answers' : answers'[i].code # "no_record"
    BY <1>2 DEF KeptInv
  <1>6. IsAnswered(answers', r)
    BY <1>2 DEF IsAnswered
  <1>7. ASSUME NEW q \in Request \ {r}
        PROVE  IsAnswered(answers', q) <=> IsAnswered(answers, q)
    BY <1>2 DEF IsAnswered
  <1> QED
    BY <1>4, <1>5, <1>6, <1>7

LEMMA KeptStep ==
    ASSUME Cardinality(Request) <= MaxKeptAnswers, Typed, KeptInv, [Next]_vars
    PROVE  KeptInv'
  <1>0. RelayTyped /\ ServerTyped /\ CountersTyped
    BY TypedParts
  <1> USE DEF relayVars, serverVars, counters
  <1>r. \A q \in Request : run[q].starts \in Nat
    BY DEF Typed, RunType
  <1>1. CASE UNCHANGED <<run, answers, restarts>>
    BY <1>1 DEF KeptInv, KeptCall, OneAnswerEach
  <1>2. CASE UNCHANGED vars \/ \E r \in Request :
               Attempt(r) \/ Relays(r) \/ Withdraws(r) \/ Expires(r) \/ AgentStops(r)
    BY <1>1, <1>2 DEF vars, Attempt, Relays, Withdraws, Expires, AgentStops
  <1>3. CASE \/ Connect \/ GateNotices \/ GateEvicted \/ GateReceives
             \/ ConnectionBreaks \/ ComputerNotices
    BY <1>1, <1>3 DEF Connect, GateNotices, GateEvicted, GateReceives, ConnectionBreaks,
                      ComputerNotices, Lose
  <1>4. ASSUME NEW r \in Request, ToolEnds(r) \/ ToolStopped(r) PROVE KeptInv'
    <2>1. PICK fin \in BOOLEAN, code \in {"ok", "failed", "canceled"} :
            /\ RunBecomes(r, "none", run[r].starts, fin)
            /\ answers' = Append(answers, [r |-> r, code |-> code])
      BY <1>0, <1>4, Ends DEF ToolEnds, ToolStopped
    <2>2. run[r].state # "none" /\ UNCHANGED restarts
      BY <1>0, <1>4, Ends DEF ToolEnds, ToolStopped
    <2>3. ~IsAnswered(answers, r)
      BY <2>2 DEF KeptInv, KeptCall
    <2>4. code \in Code /\ code # "no_record"
      BY DEF Code
    <2>5. /\ OneAnswerEach'
          /\ \A i \in DOMAIN answers' : answers'[i].code # "no_record"
          /\ IsAnswered(answers', r)
          /\ \A q \in Request \ {r} : IsAnswered(answers', q) <=> IsAnswered(answers, q)
      BY <1>0, <2>1, <2>3, <2>4, OneMoreAnswer
    <2>6. ASSUME NEW q \in Request PROVE KeptCall(q)'
      <3>1. CASE q = r
        BY <2>1, <2>2, <2>5, <3>1 DEF KeptInv, KeptCall, RunBecomes
      <3>2. CASE q # r
        BY <2>1, <2>2, <2>5, <3>2 DEF KeptInv, KeptCall, RunBecomes
      <3> QED
        BY <3>1, <3>2
    <2> QED
      BY <2>5, <2>6 DEF KeptInv
  <1>5. ASSUME NEW r \in Request, AnswerExpires(r) PROVE KeptInv'
    <2>1. UNCHANGED run /\ restarts' # 0
      BY <1>0, <1>5 DEF AnswerExpires, Expire, CountersTyped
    <2>2. PICK k \in DOMAIN answers :
            /\ k \in Nat
            /\ \A i \in DOMAIN answers' :
                 /\ i \in Nat
                 /\ i < k => i \in DOMAIN answers /\ answers'[i] = answers[i]
                 /\ i >= k => i + 1 \in DOMAIN answers /\ answers'[i] = answers[i + 1]
      BY <1>0, <1>5, Expired DEF AnswerExpires
    <2>3. OneAnswerEach'
      <3> SUFFICES ASSUME NEW i \in DOMAIN answers', NEW j \in DOMAIN answers',
                          answers'[i].r = answers'[j].r
                   PROVE  i = j
        BY DEF OneAnswerEach
      <3>1. i \in Nat /\ j \in Nat
        BY <2>2
      <3>2. CASE i < k /\ j < k
        BY <2>2, <3>2 DEF KeptInv, OneAnswerEach
      <3>3. CASE i < k /\ j >= k
        <4>1. i = j + 1
          BY <2>2, <3>3 DEF KeptInv, OneAnswerEach
        <4> QED
          BY <2>2, <3>1, <3>3, <4>1
      <3>4. CASE i >= k /\ j < k
        <4>1. i + 1 = j
          BY <2>2, <3>4 DEF KeptInv, OneAnswerEach
        <4> QED
          BY <2>2, <3>1, <3>4, <4>1
      <3>5. CASE i >= k /\ j >= k
        <4>1. i + 1 = j + 1
          BY <2>2, <3>5 DEF KeptInv, OneAnswerEach
        <4> QED
          BY <3>1, <4>1
      <3> QED
        BY <2>2, <3>1, <3>2, <3>3, <3>4, <3>5
    <2>4. \A i \in DOMAIN answers' : \E j \in DOMAIN answers : answers'[i] = answers[j]
      BY <2>2
    <2>5. \A i \in DOMAIN answers' : answers'[i].code # "no_record"
      BY <2>4 DEF KeptInv
    <2>6. \A q \in Request : IsAnswered(answers', q) => IsAnswered(answers, q)
      BY <2>4 DEF IsAnswered
    <2>7. \A q \in Request : KeptCall(q)'
      BY <2>1, <2>6 DEF KeptInv, KeptCall
    <2> QED
      BY <2>3, <2>5, <2>7 DEF KeptInv
  <1>6. CASE ComputerRestarts
    <2>1. restarts' # 0 /\ answers' = <<>>
      BY <1>0, <1>6 DEF ComputerRestarts, Restart, CountersTyped
    <2> QED
      BY <2>1 DEF KeptInv, KeptCall, OneAnswerEach, IsAnswered
  <1>7. CASE ComputerReceives
    <2> DEFINE r == Head(down).r
    <2>1. r \in Request /\ UNCHANGED restarts
      BY <1>7, Reads
    <2>2. CASE UNCHANGED <<run, answers>>
      BY <1>1, <2>1, <2>2
    <2>3. CASE StopRun(r)
      <3>1. PICK state \in {"none", "live", "stopping"} :
              /\ RunBecomes(r, state, run[r].starts, run[r].finished)
              /\ state = "none" <=> run[r].state = "none"
        BY <1>0, <2>1, <2>3, ServerEnvironment
      <3>2. UNCHANGED answers
        BY <2>3 DEF StopRun
      <3> HIDE DEF r
      <3>3. ASSUME NEW q \in Request PROVE KeptCall(q)'
        BY <2>1, <3>1, <3>2 DEF KeptInv, KeptCall, RunBecomes
      <3> QED
        BY <3>2, <3>3 DEF KeptInv, OneAnswerEach
    <2>4. CASE Handle(r, Head(down).type = "resume")
      <3>1. Prune(answers) = answers
        BY <1>0, NothingPruned DEF KeptInv
      <3> HIDE DEF r
      <3>2. /\ \/ answers' = answers
               \/ /\ answers' = Append(answers, [r |-> r, code |-> "unsupported"])
                  /\ Unknown(answers, r)
            /\ \/ run' = run
               \/ /\ Unknown(answers, r) /\ answers' = answers
                  /\ RunBecomes(r, "live", run[r].starts + 1, run[r].finished)
        BY <1>0, <2>1, <2>4, <3>1, Handles
      <3>3. CASE run' = run /\ answers' = answers
        BY <1>1, <2>1, <3>3
      <3>4. CASE /\ Unknown(answers, r) /\ answers' = answers
                 /\ RunBecomes(r, "live", run[r].starts + 1, run[r].finished)
        <4>1. restarts = 0 => run[r].starts = 0
          BY <1>r, <2>1, <3>4 DEF KeptInv, KeptCall, Unknown
        <4>2. ASSUME NEW q \in Request PROVE KeptCall(q)'
          <5>1. CASE q = r
            BY <2>1, <3>4, <4>1, <5>1 DEF KeptCall, Unknown, RunBecomes
          <5>2. CASE q # r
            BY <2>1, <3>4, <5>2 DEF KeptInv, KeptCall, RunBecomes
          <5> QED
            BY <5>1, <5>2
        <4> QED
          BY <3>4, <4>2 DEF KeptInv, OneAnswerEach
      <3>5. CASE /\ run' = run /\ Unknown(answers, r)
                 /\ answers' = Append(answers, [r |-> r, code |-> "unsupported"])
        <4>1. "unsupported" \in Code /\ ~IsAnswered(answers, r) /\ run[r].state = "none"
          BY <3>5 DEF Code, Unknown
        <4>2. /\ OneAnswerEach'
              /\ \A i \in DOMAIN answers' : answers'[i].code # "no_record"
              /\ IsAnswered(answers', r)
              /\ \A q \in Request \ {r} : IsAnswered(answers', q) <=> IsAnswered(answers, q)
          BY <1>0, <2>1, <3>5, <4>1, OneMoreAnswer
        <4>3. ASSUME NEW q \in Request PROVE KeptCall(q)'
          <5>1. CASE q = r
            BY <2>1, <3>5, <4>1, <4>2, <5>1 DEF KeptInv, KeptCall
          <5>2. CASE q # r
            BY <2>1, <3>5, <4>2, <5>2 DEF KeptInv, KeptCall
          <5> QED
            BY <5>1, <5>2
        <4> QED
          BY <4>2, <4>3 DEF KeptInv
      <3> QED
        BY <3>2, <3>3, <3>4, <3>5
    <2> QED
      BY <1>7, <2>2, <2>3, <2>4, Reads
  <1> QED
    BY <1>2, <1>3, <1>4, <1>5, <1>6, <1>7 DEF Next

\* A computer that keeps running, with room for the answers of all the calls,
\* runs each call at most once, whatever connections break, however often the
\* gate resends or the agent replays it, and whether or not the gate's object
\* survives (device-tool-server.ts handle, which looks a call up among its runs
\* and its kept answers before it starts one).
THEOREM RecordsPreventReruns ==
    ASSUME Cardinality(Request) <= MaxKeptAnswers
    PROVE  Spec => [](restarts = 0 => RunsOnce)
  <1>1. Init => KeptInv
    BY DEF Init, ServerInit, KeptInv, KeptCall, OneAnswerEach, IsAnswered
  <1>2. Typed /\ KeptInv /\ [Next]_vars => KeptInv'
    BY KeptStep
  <1>3. KeptInv => (restarts = 0 => RunsOnce)
    BY DEF KeptInv, KeptCall, RunsOnce
  <1> QED
    BY <1>1, <1>2, <1>3, AlwaysTyped, PTL DEF Spec

-----------------------------------------------------------------------------
(* A call the agent made once is sent once: every later frame about it is  *)
(* a resume, which starts nothing.  This needs no record at the computer,  *)
(* so it survives its restarts, its pruned answers and the gate's loss.    *)

IsCall(i, r) == down[i].type = "call" /\ down[i].r = r

HasCall(r) == \E i \in DOMAIN down : IsCall(i, r)

SingleCall(r) ==
    /\ attempts[r] = 0 =>
         ~checking[r] /\ ~pending[r].on /\ ~HasCall(r) /\ run[r].starts = 0
    /\ attempts[r] <= 1 =>
         /\ checking[r] => ~pending[r].on /\ ~HasCall(r) /\ run[r].starts = 0
         /\ \A i, j \in DOMAIN down : IsCall(i, r) /\ IsCall(j, r) => i = j
         /\ HasCall(r) => run[r].starts = 0
         /\ run[r].starts <= 1

SingleInv == \A r \in Request : SingleCall(r)

\* A withdrawal adds at most a cancel.
LEMMA WithdrawAdds ==
    ASSUME RelayTyped, NEW r \in Request, Withdraw(r)
    PROVE  \A i \in DOMAIN down' : \/ i \in DOMAIN down /\ down'[i] = down[i]
                                   \/ down'[i].type = "cancel"
  <1>1. CASE pending[r].socket = 0
    BY <1>1 DEF Withdraw
  <1>2. CASE pending[r].socket # 0
    <2> DEFINE f == Frame(pending[r].socket, "cancel", r)
    <2>1. f \in Seq(DownFrame) /\ \A j \in DOMAIN f : f[j].type = "cancel"
      <3>1. pending[r].socket \in Nat
        BY DEF RelayTyped, PendingType
      <3> QED
        BY <3>1 DEF Frame, DownFrame
    <2>2. down \in Seq(DownFrame) /\ down' = down \o f
      BY <1>2 DEF RelayTyped, Withdraw
    <2> HIDE DEF f
    <2>3. \A i \in DOMAIN (down \o f) :
             \/ i \in DOMAIN down /\ (down \o f)[i] = down[i]
             \/ \E j \in DOMAIN f : i = Len(down) + j /\ (down \o f)[i] = f[j]
      BY <2>1, <2>2, ConcatElements
    <2> QED
      BY <2>1, <2>2, <2>3
  <1> QED
    BY <1>1, <1>2

\* Steps of the relay other than a new call send no call and open no entry.
LEMMA RelayQuiet ==
    ASSUME RelayTyped, NEW r \in Request,
           Stop(r) \/ Cancel(r) \/ CallerLost(r) \/ TimerFires(r)
    PROVE  /\ \A i \in DOMAIN down' : \/ i \in DOMAIN down /\ down'[i] = down[i]
                                      \/ down'[i].type = "cancel"
           /\ \A q \in Request : pending'[q].on => pending[q].on
           /\ UNCHANGED checking
  <1>1. CASE Stop(r) \/ CallerLost(r)
    BY <1>1 DEF Stop, CallerLost
  <1>2. CASE Cancel(r)
    <2>1. \A i \in DOMAIN down' : \/ i \in DOMAIN down /\ down'[i] = down[i]
                                  \/ down'[i].type = "cancel"
      BY <1>2, WithdrawAdds DEF Cancel
    <2>2. \A q \in Request : pending'[q].on => pending[q].on
      BY <1>2 DEF Cancel, RelayTyped, NoCall
    <2> QED
      BY <1>2, <2>1, <2>2 DEF Cancel
  <1>3. CASE TimerFires(r)
    <2>1. \A i \in DOMAIN down' : \/ i \in DOMAIN down /\ down'[i] = down[i]
                                  \/ down'[i].type = "cancel"
      BY <1>3, WithdrawAdds DEF TimerFires
    <2>2. \A q \in Request : pending'[q].on => pending[q].on
      BY <1>3 DEF TimerFires, Settle, RelayTyped, NoCall
    <2> QED
      BY <1>3, <2>1, <2>2 DEF TimerFires
  <1> QED
    BY <1>1, <1>2, <1>3

\* A new call that is relayed is one frame more and one entry more.
LEMMA CallSends ==
    ASSUME RelayTyped, NEW r \in Request, Call(r)
    PROVE  /\ checking[r] /\ ~checking'[r]
           /\ \A q \in Request \ {r} : checking'[q] = checking[q] /\ pending'[q] = pending[q]
           /\ \/ UNCHANGED <<pending, down>>
              \/ /\ Len(down) + 1 \in DOMAIN down' /\ down'[Len(down) + 1].type = "call"
                 /\ down'[Len(down) + 1].r = r
                 /\ \A i \in DOMAIN down' : \/ i \in DOMAIN down /\ down'[i] = down[i]
                                            \/ i = Len(down) + 1
  <1>1. /\ checking[r] /\ ~checking'[r]
        /\ \A q \in Request \ {r} : checking'[q] = checking[q] /\ pending'[q] = pending[q]
    BY DEF Call, RelayTyped
  <1>2. UNCHANGED <<pending, down>> \/ down' = down \o Frame(liveSocket, "call", r)
    BY DEF Call
  <1>3. CASE UNCHANGED <<pending, down>>
    BY <1>1, <1>3
  <1>4. CASE down' = down \o Frame(liveSocket, "call", r)
    <2> DEFINE f == Frame(liveSocket, "call", r)
    <2>1. /\ f \in Seq(DownFrame) /\ DOMAIN f = {1}
          /\ f[1].type = "call" /\ f[1].r = r
      BY DEF RelayTyped, Frame, DownFrame
    <2>2. down \in Seq(DownFrame) /\ down' = down \o f
      BY <1>4 DEF RelayTyped
    <2> HIDE DEF f
    <2>3. /\ \A j \in DOMAIN f : /\ Len(down) + j \in DOMAIN (down \o f)
                                 /\ (down \o f)[Len(down) + j] = f[j]
          /\ \A i \in DOMAIN (down \o f) :
               \/ i \in DOMAIN down /\ (down \o f)[i] = down[i]
               \/ \E j \in DOMAIN f : i = Len(down) + j /\ (down \o f)[i] = f[j]
      BY <2>1, <2>2, ConcatElements
    <2> QED
      BY <1>1, <2>1, <2>2, <2>3
  <1> QED
    BY <1>2, <1>3, <1>4

\* Frames from the computer and lost connections open no entry.
LEMMA EntriesOnlyClose ==
    ASSUME RelayTyped
    PROVE  /\ \A f \in UpFrameType : OnFrame(f) =>
                \A q \in Request : pending'[q].on => pending[q].on
           /\ OnDeviceGone => \A q \in Request : pending'[q].on => pending[q].on
           /\ Evict => \A q \in Request : ~pending'[q].on
  <1>1. ASSUME NEW f \in UpFrameType, OnFrame(f), NEW q \in Request, pending'[q].on
        PROVE  pending[q].on
    <2>1. f.r \in Request /\ pending \in [Request -> PendingType]
      BY DEF UpFrameType, RelayTyped
    <2>2. CASE UNCHANGED pending
      BY <1>1, <2>2
    <2>3. CASE /\ pending[f.r].on
               /\ \/ pending' = [pending EXCEPT ![f.r].accepted = TRUE, ![f.r].timer = "timeout"]
                  \/ pending' = [pending EXCEPT ![f.r] = NoCall]
      BY <1>1, <2>1, <2>3
    <2> QED
      BY <1>1, <2>2, <2>3 DEF OnFrame, Settle
  <1>2. ASSUME OnDeviceGone, NEW q \in Request, pending'[q].on PROVE pending[q].on
    BY <1>2, GoneType DEF OnDeviceGone
  <1>3. ASSUME Evict, NEW q \in Request PROVE ~pending'[q].on
    BY <1>3 DEF Evict, NoCall
  <1> QED
    BY <1>1, <1>2, <1>3

\* A step that starts nothing and sends no new call.
LEMMA SingleQuiet ==
    ASSUME SingleInv, UNCHANGED attempts,
           \A q \in Request : /\ checking'[q] => checking[q]
                              /\ pending'[q].on => pending[q].on
                              /\ run'[q].starts = run[q].starts,
           \A i \in DOMAIN down' :
             down'[i].type = "call" => i \in DOMAIN down /\ down'[i] = down[i]
    PROVE  SingleInv'
  <1> SUFFICES ASSUME NEW q \in Request PROVE SingleCall(q)'
    BY DEF SingleInv
  <1>1. \A i \in DOMAIN down' : IsCall(i, q)' => i \in DOMAIN down /\ IsCall(i, q)
    BY DEF IsCall
  <1>2. HasCall(q)' => HasCall(q)
    BY <1>1 DEF HasCall
  <1>3. SingleCall(q)
    BY DEF SingleInv
  <1> HIDE DEF IsCall, HasCall
  <1> QED
    BY <1>1, <1>2, <1>3 DEF SingleCall

LEMMA SingleStep == Typed /\ SingleInv /\ [Next]_vars => SingleInv'
  <1> SUFFICES ASSUME Typed, SingleInv, [Next]_vars PROVE SingleInv'
    OBVIOUS
  <1>0. RelayTyped /\ ServerTyped /\ CountersTyped
    BY TypedParts
  <1> USE DEF relayVars, serverVars, counters
  <1>1. CASE UNCHANGED vars
    BY <1>1, SingleQuiet DEF vars
  <1>2. ASSUME NEW r \in Request, Attempt(r) PROVE SingleInv'
    <2>1. /\ attempts' = [attempts EXCEPT ![r] = @ + 1] /\ attempts \in [Request -> Nat]
          /\ \A q \in Request \ {r} : checking'[q] = checking[q]
          /\ UNCHANGED <<pending, down, run>>
      BY <1>0, <1>2 DEF Attempt, DeviceTool, CountersTyped, RelayTyped
    <2> SUFFICES ASSUME NEW q \in Request PROVE SingleCall(q)'
      BY DEF SingleInv
    <2>2. SingleCall(q) /\ (HasCall(q)' <=> HasCall(q)) /\ \A i : IsCall(i, q)' <=> IsCall(i, q)
      BY <2>1 DEF SingleInv, HasCall, IsCall
    <2>3. CASE q = r
      <3>1. attempts'[r] = attempts[r] + 1 /\ attempts[r] \in Nat
        BY <2>1
      <3>2. attempts'[r] # 0 /\ (attempts'[r] <= 1 => attempts[r] = 0)
        BY <3>1
      <3>3. attempts[r] = 0 => \A i \in DOMAIN down : ~IsCall(i, r)
        BY <2>2, <2>3 DEF SingleCall, HasCall
      <3> QED
        BY <2>1, <2>2, <2>3, <3>2, <3>3 DEF SingleCall
    <2>4. CASE q # r
      <3>1. attempts'[q] = attempts[q] /\ checking'[q] = checking[q]
        BY <2>1, <2>4
      <3> QED
        BY <2>1, <2>2, <3>1 DEF SingleCall
    <2> QED
      BY <2>3, <2>4
  <1>3. ASSUME NEW r \in Request, Relays(r) PROVE SingleInv'
    <2> DEFINE n == Len(down) + 1
    <2>1. /\ checking[r] /\ ~checking'[r]
          /\ \A q \in Request \ {r} : checking'[q] = checking[q] /\ pending'[q] = pending[q]
          /\ \/ UNCHANGED <<pending, down>>
             \/ /\ n \in DOMAIN down' /\ down'[n].type = "call" /\ down'[n].r = r
                /\ \A i \in DOMAIN down' : \/ i \in DOMAIN down /\ down'[i] = down[i]
                                           \/ i = n
      BY <1>0, <1>3, CallSends DEF Relays
    <2>2. UNCHANGED <<attempts, run>>
      BY <1>3 DEF Relays
    <2> HIDE DEF n
    <2>3. CASE UNCHANGED <<pending, down>>
      BY <2>1, <2>2, <2>3, SingleQuiet
    <2>4. CASE /\ n \in DOMAIN down' /\ down'[n].type = "call" /\ down'[n].r = r
               /\ \A i \in DOMAIN down' : \/ i \in DOMAIN down /\ down'[i] = down[i]
                                          \/ i = n
      <3> SUFFICES ASSUME NEW q \in Request PROVE SingleCall(q)'
        BY DEF SingleInv
      <3>1. SingleCall(q) /\ SingleCall(r)
        BY DEF SingleInv
      <3>2. CASE q = r
        <4>1. attempts[r] # 0
          BY <2>1, <3>1 DEF SingleCall
        <4>2. ASSUME attempts[r] <= 1
              PROVE  /\ run[r].starts = 0
                     /\ \A i \in DOMAIN down' : IsCall(i, r)' => i = n
          <5>1. ~HasCall(r) /\ run[r].starts = 0
            BY <2>1, <3>1, <4>2 DEF SingleCall
          <5> QED
            BY <2>4, <5>1 DEF HasCall, IsCall
        <4>3. /\ attempts[r] <= 1 => run[r].starts = 0
              /\ attempts[r] <= 1 =>
                   \A i, j \in DOMAIN down' : IsCall(i, r)' /\ IsCall(j, r)' => i = j
          BY <4>2, Zenon
        <4> QED
          BY <2>1, <2>2, <3>2, <4>1, <4>3 DEF SingleCall
      <3>3. CASE q # r
        <4>1. /\ \A i \in DOMAIN down' : IsCall(i, q)' => i \in DOMAIN down /\ IsCall(i, q)
          BY <2>4, <3>3 DEF IsCall
        <4>2. HasCall(q)' => HasCall(q)
          BY <4>1 DEF HasCall
        <4>3. checking'[q] = checking[q] /\ pending'[q] = pending[q]
          BY <2>1, <3>3
        <4> QED
          BY <2>2, <3>1, <4>1, <4>2, <4>3 DEF SingleCall
      <3> QED
        BY <3>2, <3>3
    <2> QED
      BY <2>1, <2>3, <2>4
  <1>4. ASSUME NEW r \in Request, Withdraws(r) \/ Expires(r) \/ AgentStops(r) PROVE SingleInv'
    <2>1. Stop(r) \/ Cancel(r) \/ CallerLost(r) \/ TimerFires(r)
      BY <1>4 DEF Withdraws, Expires, AgentStops
    <2>2. UNCHANGED <<run, attempts>>
      BY <1>4 DEF Withdraws, Expires, AgentStops
    <2>3. /\ \A i \in DOMAIN down' : \/ i \in DOMAIN down /\ down'[i] = down[i]
                                     \/ down'[i].type = "cancel"
          /\ \A q \in Request : pending'[q].on => pending[q].on
          /\ UNCHANGED checking
      BY <1>0, <2>1, RelayQuiet
    <2> QED
      BY <2>2, <2>3, SingleQuiet
  <1>5. ASSUME NEW r \in Request, ToolEnds(r) \/ ToolStopped(r) PROVE SingleInv'
    <2>1. \A q \in Request : run'[q].starts = run[q].starts
      BY <1>0, <1>5, Ends DEF ToolEnds, ToolStopped, RunBecomes
    <2>2. UNCHANGED <<checking, pending, down, attempts>>
      BY <1>5 DEF ToolEnds, ToolStopped
    <2> QED
      BY <2>1, <2>2, SingleQuiet
  <1>6. ASSUME NEW r \in Request, AnswerExpires(r) PROVE SingleInv'
    BY <1>6, SingleQuiet DEF AnswerExpires, Expire
  <1>7. CASE ConnectionBreaks \/ ComputerNotices
    BY <1>7, SingleQuiet DEF ConnectionBreaks, ComputerNotices, Lose
  <1>8. CASE Connect
    <2>1. conns + 1 \in Nat /\ OnDeviceConnected(conns + 1) /\ UNCHANGED <<run, attempts>>
      BY <1>0, <1>8 DEF Connect, CountersTyped
    <2>2. /\ \A i \in DOMAIN down' : down'[i].type # "call"
          /\ \A q \in Request : pending'[q].on => pending[q].on
          /\ UNCHANGED checking
      BY <1>0, <2>1, Reconnects
    <2> QED
      BY <2>1, <2>2, SingleQuiet
  <1>9. CASE GateNotices
    <2>1. \A q \in Request : pending'[q].on => pending[q].on
      BY <1>0, <1>9, EntriesOnlyClose DEF GateNotices
    <2>2. UNCHANGED <<checking, down, run, attempts>>
      BY <1>9 DEF GateNotices, OnDeviceGone
    <2> QED
      BY <2>1, <2>2, SingleQuiet
  <1>10. CASE GateEvicted
    <2>1. \A q \in Request : ~pending'[q].on /\ ~checking'[q]
      BY <1>0, <1>10, EntriesOnlyClose DEF GateEvicted, Evict
    <2>2. UNCHANGED <<down, run, attempts>>
      BY <1>10 DEF GateEvicted, Evict
    <2> QED
      BY <2>1, <2>2, SingleQuiet
  <1>11. CASE GateReceives
    <2>1. \A q \in Request : pending'[q].on => pending[q].on
      BY <1>0, <1>11, GateReads, EntriesOnlyClose
    <2>2. UNCHANGED <<run, attempts>>
      BY <1>11, GateReads
    <2>3. UNCHANGED <<checking, down>>
      BY <1>11, GateReads DEF OnFrame
    <2> QED
      BY <2>1, <2>2, <2>3, SingleQuiet
  <1>12. CASE ComputerRestarts
    <2>1. \A q \in Request : run'[q].starts = run[q].starts
      BY <1>0, <1>12, ServerEnvironment DEF ComputerRestarts
    <2>2. UNCHANGED <<checking, pending, down, attempts>>
      BY <1>12 DEF ComputerRestarts
    <2> QED
      BY <2>1, <2>2, SingleQuiet
  <1>13. CASE ComputerReceives
    <2> DEFINE r == Head(down).r
    <2>1. /\ r \in Request /\ 1 \in DOMAIN down /\ r = down[1].r
          /\ \A i \in DOMAIN down' : i + 1 \in DOMAIN down /\ down'[i] = down[i + 1] /\ i \in Nat
          /\ UNCHANGED <<checking, pending, attempts>>
          /\ Head(down) = down[1]
      BY <1>13, Reads
    <2>2. \/ \A q \in Request : run'[q].starts = run[q].starts
          \/ /\ down[1].type = "call"
             /\ run'[r].starts = run[r].starts + 1
             /\ \A q \in Request \ {r} : run'[q].starts = run[q].starts
      <3>1. CASE UNCHANGED run
        BY <3>1
      <3>2. CASE StopRun(r)
        BY <1>0, <2>1, <3>2, ServerEnvironment DEF RunBecomes
      <3>3. CASE /\ Head(down).type \in {"call", "resume"}
                 /\ Handle(r, Head(down).type = "resume")
        <4>1. \/ run' = run
              \/ /\ ~(Head(down).type = "resume")
                 /\ RunBecomes(r, "live", run[r].starts + 1, run[r].finished)
          BY <1>0, <2>1, <3>3, Handles
        <4> HIDE DEF r
        <4> QED
          BY <2>1, <3>3, <4>1 DEF RunBecomes
      <3> QED
        BY <1>13, <3>1, <3>2, <3>3, Reads
    <2> HIDE DEF r
    <2> SUFFICES ASSUME NEW q \in Request PROVE SingleCall(q)'
      BY DEF SingleInv
    <2>3. SingleCall(q) /\ run[q].starts \in Nat /\ attempts[q] \in Nat
      BY DEF SingleInv, Typed, RunType
    <2>4. \A i \in DOMAIN down' : i + 1 \in DOMAIN down /\ i \in Nat /\ (IsCall(i, q)' => IsCall(i + 1, q))
      BY <2>1 DEF IsCall
    <2>5. HasCall(q)' => HasCall(q)
      BY <2>4 DEF HasCall
    <2>6. attempts[q] <= 1 =>
            \A i, j \in DOMAIN down' : IsCall(i, q)' /\ IsCall(j, q)' => i = j
      <3> SUFFICES ASSUME attempts[q] <= 1, NEW i \in DOMAIN down', NEW j \in DOMAIN down',
                          IsCall(i, q)', IsCall(j, q)'
                   PROVE  i = j
        BY Zenon
      <3>1. i + 1 = j + 1 /\ i \in Nat /\ j \in Nat
        BY <2>3, <2>4 DEF SingleCall
      <3> QED
        BY <3>1
    <2>7. CASE run'[q].starts = run[q].starts
      BY <2>1, <2>3, <2>5, <2>6, <2>7 DEF SingleCall
    <2>8. CASE q = r /\ down[1].type = "call" /\ run'[q].starts = run[q].starts + 1
      <3>1. IsCall(1, q) /\ HasCall(q)
        BY <2>1, <2>8 DEF IsCall, HasCall
      <3>2. attempts[q] # 0
        BY <2>3, <3>1 DEF SingleCall
      <3>3. attempts[q] <= 1 => ~HasCall(q)' /\ ~checking[q] /\ run[q].starts = 0
        <4> SUFFICES ASSUME attempts[q] <= 1
                     PROVE  ~HasCall(q)' /\ ~checking[q] /\ run[q].starts = 0
          OBVIOUS
        <4>1. ~checking[q] /\ run[q].starts = 0
          BY <2>3, <3>1 DEF SingleCall
        <4>2. ASSUME NEW i \in DOMAIN down', IsCall(i, q)' PROVE FALSE
          <5>1. i \in Nat /\ i + 1 \in DOMAIN down /\ IsCall(i + 1, q)
            BY <2>4, <4>2
          <5>2. i + 1 = 1
            BY <2>1, <2>3, <3>1, <5>1 DEF SingleCall
          <5>3. i # 0
            BY <4>2, <1>13, Reads
          <5> QED
            BY <5>1, <5>2, <5>3
        <4> QED
          BY <4>1, <4>2 DEF HasCall
      <3> QED
        BY <2>1, <2>6, <2>8, <3>2, <3>3 DEF SingleCall
    <2> QED
      BY <2>2, <2>7, <2>8
  <1> QED
    BY <1>1, <1>2, <1>3, <1>4, <1>5, <1>6, <1>7, <1>8, <1>9, <1>10, <1>11, <1>12, <1>13 DEF Next

LEMMA AlwaysSingle == Spec => []SingleInv
  <1>1. Init => SingleInv
    <2> SUFFICES ASSUME Init, NEW r \in Request PROVE SingleCall(r)
      BY DEF SingleInv
    <2>1. ~checking[r] /\ pending[r] = NoCall /\ run[r].starts = 0 /\ down = <<>>
      BY DEF Init, RelayInit, ServerInit
    <2>2. ~pending[r].on /\ ~HasCall(r) /\ DOMAIN down = {}
      BY <2>1 DEF NoCall, HasCall
    <2> QED
      BY <2>1, <2>2 DEF SingleCall
  <1>2. Typed /\ SingleInv /\ [Next]_vars => SingleInv'
    BY SingleStep
  <1> QED
    BY <1>1, <1>2, AlwaysTyped, PTL DEF Spec

\* Calls that no agent replays run at most once, through any number of
\* reconnects, restarts of the computer, expired or pruned answers and losses of
\* the gate's object: after the first frame the relay only asks to resume
\* (device-tool-relay.ts onDeviceConnected), and a resume starts nothing
\* (device-tool-server.ts handle).
THEOREM ResumesStartNothing == Spec => []((\A r \in Request : attempts[r] <= 1) => RunsOnce)
  <1>1. SingleInv => ((\A r \in Request : attempts[r] <= 1) => RunsOnce)
    BY DEF SingleInv, SingleCall, RunsOnce
  <1> QED
    BY <1>1, AlwaysSingle, PTL

-----------------------------------------------------------------------------
(* No record is true.  A resume goes out only after the call did; when the *)
(* computer then knows nothing of the call, the call was lost on the way,  *)
(* and no copy of it is still to come.                                     *)

HasResume(r) == \E i \in DOMAIN down : down[i].type = "resume" /\ down[i].r = r

SaidNoRecord(r) ==
    \/ caller[r] = "no_record"
    \/ \E i \in DOMAIN up : up[i].r = r /\ up[i].type = "answer" /\ up[i].code = "no_record"

NoRecordCall(r) ==
    restarts = 0 /\ attempts[r] <= 1 =>
      /\ HasResume(r) => attempts[r] = 1 /\ ~checking[r] /\ ~HasCall(r)
      /\ SaidNoRecord(r) =>
           attempts[r] = 1 /\ run[r].starts = 0 /\ ~checking[r] /\ ~HasCall(r)

NoRecordInv == \A r \in Request : NoRecordCall(r)

\* A step that sends the computer nothing new but cancels, starts nothing and
\* says nothing new.
LEMMA NoRecordQuiet ==
    ASSUME NoRecordInv, UNCHANGED <<attempts, restarts>>,
           \A q \in Request : /\ checking'[q] => checking[q]
                              /\ run'[q].starts = run[q].starts
                              /\ SaidNoRecord(q)' => SaidNoRecord(q),
           \A i \in DOMAIN down' :
             down'[i].type \in {"call", "resume"} => \E j \in DOMAIN down : down'[i] = down[j]
    PROVE  NoRecordInv'
  <1> SUFFICES ASSUME NEW q \in Request PROVE NoRecordCall(q)'
    BY DEF NoRecordInv
  <1>1. (HasCall(q)' => HasCall(q)) /\ (HasResume(q)' => HasResume(q))
    BY DEF HasCall, IsCall, HasResume
  <1>2. NoRecordCall(q)
    BY DEF NoRecordInv
  <1> QED
    BY <1>1, <1>2 DEF NoRecordCall

LEMMA NoRecordStep ==
    ASSUME Cardinality(Request) <= MaxKeptAnswers,
           Typed, KeptInv, SingleInv, NoRecordInv, [Next]_vars
    PROVE  NoRecordInv'
  <1>0. RelayTyped /\ ServerTyped /\ CountersTyped
    BY TypedParts
  <1> USE DEF relayVars, serverVars, counters
  <1>1. CASE UNCHANGED vars
    <2>1. \A q \in Request : SaidNoRecord(q)' => SaidNoRecord(q)
      BY <1>1 DEF vars, SaidNoRecord
    <2> QED
      BY <1>1, <2>1, NoRecordQuiet DEF vars
  <1>2. ASSUME NEW r \in Request, Attempt(r) PROVE NoRecordInv'
    <2>1. /\ attempts' = [attempts EXCEPT ![r] = @ + 1] /\ attempts \in [Request -> Nat]
          /\ \A q \in Request \ {r} : checking'[q] = checking[q]
          /\ \A q \in Request : caller'[q] = caller[q] \/ caller'[q] = "waiting"
          /\ UNCHANGED <<pending, down, run, up, restarts>>
      BY <1>0, <1>2 DEF Attempt, DeviceTool, CountersTyped, RelayTyped
    <2> SUFFICES ASSUME NEW q \in Request PROVE NoRecordCall(q)'
      BY DEF NoRecordInv
    <2>2. NoRecordCall(q) /\ (HasCall(q)' <=> HasCall(q)) /\ (HasResume(q)' <=> HasResume(q))
      BY <2>1 DEF NoRecordInv, HasCall, IsCall, HasResume
    <2>3. SaidNoRecord(q)' => SaidNoRecord(q)
      BY <2>1 DEF SaidNoRecord
    <2>4. CASE q = r
      <3>1. attempts'[r] = attempts[r] + 1 /\ attempts[r] \in Nat
        BY <2>1
      <3>2. attempts'[r] <= 1 => attempts[r] <= 1 /\ attempts[r] # 1
        BY <3>1
      <3> QED
        BY <2>1, <2>2, <2>3, <2>4, <3>2 DEF NoRecordCall
    <2>5. CASE q # r
      <3>1. attempts'[q] = attempts[q] /\ checking'[q] = checking[q]
        BY <2>1, <2>5
      <3> QED
        BY <2>1, <2>2, <2>3, <3>1 DEF NoRecordCall
    <2> QED
      BY <2>4, <2>5
  <1>3. ASSUME NEW r \in Request, Relays(r) PROVE NoRecordInv'
    <2> DEFINE n == Len(down) + 1
    <2>1. /\ checking[r] /\ ~checking'[r]
          /\ \A q \in Request \ {r} : checking'[q] = checking[q]
          /\ \/ UNCHANGED down
             \/ /\ n \in DOMAIN down' /\ down'[n].type = "call" /\ down'[n].r = r
                /\ \A i \in DOMAIN down' : \/ i \in DOMAIN down /\ down'[i] = down[i]
                                           \/ i = n
      BY <1>0, <1>3, CallSends DEF Relays
    <2>2. UNCHANGED <<attempts, restarts, run, up>>
      BY <1>3 DEF Relays
    <2>3. \A q \in Request : caller'[q] = caller[q] \/ caller'[q] # "no_record"
      BY <1>0, <1>3, RelayLearns DEF Relays
    <2> HIDE DEF n
    <2> SUFFICES ASSUME NEW q \in Request PROVE NoRecordCall(q)'
      BY DEF NoRecordInv
    <2>4. NoRecordCall(q) /\ (SaidNoRecord(q)' => SaidNoRecord(q))
      BY <2>2, <2>3 DEF NoRecordInv, SaidNoRecord
    <2>5. HasResume(q)' => HasResume(q)
      BY <2>1 DEF HasResume
    <2>6. CASE q = r
      BY <2>1, <2>2, <2>4, <2>5, <2>6 DEF NoRecordCall
    <2>7. CASE q # r
      <3>1. HasCall(q)' => HasCall(q)
        BY <2>1, <2>7 DEF HasCall, IsCall
      <3> QED
        BY <2>1, <2>2, <2>4, <2>5, <2>7, <3>1 DEF NoRecordCall
    <2> QED
      BY <2>6, <2>7
  <1>4. ASSUME NEW r \in Request, Withdraws(r) \/ Expires(r) \/ AgentStops(r) PROVE NoRecordInv'
    <2>1. Stop(r) \/ Cancel(r) \/ CallerLost(r) \/ TimerFires(r)
      BY <1>4 DEF Withdraws, Expires, AgentStops
    <2>2. UNCHANGED <<run, up, attempts, restarts>>
      BY <1>4 DEF Withdraws, Expires, AgentStops
    <2>3. /\ \A i \in DOMAIN down' : \/ i \in DOMAIN down /\ down'[i] = down[i]
                                     \/ down'[i].type = "cancel"
          /\ UNCHANGED checking
      BY <1>0, <2>1, RelayQuiet
    <2>4. \A q \in Request : SaidNoRecord(q)' => SaidNoRecord(q)
      BY <1>0, <2>1, <2>2, RelayLearns DEF SaidNoRecord
    <2> QED
      BY <2>2, <2>3, <2>4, NoRecordQuiet
  <1>5. ASSUME NEW r \in Request, ToolEnds(r) \/ ToolStopped(r) PROVE NoRecordInv'
    <2>1. PICK fin \in BOOLEAN, code \in {"ok", "failed", "canceled"} :
            /\ code = "ok" => fin
            /\ run[r].finished => fin
            /\ RunBecomes(r, "none", run[r].starts, fin)
            /\ answers' = Append(answers, [r |-> r, code |-> code])
            /\ \A i \in DOMAIN up' : \/ \E j \in DOMAIN up : up'[i] = up[j]
                                     \/ up'[i].r = r /\ up'[i].code = code
      <3>1. RunEnds(r) \/ RunStopped(r)
        BY <1>5 DEF ToolEnds, ToolStopped
      <3> QED
        BY <1>0, <3>1, Ends
    <2>2. UNCHANGED <<caller, checking, down, attempts, restarts>>
      BY <1>5 DEF ToolEnds, ToolStopped
    <2>3. \A q \in Request : run'[q].starts = run[q].starts
      BY <2>1 DEF RunBecomes
    <2>4. \A q \in Request : SaidNoRecord(q)' => SaidNoRecord(q)
      BY <2>1, <2>2 DEF SaidNoRecord
    <2> QED
      BY <2>2, <2>3, <2>4, NoRecordQuiet
  <1>6. CASE ComputerRestarts \/ \E r \in Request : AnswerExpires(r)
    <2>1. restarts' # 0
      BY <1>0, <1>6 DEF ComputerRestarts, AnswerExpires, CountersTyped
    <2> QED
      BY <2>1 DEF NoRecordInv, NoRecordCall
  <1>7. CASE ConnectionBreaks \/ ComputerNotices
    <2>1. UNCHANGED <<caller, checking, down, run, up, attempts, restarts>>
      BY <1>7 DEF ConnectionBreaks, ComputerNotices, Lose
    <2>2. \A q \in Request : SaidNoRecord(q)' => SaidNoRecord(q)
      BY <2>1 DEF SaidNoRecord
    <2> QED
      BY <2>1, <2>2, NoRecordQuiet
  <1>8. CASE Connect
    <2>1. /\ conns + 1 \in Nat /\ OnDeviceConnected(conns + 1)
          /\ UNCHANGED <<run, attempts, restarts>> /\ up' = <<>>
      BY <1>0, <1>8 DEF Connect, CountersTyped
    <2>2. /\ \A i \in DOMAIN down' :
               \/ down'[i].type = "connected"
               \/ down'[i].type = "resume" /\ down'[i].r \in InFlight
          /\ UNCHANGED <<caller, checking>>
      BY <1>0, <2>1, Reconnects
    <2> SUFFICES ASSUME NEW q \in Request PROVE NoRecordCall(q)'
      BY DEF NoRecordInv
    <2>3. NoRecordCall(q) /\ (SaidNoRecord(q)' => SaidNoRecord(q)) /\ ~HasCall(q)'
      BY <2>1, <2>2 DEF NoRecordInv, SaidNoRecord, HasCall, IsCall
    <2>4. HasResume(q)' => pending[q].on
      BY <2>2 DEF HasResume, InFlight
    <2>5. pending[q].on /\ attempts[q] <= 1 => attempts[q] = 1 /\ ~checking[q]
      <3>1. attempts[q] \in Nat
        BY DEF Typed
      <3> QED
        BY <3>1 DEF SingleInv, SingleCall
    <2> QED
      BY <2>1, <2>2, <2>3, <2>4, <2>5 DEF NoRecordCall
  <1>9. CASE GateNotices \/ GateEvicted
    <2>1. /\ UNCHANGED <<down, run, attempts, restarts>> /\ up' = <<>>
          /\ \A q \in Request : /\ checking'[q] => checking[q]
                                /\ caller'[q] = "no_record" => caller[q] = "no_record"
      BY <1>9 DEF GateNotices, OnDeviceGone, GateEvicted, Evict
    <2>2. \A q \in Request : SaidNoRecord(q)' => SaidNoRecord(q)
      BY <2>1 DEF SaidNoRecord
    <2> QED
      BY <2>1, <2>2, NoRecordQuiet
  <1>10. CASE GateReceives
    <2>1. /\ \A q \in Request :
               \/ caller'[q] = caller[q]
               \/ q = up[1].r /\ up[1].type = "answer" /\ caller'[q] = up[1].code
          /\ 1 \in DOMAIN up
      BY <1>0, <1>10, GateReads, FrameLearns
    <2>2. /\ \A i \in DOMAIN up' : i + 1 \in DOMAIN up /\ up'[i] = up[i + 1]
          /\ UNCHANGED <<run, attempts, restarts>>
      BY <1>10, GateReads
    <2>3. UNCHANGED <<checking, down>>
      BY <1>10, GateReads DEF OnFrame
    <2>4. \A q \in Request : SaidNoRecord(q)' => SaidNoRecord(q)
      BY <2>1, <2>2 DEF SaidNoRecord
    <2> QED
      BY <2>2, <2>3, <2>4, NoRecordQuiet
  <1>11. CASE ComputerReceives
    <2> DEFINE r == Head(down).r
    <2>1. /\ r \in Request /\ 1 \in DOMAIN down /\ r = down[1].r
          /\ \A i \in DOMAIN down' : i + 1 \in DOMAIN down /\ down'[i] = down[i + 1]
          /\ UNCHANGED <<caller, checking, attempts, restarts>>
          /\ Head(down) = down[1]
      BY <1>11, Reads
    <2>2. \A q \in Request : (HasCall(q)' => HasCall(q)) /\ (HasResume(q)' => HasResume(q))
      BY <2>1 DEF HasCall, IsCall, HasResume
    <2>3. CASE UNCHANGED <<run, up>>
      <3>1. \A q \in Request : SaidNoRecord(q)' => SaidNoRecord(q)
        BY <2>1, <2>3 DEF SaidNoRecord
      <3> QED
        BY <2>1, <2>3, <3>1, NoRecordQuiet
    <2>4. CASE StopRun(r)
      <3>1. \A q \in Request : run'[q].starts = run[q].starts
        BY <1>0, <2>1, <2>4, ServerEnvironment DEF RunBecomes
      <3>2. \A q \in Request : SaidNoRecord(q)' => SaidNoRecord(q)
        BY <2>1, <2>4 DEF SaidNoRecord, StopRun
      <3> QED
        BY <2>1, <3>1, <3>2, NoRecordQuiet
    <2>5. CASE /\ Head(down).type \in {"call", "resume"}
               /\ Handle(r, Head(down).type = "resume")
      <3>1. Prune(answers) = answers
        BY <1>0, NothingPruned DEF KeptInv
      <3>2. /\ \A i \in DOMAIN up' :
                 \/ \E j \in DOMAIN up : up'[i] = up[j]
                 \/ up'[i].type = "accepted"
                 \/ up'[i].r = r /\ up'[i].code = "unsupported"
                 \/ /\ up'[i].r = r /\ up'[i].code = "no_record"
                    /\ Head(down).type = "resume" /\ Unknown(answers, r)
                 \/ \E j \in DOMAIN answers :
                      answers[j].r = up'[i].r /\ answers[j].code = up'[i].code
            /\ \/ run' = run
               \/ /\ ~(Head(down).type = "resume")
                  /\ RunBecomes(r, "live", run[r].starts + 1, run[r].finished)
        BY <1>0, <2>1, <2>5, <3>1, Handles
      <3> HIDE DEF r
      <3>3. \A q \in Request : SaidNoRecord(q)' =>
              \/ SaidNoRecord(q)
              \/ q = r /\ down[1].type = "resume" /\ Unknown(answers, r)
        BY <2>1, <3>2 DEF SaidNoRecord, KeptInv
      <3>4. /\ down[1].type = "call" => HasCall(r)
            /\ down[1].type = "resume" => HasResume(r)
        BY <2>1 DEF HasCall, IsCall, HasResume
      <3>5. \A q \in Request : \/ run'[q].starts = run[q].starts
                               \/ q = r /\ HasCall(r)
        BY <2>1, <2>5, <3>2, <3>4 DEF RunBecomes
      <3>6. restarts = 0 /\ Unknown(answers, r) => run[r].starts = 0
        BY <2>1 DEF KeptInv, KeptCall, Unknown, Typed, RunType
      <3> SUFFICES ASSUME NEW q \in Request, restarts = 0, attempts[q] <= 1
                   PROVE  NoRecordCall(q)'
        BY <2>1 DEF NoRecordInv, NoRecordCall
      <3>7. /\ HasResume(q) => attempts[q] = 1 /\ ~checking[q] /\ ~HasCall(q)
            /\ SaidNoRecord(q) =>
                 attempts[q] = 1 /\ run[q].starts = 0 /\ ~checking[q] /\ ~HasCall(q)
        BY DEF NoRecordInv, NoRecordCall
      <3>8. HasResume(q)' => attempts'[q] = 1 /\ ~checking'[q] /\ ~HasCall(q)'
        BY <2>1, <2>2, <3>7
      <3>9. ASSUME SaidNoRecord(q)'
            PROVE  attempts'[q] = 1 /\ run'[q].starts = 0 /\ ~checking'[q] /\ ~HasCall(q)'
        <4>1. CASE SaidNoRecord(q)
          BY <2>1, <2>2, <3>5, <3>7, <4>1
        <4>2. CASE q = r /\ down[1].type = "resume" /\ Unknown(answers, r)
          BY <2>1, <2>2, <3>4, <3>5, <3>6, <3>7, <4>2
        <4> QED
          BY <3>3, <3>9, <4>1, <4>2
      <3> QED
        BY <3>8, <3>9 DEF NoRecordCall
    <2> QED
      BY <1>11, <2>3, <2>4, <2>5, Reads
  <1> QED
    BY <1>1, <1>2, <1>3, <1>4, <1>5, <1>6, <1>7, <1>8, <1>9, <1>10, <1>11 DEF Next

\* A computer that kept running, with room for the answers of all the calls,
\* says that it has no record of a call only when that call never ran and will
\* not: a failed resend may be reported as not done (device-tool-server.ts
\* handle, the resume branch).  Calls that are replayed are left out: the late
\* answer of one attempt can settle the next, whose call is still on its way.
THEOREM NoRecordMeansNeverRan ==
    ASSUME Cardinality(Request) <= MaxKeptAnswers
    PROVE  Spec => []((\A r \in Request : attempts[r] <= 1) => NoRecordIsTrue)
  <1>1. Init => KeptInv /\ NoRecordInv
    BY DEF Init, RelayInit, ServerInit, KeptInv, KeptCall, OneAnswerEach, IsAnswered,
           NoRecordInv, NoRecordCall, HasResume, SaidNoRecord
  <1>2. Typed /\ SingleInv /\ KeptInv /\ NoRecordInv /\ [Next]_vars => KeptInv' /\ NoRecordInv'
    BY KeptStep, NoRecordStep
  <1>3. NoRecordInv => ((\A r \in Request : attempts[r] <= 1) => NoRecordIsTrue)
    BY DEF NoRecordInv, NoRecordCall, SaidNoRecord, NoRecordIsTrue
  <1> QED
    BY <1>1, <1>2, <1>3, AlwaysTyped, AlwaysSingle, PTL DEF Spec
=============================================================================
