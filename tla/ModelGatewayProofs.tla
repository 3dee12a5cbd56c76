------------------------- MODULE ModelGatewayProofs -------------------------
(***************************************************************************)
(* Proofs about the model gateway, for any number of requests, of          *)
(* presentations of each, of slots and of evictions, any budget and any    *)
(* charges.                                                                *)
(***************************************************************************)
EXTENDS ModelGateway, FiniteSetTheorems, TLAPS

-----------------------------------------------------------------------------
(* Executions.                                                             *)

\* The shape of the two tables the argument is about.
Shape ==
    /\ call \in [Request -> [Calls -> CallType]]
    /\ result \in [Request -> ResultType]

\* A call that executes owns the row in flight of its request, which is not
\* past the abandon age; a kept result belongs to one call and is stored.
RowInv(r) ==
    /\ \A j, k \in Calls : Executing(r, j) /\ Executing(r, k) => j = k
    /\ \A k \in Calls : Executing(r, k) => Pending(r) /\ ~result[r].old
    /\ \A k \in Calls : call[r][k].kept => result[r].state = "cached"
    /\ \A j, k \in Calls : call[r][j].kept /\ call[r][k].kept => j = k

ExecInv == Shape /\ \A r \in Request : RowInv(r)

\* A request none of whose calls or rows a step touches keeps its invariant.
LEMMA Untouched ==
    ASSUME NEW r \in Request, RowInv(r), call'[r] = call[r], result'[r] = result[r]
    PROVE  RowInv(r)'
  BY DEF RowInv, Executing, Pending

\* Updating one call of one request leaves the others as they are.
LEMMA OneCall ==
    ASSUME Shape, NEW r \in Request, NEW k \in Calls, NEW c \in CallType,
           call' = [call EXCEPT ![r][k] = c]
    PROVE  /\ call' \in [Request -> [Calls -> CallType]]
           /\ call'[r][k] = c
           /\ \A j \in Calls : j # k => call'[r][j] = call[r][j]
           /\ \A s \in Request : s # r => call'[s] = call[s]
  BY DEF Shape

\* A call that goes on or ends without settling: its row is unchanged, and if
\* it executes afterwards it did before.
LEMMA QuietCall ==
    ASSUME ExecInv, NEW r \in Request, NEW k \in Calls, NEW c \in CallType,
           call' = [call EXCEPT ![r][k] = c], UNCHANGED result,
           c.kept = call[r][k].kept,
           c.at \in {"reserved", "upstream"} => Executing(r, k)
    PROVE  ExecInv'
  <1>1. /\ call' \in [Request -> [Calls -> CallType]]
        /\ call'[r][k] = c
        /\ \A j \in Calls : j # k => call'[r][j] = call[r][j]
        /\ \A s \in Request : s # r => call'[s] = call[s]
    BY OneCall DEF ExecInv
  <1>2. Shape'
    BY <1>1 DEF ExecInv, Shape
  <1>3. \A j \in Calls : Executing(r, j)' => Executing(r, j)
    BY <1>1 DEF Executing
  <1>4. \A j \in Calls : call'[r][j].kept = call[r][j].kept
    BY <1>1
  <1>5. RowInv(r)'
    BY <1>3, <1>4 DEF ExecInv, RowInv, Pending
  <1>6. \A s \in Request : RowInv(s)'
    <2> SUFFICES ASSUME NEW s \in Request, s # r PROVE RowInv(s)'
      BY <1>5
    <2> QED
      BY <1>1, Untouched DEF ExecInv
  <1> QED
    BY <1>2, <1>6 DEF ExecInv

\* A call that starts or stops executing, and its row with it.
LEMMA RowOfCall ==
    ASSUME ExecInv, NEW r \in Request, NEW k \in Calls, NEW c \in CallType,
           NEW row \in ResultType,
           call' = [call EXCEPT ![r][k] = c], result' = [result EXCEPT ![r] = row],
           \A j \in Calls : j # k => ~Executing(r, j) /\ ~call[r][j].kept,
           c.at \in {"reserved", "upstream"} => row.state = "in_flight" /\ ~row.old,
           c.kept => row.state = "cached"
    PROVE  ExecInv'
  <1>1. /\ call' \in [Request -> [Calls -> CallType]]
        /\ call'[r][k] = c
        /\ \A j \in Calls : j # k => call'[r][j] = call[r][j]
        /\ \A s \in Request : s # r => call'[s] = call[s]
    BY OneCall DEF ExecInv
  <1>2. /\ result' \in [Request -> ResultType]
        /\ result'[r] = row
        /\ \A s \in Request : s # r => result'[s] = result[s]
    BY DEF ExecInv, Shape
  <1>3. \A j \in Calls : Executing(r, j)' => j = k /\ c.at \in {"reserved", "upstream"}
    BY <1>1 DEF Executing
  <1>4. \A j \in Calls : call'[r][j].kept => j = k /\ c.kept
    BY <1>1
  <1>5. RowInv(r)'
    BY <1>2, <1>3, <1>4 DEF RowInv, Pending
  <1>6. \A s \in Request : RowInv(s)'
    <2> SUFFICES ASSUME NEW s \in Request, s # r PROVE RowInv(s)'
      BY <1>5
    <2> QED
      BY <1>1, <1>2, Untouched DEF ExecInv
  <1> QED
    BY <1>1, <1>2, <1>6 DEF ExecInv, Shape

\* Nothing is in flight for a request whose row is free, so no call executes
\* and no result was kept.
LEMMA FreeRow ==
    ASSUME ExecInv, NEW r \in Request, result[r].state = "none" \/ Abandoned(r)
    PROVE  \A j \in Calls : ~Executing(r, j) /\ ~call[r][j].kept
  BY DEF ExecInv, RowInv, Pending, Abandoned

\* Beside a call that executes, no other one does and no result was kept.
LEMMA AloneOnRow ==
    ASSUME ExecInv, NEW r \in Request, NEW k \in Calls, Executing(r, k)
    PROVE  /\ Pending(r)
           /\ \A j \in Calls : j # k => ~Executing(r, j)
           /\ \A j \in Calls : ~call[r][j].kept
  BY DEF ExecInv, RowInv, Pending

\* What is left of a call keeps its type and its outcome.
LEMMA GoneCall ==
    ASSUME NEW c \in CallType
    PROVE  /\ Gone(c) \in CallType
           /\ Gone(c).at = "over"
           /\ Gone(c).kept = c.kept
  BY DEF Gone, CallType

\* So does a call whose signal is aborted.
LEMMA AbortedCall ==
    ASSUME NEW c \in CallType
    PROVE  /\ [c EXCEPT !.aborted = TRUE] \in CallType
           /\ [c EXCEPT !.aborted = TRUE].at = c.at
           /\ [c EXCEPT !.aborted = TRUE].kept = c.kept
  BY DEF CallType

\* Ending a call settles nothing.
LEMMA OverIsQuiet ==
    ASSUME ExecInv, NEW r \in Request, NEW k \in Calls, Over(r, k), UNCHANGED result
    PROVE  ExecInv'
  <1>1. call[r][k] \in CallType
    BY DEF ExecInv, Shape
  <1>2. call' = [call EXCEPT ![r][k] = Gone(call[r][k])]
    BY DEF Over
  <1> QED
    BY <1>1, <1>2, GoneCall, QuietCall

\* Ending a call and dropping its request's row, when nothing else runs on it.
LEMMA OverDropsRow ==
    ASSUME ExecInv, NEW r \in Request, NEW k \in Calls, Over(r, k),
           result' = [result EXCEPT ![r] = NoResult],
           \A j \in Calls : j # k => ~Executing(r, j),
           \A j \in Calls : ~call[r][j].kept
    PROVE  ExecInv'
  <1>1. call[r][k] \in CallType
    BY DEF ExecInv, Shape
  <1>2. call' = [call EXCEPT ![r][k] = Gone(call[r][k])]
    BY DEF Over
  <1>3. NoResult \in ResultType
    BY DEF NoResult, ResultType
  <1> DEFINE c == Gone(call[r][k])
  <1>4. c \in CallType /\ c.at = "over" /\ ~c.kept
    BY <1>1, GoneCall
  <1>5. c.at \notin {"reserved", "upstream"}
    BY <1>4
  <1> HIDE DEF c
  <1>6. call' = [call EXCEPT ![r][k] = c]
    BY <1>2 DEF c
  <1> QED
    BY <1>3, <1>4, <1>5, <1>6, RowOfCall

\* finish settles the row of the call that executes.
LEMMA FinishStep ==
    ASSUME ExecInv, NEW r \in Request, NEW k \in Calls,
           NEW outcome \in Outcomes, NEW charge \in {0, Estimate} \union Charges,
           NEW keep \in BOOLEAN, Finish(r, k, outcome, charge, keep)
    PROVE  ExecInv'
  <1> DEFINE c == [call[r][k] EXCEPT !.at = "settled", !.outcome = outcome,
                                     !.charged = charge, !.kept = keep]
             row == Stored(keep, r)
  <1>1. call[r][k] \in CallType
    BY DEF ExecInv, Shape
  <1>2. c \in CallType /\ c.at = "settled" /\ c.kept = keep
    BY <1>1 DEF CallType
  <1>3. Executing(r, k)
    BY DEF Finish, Executing
  <1>4. row \in ResultType /\ (keep => row.state = "cached")
    BY <1>3, AloneOnRow DEF Stored, NoResult, ResultType, Pending
  <1>5. call' = [call EXCEPT ![r][k] = c] /\ result' = [result EXCEPT ![r] = row]
    BY DEF Finish
  <1>6. \A j \in Calls : j # k => ~Executing(r, j) /\ ~call[r][j].kept
    BY <1>3, AloneOnRow
  <1>7. c.at \notin {"reserved", "upstream"}
    BY <1>2
  <1> HIDE DEF c, row
  <1> QED
    BY <1>2, <1>4, <1>5, <1>6, <1>7, RowOfCall

\* The steps of a call keep the invariant.
LEMMA CallStep ==
    ASSUME ExecInv, NEW r \in Request, NEW k \in Calls,
           \/ Begin(r, k) \/ Refused(r, k) \/ ReserveKnown(r, k)
           \/ ReserveRefused(r, k) \/ Reserve(r, k) \/ TierAccepts(r, k)
           \/ TierRefuses(r, k) \/ FirstByte(r, k) \/ Succeeds(r, k) \/ Fails(r, k)
           \/ Aborts(r, k) \/ Releases(r, k) \/ BodyRead(r, k)
    PROVE  ExecInv'
  <1>0. call[r][k] \in CallType
    BY DEF ExecInv, Shape
  <1>a. ASSUME NEW v \in {"begun", "upstream", "body", "over"},
               call' = [call EXCEPT ![r][k].at = v], UNCHANGED result,
               v = "upstream" => Executing(r, k)
        PROVE  ExecInv'
    <2> DEFINE c == [call[r][k] EXCEPT !.at = v]
    <2>1. c \in CallType /\ c.at = v /\ c.kept = call[r][k].kept
      BY <1>0 DEF CallType
    <2>2. call' = [call EXCEPT ![r][k] = c]
      BY <1>a
    <2>3. c.at \in {"reserved", "upstream"} => Executing(r, k)
      BY <2>1, <1>a
    <2>4. UNCHANGED result
      BY <1>a
    <2> HIDE DEF c
    <2> QED
      BY <2>1, <2>2, <2>3, <2>4, QuietCall
  <1>1. CASE Begin(r, k)
    BY <1>1, <1>a DEF Begin
  <1>2. CASE Refused(r, k)
    BY <1>2, OverIsQuiet DEF Refused
  <1>3. CASE ReserveKnown(r, k)
    BY <1>3, <1>a, OverIsQuiet DEF ReserveKnown, Returned
  <1>4. CASE ReserveRefused(r, k)
    BY <1>4, FreeRow, OverDropsRow DEF ReserveRefused
  <1>5. CASE Reserve(r, k)
    <2> DEFINE c == [call[r][k] EXCEPT !.at = "reserved", !.mine = r \notin InFlight]
               row == [state |-> "in_flight", reserved |-> Estimate, old |-> FALSE]
    <2>1. c \in CallType /\ c.at = "reserved" /\ c.kept = call[r][k].kept
      BY <1>0 DEF CallType
    <2>2. row \in ResultType /\ row.state = "in_flight" /\ ~row.old
      BY DEF ResultType
    <2>3. call' = [call EXCEPT ![r][k] = c] /\ result' = [result EXCEPT ![r] = row]
      BY <1>5 DEF Reserve
    <2>4. \A j \in Calls : ~Executing(r, j) /\ ~call[r][j].kept
      BY <1>5, FreeRow DEF Reserve
    <2> HIDE DEF c, row
    <2> QED
      BY <2>1, <2>2, <2>3, <2>4, RowOfCall
  <1>6. CASE TierAccepts(r, k)
    BY <1>6, <1>a DEF TierAccepts, Executing
  <1>7. CASE TierRefuses(r, k)
    <2>1. Executing(r, k)
      BY <1>7 DEF TierRefuses, Executing
    <2>2. Stored(FALSE, r) = NoResult
      BY <2>1, AloneOnRow DEF Stored
    <2> QED
      BY <1>7, <2>1, <2>2, AloneOnRow, OverDropsRow DEF TierRefuses
  <1>8. CASE FirstByte(r, k)
    <2> DEFINE c == [call[r][k] EXCEPT !.byte = TRUE]
    <2>1. c \in CallType /\ c.at = call[r][k].at /\ c.kept = call[r][k].kept
      BY <1>0 DEF CallType
    <2>2. call' = [call EXCEPT ![r][k] = c] /\ UNCHANGED result
      BY <1>8 DEF FirstByte
    <2>3. Executing(r, k)
      BY <1>8 DEF FirstByte, Executing
    <2> HIDE DEF c
    <2> QED
      BY <2>1, <2>2, <2>3, QuietCall
  <1>9. CASE Succeeds(r, k)
    BY <1>9, FinishStep DEF Succeeds, Outcomes
  <1>10. CASE Fails(r, k)
    BY <1>10, FinishStep DEF Fails, Outcomes
  <1>11. CASE Aborts(r, k)
    BY <1>11, FinishStep DEF Aborts, Outcomes
  <1>12. CASE Releases(r, k)
    BY <1>12, <1>a, OverIsQuiet DEF Releases, Returned
  <1>13. CASE BodyRead(r, k)
    BY <1>13, OverIsQuiet DEF BodyRead
  <1> QED
    BY <1>1, <1>2, <1>3, <1>4, <1>5, <1>6, <1>7, <1>8, <1>9, <1>10, <1>11, <1>12, <1>13

\* Any step that leaves each call's place and result as they are, or ends it.
LEMMA CallsOnlyEnd ==
    ASSUME ExecInv, call' \in [Request -> [Calls -> CallType]], UNCHANGED result,
           \A r \in Request : \A k \in Calls :
               /\ call'[r][k].kept = call[r][k].kept
               /\ call'[r][k].at \in {call[r][k].at, "over"}
    PROVE  ExecInv'
  <1>1. Shape'
    BY DEF ExecInv, Shape
  <1>2. ASSUME NEW r \in Request PROVE RowInv(r)'
    <2>1. \A k \in Calls : /\ call'[r][k].kept = call[r][k].kept
                          /\ Executing(r, k)' => Executing(r, k)
      BY DEF Executing
    <2>2. RowInv(r) /\ result'[r] = result[r]
      BY DEF ExecInv
    <2> QED
      BY <2>1, <2>2 DEF RowInv, Pending
  <1> QED
    BY <1>1, <1>2 DEF ExecInv

\* The inductive step.
LEMMA ExecStep == ExecInv /\ [Next]_vars => ExecInv'
  <1> SUFFICES ASSUME ExecInv, [Next]_vars PROVE ExecInv'
    OBVIOUS
  <1>1. CASE UNCHANGED <<call, result>>
    BY <1>1 DEF ExecInv, Shape, RowInv, Executing, Pending
  <1>2. ASSUME NEW r \in Request, Cancel(r) PROVE ExecInv'
    <2>0. \A s \in Request : \A k \in Calls : call[s][k] \in CallType
      BY DEF ExecInv, Shape
    <2>1. \A k \in Calls : [call[r][k] EXCEPT !.aborted = TRUE] \in CallType
      BY <2>0, AbortedCall
    <2>2. /\ call' \in [Request -> [Calls -> CallType]]
          /\ \A s \in Request : \A k \in Calls :
                call'[s][k] \in {call[s][k], [call[s][k] EXCEPT !.aborted = TRUE]}
      BY <1>2, <2>1 DEF Cancel, ExecInv, Shape
    <2>3. \A s \in Request : \A k \in Calls :
              call'[s][k].kept = call[s][k].kept /\ call'[s][k].at = call[s][k].at
      BY <2>0, <2>2, AbortedCall
    <2> QED
      BY <1>2, <2>2, <2>3, CallsOnlyEnd DEF Cancel
  <1>3. ASSUME NEW r \in Request, RowAges(r) PROVE ExecInv'
    <2>1. result' \in [Request -> ResultType]
      BY <1>3 DEF RowAges, ExecInv, Shape, ResultType
    <2>2. /\ result'[r].state = result[r].state
          /\ \A s \in Request : s # r => result'[s] = result[s]
      BY <1>3 DEF RowAges, ExecInv, Shape, ResultType
    <2>3. RowInv(r)'
      BY <1>3, <2>2 DEF RowAges, ExecInv, RowInv, Executing, Pending
    <2>4. \A s \in Request : RowInv(s)'
      <3> SUFFICES ASSUME NEW s \in Request, s # r PROVE RowInv(s)'
        BY <2>3
      <3> QED
        BY <1>3, <2>2, Untouched DEF RowAges, ExecInv
    <2> QED
      BY <1>3, <2>1, <2>4 DEF RowAges, ExecInv, Shape
  <1>4. CASE Evict
    <2>1. \A r \in Request : \A k \in Calls : call'[r][k] \in {call[r][k], Gone(call[r][k])}
      BY <1>4 DEF Evict
    <2>2. \A r \in Request : \A k \in Calls : call[r][k] \in CallType
      BY DEF ExecInv, Shape
    <2>3. \A r \in Request : \A k \in Calls :
              /\ call'[r][k] \in CallType
              /\ call'[r][k].kept = call[r][k].kept
              /\ call'[r][k].at \in {call[r][k].at, "over"}
      BY <2>1, <2>2, GoneCall
    <2>4. call' \in [Request -> [Calls -> CallType]]
      BY <1>4, <2>3 DEF Evict
    <2> QED
      BY <1>4, <2>3, <2>4, CallsOnlyEnd DEF Evict
  <1>5. ASSUME NEW r \in Request, AdmissionAges(r) PROVE UNCHANGED <<call, result>>
    BY <1>5 DEF AdmissionAges
  <1>6. ASSUME NEW e \in queue, IngestUsage(e) PROVE UNCHANGED <<call, result>>
    BY <1>6 DEF IngestUsage
  <1>7. CASE UNCHANGED vars
    BY <1>1, <1>7 DEF vars
  <1> QED
    BY <1>1, <1>2, <1>3, <1>4, <1>5, <1>6, <1>7, CallStep DEF Next

\* A request id executes once at a time, and settle, which finds the row by
\* that id alone, settles the row of the call that reserved it.
THEOREM ExecutesOnce == Spec => []OneExecution
  <1>1. Init => ExecInv
    BY DEF Init, ExecInv, Shape, RowInv, Executing, Pending, NoCall, NoResult,
           CallType, ResultType, Outcomes
  <1>2. ExecInv => OneExecution
    BY DEF ExecInv, RowInv, OneExecution
  <1> QED
    BY <1>1, <1>2, ExecStep, PTL DEF Spec

\* A completion stored for replay is the only one its request ever gets.
THEOREM ReplayIsFinal == Spec => []KeptResultIsFinal
  <1>1. Init => ExecInv
    BY DEF Init, ExecInv, Shape, RowInv, Executing, Pending, NoCall, NoResult,
           CallType, ResultType, Outcomes
  <1>2. ExecInv => KeptResultIsFinal
    BY DEF ExecInv, RowInv, KeptResultIsFinal, Pending
  <1> QED
    BY <1>1, <1>2, ExecStep, PTL DEF Spec

-----------------------------------------------------------------------------
(* Cancellation.                                                           *)

LiveCalls(r) == {k \in Calls : Live(r, k)}

\* The controller in the map counts the live calls of its request and is the
\* one they are on; once the request is canceled those not yet settled know.
ControlInv(r) ==
    /\ control[r].refs = Cardinality(LiveCalls(r))
    /\ LiveCalls(r) \subseteq control[r].on
    /\ r \in canceled => \A k \in Calls :
           call[r][k].at \in {"begun", "reserved", "upstream"} => call[r][k].aborted

CancelInv ==
    /\ call \in [Request -> [Calls -> CallType]]
    /\ control \in [Request -> [refs : Nat, on : SUBSET Calls]]
    /\ canceled \subseteq Request
    /\ \A r \in Request : ControlInv(r)

\* The live calls of a request are finitely many.
LEMMA FinitelyMany == \A r : IsFiniteSet(LiveCalls(r))
  <1>1. MaxCalls \in Nat
    BY GatewayAssumption
  <1>2. IsFiniteSet(1 .. MaxCalls)
    BY <1>1, FS_Interval
  <1>3. Calls \in SUBSET (1 .. MaxCalls)
    BY DEF Calls
  <1>4. \A r : LiveCalls(r) \in SUBSET (1 .. MaxCalls)
    BY <1>3 DEF LiveCalls
  <1> QED
    BY <1>2, <1>4, FS_Subset

\* A request a step does not touch keeps its controller.
LEMMA SameControl ==
    ASSUME NEW r \in Request, ControlInv(r), call'[r] = call[r],
           control'[r] = control[r], r \in canceled' => r \in canceled
    PROVE  ControlInv(r)'
  <1>1. LiveCalls(r)' = LiveCalls(r)
    BY DEF LiveCalls, Live
  <1> QED
    BY <1>1 DEF ControlInv

\* Updating one call and the controller of its request.
LEMMA OneControl ==
    ASSUME CancelInv, NEW r \in Request, NEW k \in Calls, NEW c \in CallType,
           NEW m \in [refs : Nat, on : SUBSET Calls],
           call' = [call EXCEPT ![r][k] = c], control' = [control EXCEPT ![r] = m],
           UNCHANGED canceled,
           LiveCalls(r)' \subseteq m.on, m.refs = Cardinality(LiveCalls(r)'),
           c.at \in {"begun", "reserved", "upstream"} => c.aborted \/ r \notin canceled
    PROVE  CancelInv'
  <1>1. /\ call' \in [Request -> [Calls -> CallType]]
        /\ call'[r][k] = c
        /\ \A j \in Calls : j # k => call'[r][j] = call[r][j]
        /\ \A s \in Request : s # r => call'[s] = call[s]
    BY DEF CancelInv
  <1>2. /\ control' \in [Request -> [refs : Nat, on : SUBSET Calls]]
        /\ control'[r] = m
        /\ \A s \in Request : s # r => control'[s] = control[s]
    BY DEF CancelInv
  <1>3. ControlInv(r)'
    BY <1>1, <1>2 DEF CancelInv, ControlInv
  <1>4. \A s \in Request : ControlInv(s)'
    <2> SUFFICES ASSUME NEW s \in Request, s # r PROVE ControlInv(s)'
      BY <1>3
    <2> QED
      BY <1>1, <1>2, SameControl DEF CancelInv
  <1> QED
    BY <1>1, <1>2, <1>4 DEF CancelInv

\* A step within a call that stays live, or that was never live.
LEMMA StaysOn ==
    ASSUME CancelInv, NEW r \in Request, NEW k \in Calls, NEW c \in CallType,
           call' = [call EXCEPT ![r][k] = c], UNCHANGED <<control, canceled>>,
           Live(r, k)' <=> Live(r, k),
           c.at \in {"begun", "reserved", "upstream"} => c.aborted \/ r \notin canceled
    PROVE  CancelInv'
  <1>1. \A j \in Calls : j # k => call'[r][j] = call[r][j]
    BY DEF CancelInv
  <1>2. LiveCalls(r)' = LiveCalls(r)
    BY <1>1 DEF LiveCalls, Live
  <1>3. control' = [control EXCEPT ![r] = control[r]]
    BY DEF CancelInv
  <1>4. control[r] \in [refs : Nat, on : SUBSET Calls]
    BY DEF CancelInv
  <1>5. LiveCalls(r)' \subseteq control[r].on /\ control[r].refs = Cardinality(LiveCalls(r)')
    BY <1>2 DEF CancelInv, ControlInv
  <1> QED
    BY <1>3, <1>4, <1>5, OneControl

\* The last live call takes the controller away, any other leaves it.
LEMMA OverReleases ==
    ASSUME CancelInv, NEW r \in Request, NEW k \in Calls, Live(r, k), Over(r, k),
           UNCHANGED canceled
    PROVE  CancelInv'
  <1> DEFINE c == Gone(call[r][k])
             m == Released(r)
  <1>1. call[r][k] \in CallType /\ control[r] \in [refs : Nat, on : SUBSET Calls]
    BY DEF CancelInv
  <1>2. c \in CallType /\ c.at = "over"
    BY <1>1, GoneCall
  <1>3. call' = [call EXCEPT ![r][k] = c] /\ control' = [control EXCEPT ![r] = m]
    BY DEF Over
  <1>4. /\ call'[r][k] = c
        /\ \A j \in Calls : j # k => call'[r][j] = call[r][j]
    BY <1>3 DEF CancelInv
  <1>5. LiveCalls(r)' = LiveCalls(r) \ {k} /\ k \in LiveCalls(r)
    <2>1. \A j \in Calls : Live(r, j)' <=> (j # k /\ Live(r, j))
      BY <1>2, <1>4 DEF Live
    <2> QED
      BY <2>1 DEF LiveCalls
  <1>6. Cardinality(LiveCalls(r) \ {k}) = Cardinality(LiveCalls(r)) - 1
    BY <1>5, FinitelyMany, FS_RemoveElement
  <1>7. Cardinality(LiveCalls(r)) \in Nat /\ Cardinality(LiveCalls(r) \ {k}) \in Nat
    BY FinitelyMany, FS_CardinalityType, FS_RemoveElement
  <1>8. control[r].refs = Cardinality(LiveCalls(r)) /\ LiveCalls(r) \subseteq control[r].on
    BY DEF CancelInv, ControlInv
  <1>9. /\ m \in [refs : Nat, on : SUBSET Calls]
        /\ LiveCalls(r)' \subseteq m.on
        /\ m.refs = Cardinality(LiveCalls(r)')
    <2>1. CASE control[r].refs <= 1
      <3>1. Cardinality(LiveCalls(r) \ {k}) = 0
        BY <2>1, <1>6, <1>7, <1>8
      <3>2. LiveCalls(r) \ {k} = {}
        BY <3>1, FinitelyMany, FS_RemoveElement, FS_EmptySet
      <3>3. m = [refs |-> 0, on |-> {}]
        BY <2>1 DEF Released, NoControl
      <3> HIDE DEF m
      <3> QED
        BY <3>1, <3>2, <3>3, <1>5
    <2>2. CASE ~(control[r].refs <= 1)
      <3>1. m = [control[r] EXCEPT !.refs = @ - 1]
        BY <2>2 DEF Released
      <3>2. control[r].refs \in Nat /\ control[r].refs - 1 \in Nat
        BY <2>2, <1>1
      <3>3. m \in [refs : Nat, on : SUBSET Calls] /\ m.on = control[r].on
            /\ m.refs = control[r].refs - 1
        BY <3>1, <3>2, <1>1
      <3> HIDE DEF m
      <3> QED
        BY <3>3, <1>5, <1>6, <1>8
    <2> QED
      BY <2>1, <2>2
  <1>10. c.at \notin {"begun", "reserved", "upstream"}
    BY <1>2
  <1> HIDE DEF c, m
  <1> QED
    BY <1>2, <1>3, <1>9, <1>10, OneControl

\* A call that begins joins the controller of its request.
LEMMA BeginJoins ==
    ASSUME CancelInv, NEW r \in Request, NEW k \in Calls, Begin(r, k)
    PROVE  CancelInv'
  <1>1. call[r][k] \in CallType /\ control[r] \in [refs : Nat, on : SUBSET Calls]
    BY DEF CancelInv
  <1>2. ~Live(r, k)
    BY DEF Begin, Live
  <1>3. CASE r \in canceled
    <2> DEFINE c == [call[r][k] EXCEPT !.at = "over"]
    <2>1. c \in CallType /\ c.at = "over"
      BY <1>1 DEF CallType
    <2>2. call' = [call EXCEPT ![r][k] = c] /\ UNCHANGED <<control, canceled>>
      BY <1>3 DEF Begin
    <2>3. call'[r][k] = c
      BY <2>2 DEF CancelInv
    <2>4. ~Live(r, k)'
      BY <2>1, <2>3 DEF Live
    <2>5. c.at \notin {"begun", "reserved", "upstream"}
      BY <2>1
    <2> HIDE DEF c
    <2> QED
      BY <1>2, <2>1, <2>2, <2>4, <2>5, StaysOn
  <1>4. CASE r \notin canceled
    <2> DEFINE c == [call[r][k] EXCEPT !.at = "begun"]
               m == Joined(r, k)
    <2>1. c \in CallType /\ c.at = "begun"
      BY <1>1 DEF CallType
    <2>2. call' = [call EXCEPT ![r][k] = c] /\ control' = [control EXCEPT ![r] = m]
          /\ UNCHANGED canceled
      BY <1>4 DEF Begin
    <2>3. /\ call'[r][k] = c
          /\ \A j \in Calls : j # k => call'[r][j] = call[r][j]
      BY <2>2 DEF CancelInv
    <2>4. LiveCalls(r)' = LiveCalls(r) \union {k} /\ k \notin LiveCalls(r)
      <3>1. \A j \in Calls : Live(r, j)' <=> (j = k \/ Live(r, j))
        BY <2>1, <2>3 DEF Live
      <3> QED
        BY <3>1, <1>2 DEF LiveCalls
    <2>5. Cardinality(LiveCalls(r) \union {k}) = Cardinality(LiveCalls(r)) + 1
      BY <2>4, FinitelyMany, FS_AddElement
    <2>6. control[r].refs = Cardinality(LiveCalls(r)) /\ LiveCalls(r) \subseteq control[r].on
      BY DEF CancelInv, ControlInv
    <2>7. /\ m \in [refs : Nat, on : SUBSET Calls]
          /\ m.refs = control[r].refs + 1
          /\ m.on = control[r].on \union {k}
      BY <1>1 DEF Joined
    <2> HIDE DEF c, m
    <2>8. LiveCalls(r)' \subseteq m.on /\ m.refs = Cardinality(LiveCalls(r)')
      BY <2>4, <2>5, <2>6, <2>7
    <2> QED
      BY <1>4, <2>1, <2>2, <2>7, <2>8, OneControl
  <1> QED
    BY <1>3, <1>4

\* A live call that moves on and stays live, with its signal.
LEMMA MovesOn ==
    ASSUME CancelInv, NEW r \in Request, NEW k \in Calls, NEW c \in CallType,
           call' = [call EXCEPT ![r][k] = c], UNCHANGED <<control, canceled>>,
           Live(r, k), c.aborted = call[r][k].aborted,
           c.at \in {"reserved", "upstream", "settled", "body"},
           c.at \in {"reserved", "upstream"} =>
               call[r][k].at \in {"begun", "reserved", "upstream"}
    PROVE  CancelInv'
  <1>1. call'[r][k] = c
    BY DEF CancelInv
  <1>2. Live(r, k)'
    BY <1>1 DEF Live
  <1>3. c.at \in {"begun", "reserved", "upstream"} => c.aborted \/ r \notin canceled
    BY DEF CancelInv, ControlInv
  <1> QED
    BY <1>2, <1>3, StaysOn

\* The steps of a call keep its request's controller.
LEMMA ControlStep ==
    ASSUME CancelInv, NEW r \in Request, NEW k \in Calls,
           \/ Begin(r, k) \/ Refused(r, k) \/ ReserveKnown(r, k)
           \/ ReserveRefused(r, k) \/ Reserve(r, k) \/ TierAccepts(r, k)
           \/ TierRefuses(r, k) \/ FirstByte(r, k) \/ Succeeds(r, k) \/ Fails(r, k)
           \/ Aborts(r, k) \/ Releases(r, k) \/ BodyRead(r, k)
    PROVE  CancelInv'
  <1>0. call[r][k] \in CallType
    BY DEF CancelInv
  <1>a. ASSUME Over(r, k), UNCHANGED canceled,
               call[r][k].at \in {"begun", "reserved", "settled", "body"}
        PROVE  CancelInv'
    BY <1>a, OverReleases DEF Live
  <1>c. ASSUME Returned(r, k), UNCHANGED canceled, Live(r, k)
        PROVE  CancelInv'
    <2> DEFINE c == [call[r][k] EXCEPT !.at = "body"]
    <2>1. c \in CallType /\ c.at = "body" /\ c.aborted = call[r][k].aborted
      BY <1>0 DEF CallType
    <2>2. call' = [call EXCEPT ![r][k] = c] /\ UNCHANGED <<control, canceled>>
      BY <1>c DEF Returned
    <2> HIDE DEF c
    <2> QED
      BY <1>c, <2>1, <2>2, MovesOn
  <1>b. ASSUME NEW outcome \in Outcomes, NEW charge \in {0, Estimate} \union Charges,
               NEW keep \in BOOLEAN, Finish(r, k, outcome, charge, keep)
        PROVE  CancelInv'
    <2> DEFINE c == [call[r][k] EXCEPT !.at = "settled", !.outcome = outcome,
                                       !.charged = charge, !.kept = keep]
    <2>1. c \in CallType /\ c.at = "settled" /\ c.aborted = call[r][k].aborted
      BY <1>0 DEF CallType
    <2>2. call' = [call EXCEPT ![r][k] = c] /\ UNCHANGED <<control, canceled>>
      BY <1>b DEF Finish
    <2>3. Live(r, k)
      BY <1>b DEF Finish, Live
    <2> HIDE DEF c
    <2> QED
      BY <2>1, <2>2, <2>3, MovesOn
  <1>1. CASE Begin(r, k)
    BY <1>1, BeginJoins
  <1>2. CASE Refused(r, k)
    BY <1>2, <1>a DEF Refused
  <1>3. CASE ReserveKnown(r, k)
    BY <1>3, <1>a, <1>c DEF ReserveKnown, Live
  <1>4. CASE ReserveRefused(r, k)
    BY <1>4, <1>a DEF ReserveRefused
  <1>5. CASE Reserve(r, k)
    <2> DEFINE c == [call[r][k] EXCEPT !.at = "reserved", !.mine = r \notin InFlight]
    <2>1. c \in CallType /\ c.at = "reserved" /\ c.aborted = call[r][k].aborted
      BY <1>0 DEF CallType
    <2>2. call' = [call EXCEPT ![r][k] = c] /\ UNCHANGED <<control, canceled>>
      BY <1>5 DEF Reserve
    <2>3. Live(r, k) /\ call[r][k].at = "begun"
      BY <1>5 DEF Reserve, Live
    <2> HIDE DEF c
    <2> QED
      BY <2>1, <2>2, <2>3, MovesOn
  <1>6. CASE TierAccepts(r, k)
    <2> DEFINE c == [call[r][k] EXCEPT !.at = "upstream"]
    <2>1. c \in CallType /\ c.at = "upstream" /\ c.aborted = call[r][k].aborted
      BY <1>0 DEF CallType
    <2>2. call' = [call EXCEPT ![r][k] = c] /\ UNCHANGED <<control, canceled>>
      BY <1>6 DEF TierAccepts
    <2>3. Live(r, k) /\ call[r][k].at = "reserved"
      BY <1>6 DEF TierAccepts, Live
    <2> HIDE DEF c
    <2> QED
      BY <2>1, <2>2, <2>3, MovesOn
  <1>7. CASE TierRefuses(r, k)
    BY <1>7, <1>a DEF TierRefuses
  <1>8. CASE FirstByte(r, k)
    <2> DEFINE c == [call[r][k] EXCEPT !.byte = TRUE]
    <2>1. c \in CallType /\ c.at = call[r][k].at /\ c.aborted = call[r][k].aborted
      BY <1>0 DEF CallType
    <2>2. call' = [call EXCEPT ![r][k] = c] /\ UNCHANGED <<control, canceled>>
      BY <1>8 DEF FirstByte
    <2>3. Live(r, k) /\ call[r][k].at = "upstream"
      BY <1>8 DEF FirstByte, Live
    <2> HIDE DEF c
    <2> QED
      BY <2>1, <2>2, <2>3, MovesOn
  <1>9. CASE Succeeds(r, k)
    BY <1>9, <1>b DEF Succeeds, Outcomes
  <1>10. CASE Fails(r, k)
    BY <1>10, <1>b DEF Fails, Outcomes
  <1>11. CASE Aborts(r, k)
    BY <1>11, <1>b DEF Aborts, Outcomes
  <1>12. CASE Releases(r, k)
    BY <1>12, <1>a, <1>c DEF Releases, Live
  <1>13. CASE BodyRead(r, k)
    BY <1>13, <1>a DEF BodyRead
  <1> QED
    BY <1>1, <1>2, <1>3, <1>4, <1>5, <1>6, <1>7, <1>8, <1>9, <1>10, <1>11, <1>12, <1>13

\* A cancellation aborts the calls on the controller, and they are all there.
LEMMA CancelAborts ==
    ASSUME CancelInv, NEW r \in Request, Cancel(r)
    PROVE  CancelInv'
  <1>0. \A k \in Calls : call[r][k] \in CallType
    BY DEF CancelInv
  <1>1. \A k \in Calls : [call[r][k] EXCEPT !.aborted = TRUE] \in CallType
    BY <1>0, AbortedCall
  <1>2. /\ call' \in [Request -> [Calls -> CallType]]
        /\ \A k \in Calls : call'[r][k] = IF k \in control[r].on
                                          THEN [call[r][k] EXCEPT !.aborted = TRUE]
                                          ELSE call[r][k]
        /\ \A s \in Request : s # r => call'[s] = call[s]
    BY <1>1 DEF Cancel, CancelInv
  <1>3. \A k \in Calls : /\ call'[r][k].at = call[r][k].at
                         /\ k \in control[r].on => call'[r][k].aborted
    <2> SUFFICES ASSUME NEW k \in Calls
                 PROVE  /\ call'[r][k].at = call[r][k].at
                        /\ k \in control[r].on => call'[r][k].aborted
      OBVIOUS
    <2>1. [call[r][k] EXCEPT !.aborted = TRUE].aborted
      BY <1>0 DEF CallType
    <2> QED
      BY <1>0, <1>2, <2>1, AbortedCall
  <1>4. LiveCalls(r)' = LiveCalls(r)
    BY <1>3 DEF LiveCalls, Live
  <1>5. UNCHANGED control /\ canceled' = canceled \union {r}
    BY DEF Cancel
  <1>6. ControlInv(r)'
    <2>1. LiveCalls(r) \subseteq control[r].on /\ control[r].refs = Cardinality(LiveCalls(r))
      BY DEF CancelInv, ControlInv
    <2>2. \A k \in Calls : call'[r][k].at \in {"begun", "reserved", "upstream"} =>
                               k \in LiveCalls(r)
      BY <1>3 DEF LiveCalls, Live
    <2> QED
      BY <1>3, <1>4, <1>5, <2>1, <2>2 DEF ControlInv
  <1>7. \A s \in Request : ControlInv(s)'
    <2> SUFFICES ASSUME NEW s \in Request, s # r PROVE ControlInv(s)'
      BY <1>6
    <2> QED
      BY <1>2, <1>5, SameControl DEF CancelInv
  <1> QED
    BY <1>2, <1>5, <1>7 DEF CancelInv

\* An eviction leaves neither calls nor controllers.
LEMMA EvictClears ==
    ASSUME CancelInv, Evict
    PROVE  CancelInv'
  <1>1. \A r \in Request : \A k \in Calls : call[r][k] \in CallType
    BY DEF CancelInv
  <1>2. \A r \in Request : \A k \in Calls :
            /\ call'[r][k] \in CallType
            /\ ~Live(r, k)'
    <2> SUFFICES ASSUME NEW r \in Request, NEW k \in Calls
                 PROVE  call'[r][k] \in CallType /\ ~Live(r, k)'
      OBVIOUS
    <2>1. call'[r][k] = IF Live(r, k) THEN Gone(call[r][k]) ELSE call[r][k]
      BY DEF Evict
    <2>2. CASE Live(r, k)
      BY <1>1, <2>1, <2>2, GoneCall DEF Live
    <2>3. CASE ~Live(r, k)
      BY <1>1, <2>1, <2>3 DEF Live
    <2> QED
      BY <2>2, <2>3
  <1>3. call' \in [Request -> [Calls -> CallType]]
    BY <1>2 DEF Evict
  <1>4. control' \in [Request -> [refs : Nat, on : SUBSET Calls]]
        /\ \A r \in Request : control'[r] = [refs |-> 0, on |-> {}]
    BY DEF Evict, NoControl
  <1>5. \A r \in Request : LiveCalls(r)' = {}
    BY <1>2 DEF LiveCalls
  <1>6. \A r \in Request : ControlInv(r)'
    <2> SUFFICES ASSUME NEW r \in Request PROVE ControlInv(r)'
      OBVIOUS
    <2>1. \A k \in Calls : call'[r][k].at \notin {"begun", "reserved", "upstream"}
      BY <1>2 DEF Live
    <2>2. control'[r].refs = 0
      BY <1>4
    <2>3. LiveCalls(r)' = {} /\ Cardinality({}) = 0
      BY <1>5, FS_EmptySet
    <2>4. Cardinality(LiveCalls(r)') = 0 /\ LiveCalls(r)' \subseteq control'[r].on
      BY <2>3
    <2> QED
      BY <2>1, <2>2, <2>4 DEF ControlInv
  <1>7. UNCHANGED canceled
    BY DEF Evict
  <1> QED
    BY <1>3, <1>4, <1>6, <1>7 DEF CancelInv

\* The inductive step.
LEMMA CancelStep == CancelInv /\ [Next]_vars => CancelInv'
  <1> SUFFICES ASSUME CancelInv, [Next]_vars PROVE CancelInv'
    OBVIOUS
  <1>1. CASE UNCHANGED <<call, control, canceled>>
    BY <1>1, SameControl DEF CancelInv
  <1>2. ASSUME NEW r \in Request, RowAges(r) \/ AdmissionAges(r)
        PROVE  UNCHANGED <<call, control, canceled>>
    BY <1>2 DEF RowAges, AdmissionAges
  <1>3. ASSUME NEW e \in queue, IngestUsage(e) PROVE UNCHANGED <<call, control, canceled>>
    BY <1>3 DEF IngestUsage
  <1>4. CASE UNCHANGED vars
    BY <1>1, <1>4 DEF vars
  <1> QED
    BY <1>1, <1>2, <1>3, <1>4, ControlStep, CancelAborts, EvictClears DEF Next

LEMMA InitControls == Init => CancelInv
  <1> SUFFICES ASSUME Init PROVE CancelInv
    OBVIOUS
  <1>1. call \in [Request -> [Calls -> CallType]]
    BY DEF Init, NoCall, CallType, Outcomes
  <1>2. control \in [Request -> [refs : Nat, on : SUBSET Calls]]
        /\ \A r \in Request : control[r].refs = 0
    BY DEF Init, NoControl
  <1>3. \A r \in Request : LiveCalls(r) = {}
    BY DEF Init, LiveCalls, Live, NoCall
  <1>4. canceled = {}
    BY DEF Init
  <1> QED
    BY <1>1, <1>2, <1>3, <1>4, FS_EmptySet DEF CancelInv, ControlInv

\* A recorded cancellation is known to every call of its request that has not
\* settled, however many presentations of the id came and went.
THEOREM CancelIsKnown == Spec => []CancelReachesCall
  <1>1. CancelInv => CancelReachesCall
    BY DEF CancelInv, ControlInv, CancelReachesCall
  <1> QED
    BY <1>1, InitControls, CancelStep, PTL DEF Spec

-----------------------------------------------------------------------------
(* Billing.                                                                *)

\* A call that has finished and whose usage is final.
Finished(r, k) ==
    /\ call[r][k].at \in {"settled", "body", "over"}
    /\ call[r][k].outcome \in {"succeeded", "failed", "aborted"}

\* The call a request was billed for.
BilledFor(r, k) ==
    /\ Finished(r, k)
    /\ call[r][k].outcome # "failed"
    /\ billed[r] = call[r][k].charged

\* Events on the queue are of finished calls; a request without a receipt has
\* not been billed, and one that was, for a finished call.
BillInv ==
    /\ call \in [Request -> [Calls -> CallType]]
    /\ billed \in [Request -> Nat]
    /\ queue \subseteq [req : Request, call : Calls]
    /\ \A e \in queue : Finished(e.req, e.call)
    /\ \A r \in Request : billed[r] # 0 => r \in receipt /\ \E k \in Calls : BilledFor(r, k)

\* A finished call stays as it ended.
Unmoved ==
    /\ call' \in [Request -> [Calls -> CallType]]
    /\ \A r \in Request : \A k \in Calls : Finished(r, k) =>
           /\ Finished(r, k)'
           /\ call'[r][k].outcome = call[r][k].outcome
           /\ call'[r][k].charged = call[r][k].charged

\* Steps that bill nothing and report at most a finished call.
LEMMA BillsNothing ==
    ASSUME BillInv, Unmoved, UNCHANGED <<receipt, billed>>,
           \/ UNCHANGED queue
           \/ \E r \in Request, k \in Calls :
                  queue' = queue \union {[req |-> r, call |-> k]} /\ Finished(r, k)'
    PROVE  BillInv'
  <1>1. queue' \subseteq [req : Request, call : Calls] /\ \A e \in queue' : Finished(e.req, e.call)'
    <2>1. \A e \in queue : e.req \in Request /\ e.call \in Calls
      BY DEF BillInv
    <2>2. \A e \in queue : Finished(e.req, e.call)'
      BY <2>1 DEF BillInv, Unmoved
    <2>3. CASE UNCHANGED queue
      BY <2>2, <2>3 DEF BillInv
    <2>4. ASSUME NEW r \in Request, NEW k \in Calls,
                 queue' = queue \union {[req |-> r, call |-> k]}, Finished(r, k)'
          PROVE  /\ queue' \subseteq [req : Request, call : Calls]
                 /\ \A e \in queue' : Finished(e.req, e.call)'
      BY <2>2, <2>4 DEF BillInv
    <2> QED
      BY <2>3, <2>4
  <1>2. \A r \in Request : \A k \in Calls : BilledFor(r, k) => BilledFor(r, k)'
    BY DEF BilledFor, Unmoved
  <1> QED
    BY <1>1, <1>2 DEF BillInv, Unmoved

\* A charge is a number.
LEMMA ChargeIsNat ==
    ASSUME NEW c \in CallType
    PROVE  c.charged \in Nat
  <1>1. c.charged \in {0, Estimate} \union Charges
    BY DEF CallType
  <1>2. Charges \subseteq Nat
    BY GatewayAssumption
  <1>3. {0, Estimate} \subseteq Nat
    BY DEF Estimate
  <1> QED
    BY <1>1, <1>2, <1>3

\* An event bills its call, unless the request has its receipt or it failed.
LEMMA IngestBills ==
    ASSUME BillInv, NEW e \in queue, IngestUsage(e)
    PROVE  BillInv'
  <1>1. e.req \in Request /\ e.call \in Calls /\ Finished(e.req, e.call)
    BY DEF BillInv
  <1>2. UNCHANGED call /\ queue' \subseteq queue /\ receipt' = receipt \union {e.req}
    BY DEF IngestUsage
  <1> DEFINE more == IF ClaimReceipt(e.req) /\ call[e.req][e.call].outcome # "failed"
                     THEN call[e.req][e.call].charged ELSE 0
  <1>3. call[e.req][e.call].charged \in Nat
    BY <1>1, ChargeIsNat DEF BillInv
  <1>4. billed' = [billed EXCEPT ![e.req] = billed[e.req] + more] /\ more \in Nat
    BY <1>3 DEF IngestUsage
  <1>5. /\ billed' \in [Request -> Nat]
        /\ billed'[e.req] = billed[e.req] + more
        /\ \A r \in Request : r # e.req => billed'[r] = billed[r]
    BY <1>1, <1>4 DEF BillInv
  <1>6. \A f \in queue' : Finished(f.req, f.call)'
    BY <1>2 DEF BillInv, Finished
  <1>7. ASSUME NEW r \in Request, billed'[r] # 0
        PROVE  r \in receipt' /\ \E k \in Calls : BilledFor(r, k)'
    <2>1. CASE billed'[r] = billed[r]
      BY <1>2, <1>7, <2>1 DEF BillInv, BilledFor, Finished
    <2>2. CASE billed'[r] # billed[r]
      <3>1. r = e.req /\ more # 0
        BY <1>5, <2>2 DEF BillInv
      <3>2. ClaimReceipt(e.req) /\ call[e.req][e.call].outcome # "failed"
            /\ more = call[e.req][e.call].charged
        BY <3>1
      <3>3. billed[e.req] = 0
        BY <1>1, <3>2 DEF ClaimReceipt, BillInv
      <3>4. billed'[e.req] = call[e.req][e.call].charged
        BY <1>3, <1>5, <3>2, <3>3
      <3>5. BilledFor(e.req, e.call)'
        BY <1>1, <1>2, <3>2, <3>4 DEF BilledFor, Finished
      <3> QED
        BY <1>1, <1>2, <3>1, <3>5
    <2> QED
      BY <2>1, <2>2
  <1> QED
    BY <1>2, <1>5, <1>6, <1>7 DEF BillInv

\* A call that has not finished may move; one that has may only end.
LEMMA CallMoves ==
    ASSUME BillInv, NEW r \in Request, NEW k \in Calls, NEW c \in CallType,
           call' = [call EXCEPT ![r][k] = c],
           Finished(r, k) => /\ c.at \in {"settled", "body", "over"}
                             /\ c.outcome = call[r][k].outcome
                             /\ c.charged = call[r][k].charged
    PROVE  Unmoved
  <1>1. /\ call' \in [Request -> [Calls -> CallType]]
        /\ call'[r][k] = c
        /\ \A j \in Calls : j # k => call'[r][j] = call[r][j]
        /\ \A s \in Request : s # r => call'[s] = call[s]
    BY DEF BillInv
  <1>2. ASSUME NEW s \in Request, NEW j \in Calls, Finished(s, j)
        PROVE  /\ Finished(s, j)'
               /\ call'[s][j].outcome = call[s][j].outcome
               /\ call'[s][j].charged = call[s][j].charged
    <2>1. CASE s = r /\ j = k
      BY <1>1, <1>2, <2>1 DEF Finished
    <2>2. CASE ~(s = r /\ j = k)
      <3>1. call'[s][j] = call[s][j]
        BY <1>1, <2>2
      <3> QED
        BY <1>2, <3>1 DEF Finished
    <2> QED
      BY <2>1, <2>2
  <1> QED
    BY <1>1, <1>2 DEF Unmoved

\* Ending a call leaves its outcome and its charge.
LEMMA EndKeepsUsage ==
    ASSUME NEW c \in CallType
    PROVE  Gone(c).outcome = c.outcome /\ Gone(c).charged = c.charged
  BY DEF Gone, CallType

LEMMA OverUnmoved ==
    ASSUME BillInv, NEW r \in Request, NEW k \in Calls, Over(r, k)
    PROVE  Unmoved
  <1> DEFINE c == Gone(call[r][k])
  <1>1. call[r][k] \in CallType
    BY DEF BillInv
  <1>2. c \in CallType /\ c.at = "over" /\ c.outcome = call[r][k].outcome
        /\ c.charged = call[r][k].charged
    BY <1>1, GoneCall, EndKeepsUsage
  <1>3. call' = [call EXCEPT ![r][k] = c]
    BY DEF Over
  <1> HIDE DEF c
  <1> QED
    BY <1>2, <1>3, CallMoves

\* A call's place changes and nothing else of it.
LEMMA PlaceUnmoved ==
    ASSUME BillInv, NEW r \in Request, NEW k \in Calls,
           NEW v \in {"begun", "upstream", "body", "over"},
           call' = [call EXCEPT ![r][k].at = v],
           v \in {"begun", "upstream"} => ~Finished(r, k)
    PROVE  Unmoved
  <1> DEFINE c == [call[r][k] EXCEPT !.at = v]
  <1>1. call[r][k] \in CallType
    BY DEF BillInv
  <1>2. c \in CallType /\ c.at = v /\ c.outcome = call[r][k].outcome
        /\ c.charged = call[r][k].charged
    BY <1>1 DEF CallType
  <1>3. call' = [call EXCEPT ![r][k] = c]
    OBVIOUS
  <1>4. Finished(r, k) => /\ c.at \in {"settled", "body", "over"}
                          /\ c.outcome = call[r][k].outcome
                          /\ c.charged = call[r][k].charged
    BY <1>2
  <1>5. c \in CallType
    BY <1>2
  <1> HIDE DEF c
  <1> QED
    BY ONLY BillInv, r \in Request, k \in Calls, <1>3, <1>4, <1>5, CallMoves

\* finish reports the call it ends.
LEMMA FinishReports ==
    ASSUME BillInv, NEW r \in Request, NEW k \in Calls,
           NEW outcome \in {"succeeded", "failed", "aborted"},
           NEW charge \in {0, Estimate} \union Charges, NEW keep \in BOOLEAN,
           Finish(r, k, outcome, charge, keep)
    PROVE  BillInv'
  <1> DEFINE c == [call[r][k] EXCEPT !.at = "settled", !.outcome = outcome,
                                     !.charged = charge, !.kept = keep]
  <1>1. call[r][k] \in CallType
    BY DEF BillInv
  <1>2. c \in CallType /\ c.at = "settled" /\ c.outcome = outcome
    BY <1>1 DEF CallType, Outcomes
  <1>3. call' = [call EXCEPT ![r][k] = c] /\ ~Finished(r, k)
    BY DEF Finish, Finished
  <1> HIDE DEF c
  <1>4. Unmoved
    BY <1>2, <1>3, CallMoves
  <1>5. call'[r][k] = c
    BY <1>3 DEF BillInv
  <1>6. Finished(r, k)'
    BY <1>2, <1>5 DEF Finished
  <1>7. /\ UNCHANGED <<receipt, billed>>
        /\ UNCHANGED queue \/ queue' = queue \union {[req |-> r, call |-> k]}
    BY DEF Finish
  <1> QED
    BY <1>4, <1>6, <1>7, BillsNothing

\* The inductive step.
LEMMA BillStep == BillInv /\ [Next]_vars => BillInv'
  <1> SUFFICES ASSUME BillInv, [Next]_vars PROVE BillInv'
    OBVIOUS
  <1>0. ASSUME Unmoved, UNCHANGED money PROVE BillInv'
    BY <1>0, BillsNothing DEF money
  <1>1. CASE UNCHANGED <<call, money>>
    <2>1. Unmoved
      BY <1>1 DEF Unmoved, BillInv, Finished
    <2> QED
      BY <1>0, <1>1, <2>1
  <1>2. ASSUME NEW r \in Request, NEW k \in Calls,
               \/ Begin(r, k) \/ Refused(r, k) \/ ReserveKnown(r, k)
               \/ ReserveRefused(r, k) \/ Reserve(r, k) \/ TierAccepts(r, k)
               \/ TierRefuses(r, k) \/ FirstByte(r, k) \/ Releases(r, k)
               \/ BodyRead(r, k)
        PROVE  BillInv'
    <2>0. call[r][k] \in CallType
      BY DEF BillInv
    <2>1. CASE Begin(r, k)
      <3>1. ~Finished(r, k)
        BY <2>1 DEF Begin, Finished
      <3> QED
        BY <1>0, <2>1, <3>1, PlaceUnmoved DEF Begin
    <2>2. CASE Over(r, k) /\ UNCHANGED money
      BY <1>0, <2>2, OverUnmoved
    <2>3. CASE Reserve(r, k)
      <3> DEFINE c == [call[r][k] EXCEPT !.at = "reserved", !.mine = r \notin InFlight]
      <3>1. c \in CallType
        BY <2>0 DEF CallType
      <3>2. call' = [call EXCEPT ![r][k] = c] /\ ~Finished(r, k) /\ UNCHANGED money
        BY <2>3 DEF Reserve, Finished
      <3> HIDE DEF c
      <3> QED
        BY <1>0, <3>1, <3>2, CallMoves
    <2>4. CASE TierAccepts(r, k)
      <3>1. ~Finished(r, k)
        BY <2>4 DEF TierAccepts, Finished
      <3> QED
        BY <1>0, <2>4, <3>1, PlaceUnmoved DEF TierAccepts
    <2>5. CASE FirstByte(r, k)
      <3> DEFINE c == [call[r][k] EXCEPT !.byte = TRUE]
      <3>1. c \in CallType
        BY <2>0 DEF CallType
      <3>2. call' = [call EXCEPT ![r][k] = c] /\ ~Finished(r, k) /\ UNCHANGED money
        BY <2>5 DEF FirstByte, Finished
      <3> HIDE DEF c
      <3> QED
        BY <1>0, <3>1, <3>2, CallMoves
    <2>6. CASE Returned(r, k) /\ UNCHANGED money
      BY <1>0, <2>6, PlaceUnmoved DEF Returned
    <2> QED
      BY <1>2, <2>1, <2>2, <2>3, <2>4, <2>5, <2>6
         DEF Refused, ReserveKnown, ReserveRefused, TierRefuses, Releases, BodyRead
  <1>3. ASSUME NEW r \in Request, NEW k \in Calls,
               Succeeds(r, k) \/ Fails(r, k) \/ Aborts(r, k)
        PROVE  BillInv'
    BY <1>3, FinishReports DEF Succeeds, Fails, Aborts
  <1>4. ASSUME NEW r \in Request, Cancel(r) PROVE BillInv'
    <2>0. \A s \in Request : \A k \in Calls : call[s][k] \in CallType
      BY DEF BillInv
    <2>1. \A k \in Calls : /\ [call[r][k] EXCEPT !.aborted = TRUE] \in CallType
                           /\ [call[r][k] EXCEPT !.aborted = TRUE].at = call[r][k].at
                           /\ [call[r][k] EXCEPT !.aborted = TRUE].outcome = call[r][k].outcome
                           /\ [call[r][k] EXCEPT !.aborted = TRUE].charged = call[r][k].charged
      <3> SUFFICES ASSUME NEW c \in CallType
                   PROVE  /\ [c EXCEPT !.aborted = TRUE] \in CallType
                          /\ [c EXCEPT !.aborted = TRUE].at = c.at
                          /\ [c EXCEPT !.aborted = TRUE].outcome = c.outcome
                          /\ [c EXCEPT !.aborted = TRUE].charged = c.charged
        BY <2>0
      <3> QED
        BY DEF CallType
    <2>2. /\ call' \in [Request -> [Calls -> CallType]]
          /\ \A k \in Calls : call'[r][k] \in {call[r][k], [call[r][k] EXCEPT !.aborted = TRUE]}
          /\ \A s \in Request : s # r => call'[s] = call[s]
      BY <1>4, <2>1 DEF Cancel, BillInv
    <2>3. \A s \in Request : \A k \in Calls :
              /\ call'[s][k].at = call[s][k].at
              /\ call'[s][k].outcome = call[s][k].outcome
              /\ call'[s][k].charged = call[s][k].charged
      <3> TAKE s \in Request
      <3>1. CASE s = r
        BY <3>1, <2>1, <2>2
      <3>2. CASE s # r
        <4>1. call'[s] = call[s]
          BY <2>2, <3>2
        <4> QED
          BY <4>1
      <3> QED
        BY <3>1, <3>2
    <2>4. Unmoved
      BY <2>2, <2>3 DEF Unmoved, Finished
    <2> QED
      BY <1>0, <1>4, <2>4 DEF Cancel
  <1>5. CASE Evict
    <2>0. \A r \in Request : \A k \in Calls : call[r][k] \in CallType
      BY DEF BillInv
    <2>1. \A r \in Request : \A k \in Calls : call'[r][k] \in {call[r][k], Gone(call[r][k])}
      BY <1>5 DEF Evict
    <2>2. \A r \in Request : \A k \in Calls :
              /\ call'[r][k] \in CallType
              /\ call'[r][k].at \in {call[r][k].at, "over"}
              /\ call'[r][k].outcome = call[r][k].outcome
              /\ call'[r][k].charged = call[r][k].charged
      BY <2>0, <2>1, GoneCall, EndKeepsUsage
    <2>3. call' \in [Request -> [Calls -> CallType]]
      BY <1>5, <2>2 DEF Evict
    <2>4. Unmoved
      BY <2>2, <2>3 DEF Unmoved, Finished
    <2> QED
      BY <1>0, <1>5, <2>4 DEF Evict
  <1>6. ASSUME NEW r \in Request, RowAges(r) \/ AdmissionAges(r)
        PROVE  UNCHANGED <<call, money>>
    BY <1>6 DEF RowAges, AdmissionAges
  <1>7. CASE UNCHANGED vars
    BY <1>1, <1>7 DEF vars, money
  <1> QED
    BY <1>1, <1>2, <1>3, <1>4, <1>5, <1>6, <1>7, IngestBills DEF Next

\* A request is billed for at most one of its calls, and never for one that
\* failed, whatever is delivered twice, late or out of order.
THEOREM BilledOnce == Spec => []BilledForOneCall
  <1>1. Init => BillInv
    BY DEF Init, BillInv, NoCall, CallType, Outcomes
  <1>2. BillInv => BilledForOneCall
    BY DEF BillInv, BilledFor, Finished, BilledForOneCall
  <1> QED
    BY <1>1, <1>2, BillStep, PTL DEF Spec

-----------------------------------------------------------------------------
(***************************************************************************)
(* Admissions.                                                             *)
(***************************************************************************)

Held(r) == admitted[r] # "none" => \E k \in Calls : Holding(r, k)

\* While the object has stayed up every admission has its maker.
AdmitInv ==
    /\ call \in [Request -> [Calls -> CallType]]
    /\ admitted \in [Request -> {"none", "fresh", "old"}]
    /\ evictions \in Nat
    /\ evictions = 0 => \A r \in Request : Held(r)

\* One call moves and admissions are only given up: it is enough that the
\* call keeps the admission it holds, or that the request has none.
LEMMA KeepsHold ==
    ASSUME AdmitInv, NEW r \in Request, NEW k \in Calls, NEW c \in CallType,
           call' = [call EXCEPT ![r][k] = c], UNCHANGED evictions,
           admitted' \in [Request -> {"none", "fresh", "old"}],
           \A s \in Request : admitted'[s] # "none" => admitted[s] # "none",
           \/ admitted'[r] = "none"
           \/ Holding(r, k) => c.at \in {"reserved", "upstream", "settled"} /\ c.mine
    PROVE  AdmitInv'
  <1>1. /\ call' \in [Request -> [Calls -> CallType]]
        /\ call'[r][k] = c
        /\ \A j \in Calls : j # k => call'[r][j] = call[r][j]
        /\ \A s \in Request : s # r => call'[s] = call[s]
    BY DEF AdmitInv
  <1>2. ASSUME NEW s \in Request, evictions = 0, admitted'[s] # "none"
        PROVE  \E j \in Calls : Holding(s, j)'
    <2>1. PICK j \in Calls : Holding(s, j)
      BY <1>2 DEF AdmitInv, Held
    <2>2. CASE s = r /\ j = k
      BY <1>1, <1>2, <2>1, <2>2 DEF Holding
    <2>3. CASE ~(s = r /\ j = k)
      <3>1. call'[s][j] = call[s][j]
        BY <1>1, <2>3
      <3> QED
        BY <2>1, <3>1 DEF Holding
    <2> QED
      BY <2>2, <2>3
  <1> QED
    BY <1>1, <1>2 DEF AdmitInv, Held

\* Dropping rows past the abandon age only gives admissions up.
LEMMA PrunedOnlyDrops ==
    ASSUME AdmitInv
    PROVE  /\ Pruned \in [Request -> {"none", "fresh", "old"}]
           /\ \A s \in Request : Pruned[s] # "none" => admitted[s] # "none"
  BY DEF AdmitInv, Pruned

\* A call that ends has no admission, or gives it back as it does.
LEMMA OverKeepsHold ==
    ASSUME AdmitInv, NEW r \in Request, NEW k \in Calls, Over(r, k), UNCHANGED evictions,
           admitted' \in [Request -> {"none", "fresh", "old"}],
           \A s \in Request : admitted'[s] # "none" => admitted[s] # "none",
           admitted'[r] = "none" \/ ~Holding(r, k)
    PROVE  AdmitInv'
  <1> DEFINE c == Gone(call[r][k])
  <1>1. call[r][k] \in CallType
    BY DEF AdmitInv
  <1>2. c \in CallType
    BY <1>1, GoneCall
  <1>3. call' = [call EXCEPT ![r][k] = c]
    BY DEF Over
  <1> HIDE DEF c
  <1> QED
    BY <1>2, <1>3, KeepsHold

\* The same for one that returns a response.
LEMMA ReturnKeepsHold ==
    ASSUME AdmitInv, NEW r \in Request, NEW k \in Calls, Returned(r, k), UNCHANGED evictions,
           admitted' \in [Request -> {"none", "fresh", "old"}],
           \A s \in Request : admitted'[s] # "none" => admitted[s] # "none",
           admitted'[r] = "none" \/ ~Holding(r, k)
    PROVE  AdmitInv'
  <1> DEFINE c == [call[r][k] EXCEPT !.at = "body"]
  <1>1. call[r][k] \in CallType
    BY DEF AdmitInv
  <1>2. c \in CallType
    BY <1>1 DEF CallType
  <1>3. call' = [call EXCEPT ![r][k] = c]
    BY DEF Returned
  <1> HIDE DEF c
  <1> QED
    BY <1>2, <1>3, KeepsHold

\* The maker of an admission gives it back, and nobody else does.
LEMMA ReleaseGivesBack ==
    ASSUME AdmitInv, NEW r \in Request, NEW k \in Calls, admitted' = ReleaseRelay(r, k)
    PROVE  /\ admitted' \in [Request -> {"none", "fresh", "old"}]
           /\ \A s \in Request : admitted'[s] # "none" => admitted[s] # "none"
           /\ admitted'[r] = "none" \/ ~Holding(r, k)
  BY DEF AdmitInv, ReleaseRelay, Holding

\* A call that reserves holds the admission it made; one it found has its
\* maker, another call.
LEMMA ReserveHolds ==
    ASSUME AdmitInv, NEW r \in Request, NEW k \in Calls, Reserve(r, k)
    PROVE  AdmitInv'
  <1> DEFINE c == [call[r][k] EXCEPT !.at = "reserved", !.mine = r \notin InFlight]
  <1>1. call[r][k] \in CallType /\ ~Holding(r, k)
    BY DEF AdmitInv, Reserve, Holding
  <1>2. c \in CallType /\ c.at = "reserved" /\ c.mine = (r \notin InFlight)
    BY <1>1 DEF CallType
  <1>3. call' = [call EXCEPT ![r][k] = c] /\ UNCHANGED evictions
    BY DEF Reserve
  <1>4. admitted' = [Pruned EXCEPT ![r] = IF r \in InFlight THEN Pruned[r] ELSE "fresh"]
    BY DEF Reserve
  <1> HIDE DEF c
  <1>5. admitted' \in [Request -> {"none", "fresh", "old"}]
    BY <1>4, PrunedOnlyDrops
  <1>6. CASE r \in InFlight
    <2>1. \A s \in Request : admitted'[s] # "none" => admitted[s] # "none"
      BY <1>4, <1>6, PrunedOnlyDrops
    <2> QED
      BY <1>1, <1>2, <1>3, <1>5, <2>1, KeepsHold
  <1>7. CASE r \notin InFlight
    <2>1. \A s \in Request : s # r => (admitted'[s] # "none" => admitted[s] # "none")
      BY <1>4, <1>7, PrunedOnlyDrops
    <2>2. /\ call' \in [Request -> [Calls -> CallType]]
          /\ call'[r][k] = c
          /\ \A s \in Request : s # r => call'[s] = call[s]
      BY <1>2, <1>3 DEF AdmitInv
    <2>3. Holding(r, k)'
      BY <1>2, <1>7, <2>2 DEF Holding
    <2>4. ASSUME NEW s \in Request, s # r, evictions = 0 PROVE Held(s)'
      BY <2>1, <2>2, <2>4 DEF AdmitInv, Held, Holding
    <2> QED
      BY <1>3, <1>5, <2>2, <2>3, <2>4 DEF AdmitInv, Held
  <1> QED
    BY <1>6, <1>7

\* finish leaves the admission with its call.
LEMMA FinishHolds ==
    ASSUME AdmitInv, NEW r \in Request, NEW k \in Calls,
           NEW outcome \in {"succeeded", "failed", "aborted"},
           NEW charge \in {0, Estimate} \union Charges, NEW keep \in BOOLEAN,
           Finish(r, k, outcome, charge, keep)
    PROVE  AdmitInv'
  <1> DEFINE c == [call[r][k] EXCEPT !.at = "settled", !.outcome = outcome,
                                     !.charged = charge, !.kept = keep]
  <1>1. call[r][k] \in CallType
    BY DEF AdmitInv
  <1>2. c \in CallType /\ c.at = "settled" /\ c.mine = call[r][k].mine
    BY <1>1 DEF CallType, Outcomes
  <1>3. call' = [call EXCEPT ![r][k] = c] /\ UNCHANGED <<admitted, evictions>>
    BY DEF Finish
  <1>4. Holding(r, k) => c.at \in {"reserved", "upstream", "settled"} /\ c.mine
    BY <1>2 DEF Holding
  <1> HIDE DEF c
  <1> QED
    BY <1>2, <1>3, <1>4, KeepsHold DEF AdmitInv

\* The inductive step.
LEMMA AdmitStep == AdmitInv /\ [Next]_vars => AdmitInv'
  <1> SUFFICES ASSUME AdmitInv, [Next]_vars PROVE AdmitInv'
    OBVIOUS
  <1>1. CASE UNCHANGED <<call, admitted, evictions>>
    BY <1>1 DEF AdmitInv, Held, Holding
  <1>2. ASSUME NEW r \in Request, NEW k \in Calls,
               \/ Refused(r, k) \/ ReserveKnown(r, k) \/ ReserveRefused(r, k)
               \/ TierRefuses(r, k) \/ BodyRead(r, k)
        PROVE  AdmitInv'
    <2>1. CASE TierRefuses(r, k)
      BY <2>1, ReleaseGivesBack, OverKeepsHold DEF TierRefuses
    <2>2. CASE ~TierRefuses(r, k)
      <3>1. /\ Over(r, k) \/ Returned(r, k)
            /\ UNCHANGED evictions
            /\ ~Holding(r, k)
        BY <1>2, <2>2 DEF Refused, ReserveKnown, ReserveRefused, BodyRead, Holding
      <3>2. admitted' = Pruned \/ UNCHANGED admitted
        BY <1>2, <2>2 DEF Refused, ReserveKnown, ReserveRefused, BodyRead
      <3>3. /\ admitted' \in [Request -> {"none", "fresh", "old"}]
            /\ \A s \in Request : admitted'[s] # "none" => admitted[s] # "none"
        BY <3>2, PrunedOnlyDrops DEF AdmitInv
      <3> QED
        BY <3>1, <3>3, OverKeepsHold, ReturnKeepsHold
    <2> QED
      BY <2>1, <2>2
  <1>3. ASSUME NEW r \in Request, NEW k \in Calls,
               Begin(r, k) \/ TierAccepts(r, k) \/ FirstByte(r, k)
        PROVE  AdmitInv'
    <2>0. call[r][k] \in CallType
      BY DEF AdmitInv
    <2>1. PICK c \in CallType :
              /\ call' = [call EXCEPT ![r][k] = c]
              /\ Holding(r, k) => c.at \in {"reserved", "upstream", "settled"} /\ c.mine
      <3>1. CASE Begin(r, k)
        <4>1. ~Holding(r, k)
          BY <3>1 DEF Begin, Holding
        <4>2. PICK v \in {"over", "begun"} : call' = [call EXCEPT ![r][k].at = v]
          BY <3>1 DEF Begin
        <4>3. [call[r][k] EXCEPT !.at = v] \in CallType
          BY <2>0 DEF CallType
        <4> QED
          BY <4>1, <4>2, <4>3
      <3>2. CASE TierAccepts(r, k)
        <4>1. /\ [call[r][k] EXCEPT !.at = "upstream"] \in CallType
              /\ [call[r][k] EXCEPT !.at = "upstream"].at = "upstream"
              /\ [call[r][k] EXCEPT !.at = "upstream"].mine = call[r][k].mine
          BY <2>0 DEF CallType
        <4> QED
          BY <3>2, <4>1 DEF TierAccepts, Holding
      <3>3. CASE FirstByte(r, k)
        <4>1. /\ [call[r][k] EXCEPT !.byte = TRUE] \in CallType
              /\ [call[r][k] EXCEPT !.byte = TRUE].at = call[r][k].at
              /\ [call[r][k] EXCEPT !.byte = TRUE].mine = call[r][k].mine
          BY <2>0 DEF CallType
        <4> QED
          BY <3>3, <4>1 DEF FirstByte, Holding
      <3> QED
        BY <1>3, <3>1, <3>2, <3>3
    <2>2. UNCHANGED <<admitted, evictions>>
      BY <1>3 DEF Begin, TierAccepts, FirstByte
    <2> QED
      BY <2>1, <2>2, KeepsHold DEF AdmitInv
  <1>4. ASSUME NEW r \in Request, NEW k \in Calls, Releases(r, k) PROVE AdmitInv'
    BY <1>4, ReleaseGivesBack, OverKeepsHold, ReturnKeepsHold DEF Releases
  <1>5. ASSUME NEW r \in Request, NEW k \in Calls,
               Succeeds(r, k) \/ Fails(r, k) \/ Aborts(r, k)
        PROVE  AdmitInv'
    BY <1>5, FinishHolds DEF Succeeds, Fails, Aborts
  <1>6. ASSUME NEW r \in Request, Cancel(r) PROVE AdmitInv'
    <2>0. \A s \in Request : \A k \in Calls : call[s][k] \in CallType
      BY DEF AdmitInv
    <2>1. ASSUME NEW c \in CallType
          PROVE  /\ [c EXCEPT !.aborted = TRUE] \in CallType
                 /\ [c EXCEPT !.aborted = TRUE].at = c.at
                 /\ [c EXCEPT !.aborted = TRUE].mine = c.mine
      BY DEF CallType
    <2>2. \A k \in Calls : /\ [call[r][k] EXCEPT !.aborted = TRUE] \in CallType
                           /\ [call[r][k] EXCEPT !.aborted = TRUE].at = call[r][k].at
                           /\ [call[r][k] EXCEPT !.aborted = TRUE].mine = call[r][k].mine
      BY <2>0, <2>1
    <2>3. /\ call' \in [Request -> [Calls -> CallType]]
          /\ \A k \in Calls : call'[r][k] \in {call[r][k], [call[r][k] EXCEPT !.aborted = TRUE]}
          /\ \A s \in Request : s # r => call'[s] = call[s]
      BY <1>6, <2>2 DEF Cancel, AdmitInv
    <2>4. \A s \in Request : \A k \in Calls :
              call'[s][k].at = call[s][k].at /\ call'[s][k].mine = call[s][k].mine
      <3> TAKE s \in Request
      <3>1. CASE s = r
        BY <3>1, <2>2, <2>3
      <3>2. CASE s # r
        <4>1. call'[s] = call[s]
          BY <2>3, <3>2
        <4> QED
          BY <4>1
      <3> QED
        BY <3>1, <3>2
    <2> QED
      BY <1>6, <2>3, <2>4 DEF Cancel, AdmitInv, Held, Holding
  <1>7. CASE Evict
    <2>0. \A r \in Request : \A k \in Calls : call[r][k] \in CallType
      BY DEF AdmitInv
    <2>1. \A r \in Request : \A k \in Calls : Gone(call[r][k]) \in CallType
      BY <2>0, GoneCall
    <2>2. call' \in [Request -> [Calls -> CallType]]
      BY <1>7, <2>0, <2>1 DEF Evict
    <2>3. evictions' \in Nat /\ evictions' # 0 /\ UNCHANGED admitted
      BY <1>7 DEF Evict, AdmitInv
    <2> QED
      BY <2>2, <2>3 DEF AdmitInv
  <1>8. ASSUME NEW r \in Request, AdmissionAges(r) PROVE AdmitInv'
    BY <1>8 DEF AdmissionAges, AdmitInv, Held, Holding
  <1>9. ASSUME NEW r \in Request, RowAges(r) PROVE UNCHANGED <<call, admitted, evictions>>
    BY <1>9 DEF RowAges
  <1>10. ASSUME NEW e \in queue, IngestUsage(e) PROVE UNCHANGED <<call, admitted, evictions>>
    BY <1>10 DEF IngestUsage
  <1>11. CASE UNCHANGED vars
    BY <1>1, <1>11 DEF vars
  <1> QED
    BY <1>1, <1>2, <1>3, <1>4, <1>5, <1>6, <1>7, <1>8, <1>9, <1>10, <1>11, ReserveHolds
       DEF Next

\* No path through the lane forgets an admission: until the object is lost,
\* each one is held by the call that made it and will give it back.
THEOREM AdmissionsAreHeld == Spec => []AdmissionIsHeld
  <1>1. Init => AdmitInv
    BY DEF Init, AdmitInv, Held, NoCall, CallType, Outcomes
  <1>2. AdmitInv => AdmissionIsHeld
    BY DEF AdmitInv, Held, AdmissionIsHeld
  <1> QED
    BY <1>1, <1>2, AdmitStep, PTL DEF Spec

-----------------------------------------------------------------------------
(***************************************************************************)
(* The ledger.                                                             *)
(***************************************************************************)

PendingRows == {r \in Request : Pending(r)}

\* The ledger's reservation is one estimate for each row in flight, so it never
\* goes below zero, and the requests it counts stay within the capability.
LedgerInv ==
    /\ ledger \in [spent : Nat, reserved : Nat, requests : 0 .. MaxRequests]
    /\ \A r \in Request : result[r].reserved = IF Pending(r) THEN Estimate ELSE 0
    /\ IsFiniteSet(PendingRows)
    /\ ledger.reserved = Cardinality(PendingRows)
    /\ receipt \subseteq Request
    /\ evictions \in 0 .. MaxEvictions

\* One row comes or goes.
LEMMA RowMoves ==
    ASSUME Shape, LedgerInv, NEW r \in Request, NEW row,
           row.reserved = IF row.state = "in_flight" THEN Estimate ELSE 0,
           result' = [result EXCEPT ![r] = row]
    PROVE  /\ \A s \in Request : result'[s].reserved = IF Pending(s)' THEN Estimate ELSE 0
           /\ IsFiniteSet(PendingRows')
           /\ row.state = "in_flight" /\ ~Pending(r) =>
                 Cardinality(PendingRows') = Cardinality(PendingRows) + 1
           /\ row.state # "in_flight" /\ Pending(r) =>
                 /\ Cardinality(PendingRows') = Cardinality(PendingRows) - 1
                 /\ Cardinality(PendingRows) > 0
           /\ (row.state = "in_flight" <=> Pending(r)) =>
                 Cardinality(PendingRows') = Cardinality(PendingRows)
  <1>1. result'[r] = row /\ \A s \in Request : s # r => result'[s] = result[s]
    BY DEF Shape
  <1>2. /\ Pending(r)' <=> row.state = "in_flight"
        /\ \A s \in Request : s # r => (Pending(s)' <=> Pending(s))
    BY <1>1 DEF Pending
  <1>3. \A s \in Request : result'[s].reserved = IF Pending(s)' THEN Estimate ELSE 0
    BY <1>1, <1>2 DEF LedgerInv
  <1>4. IsFiniteSet(PendingRows) /\ Cardinality(PendingRows) \in Nat
    BY FS_CardinalityType DEF LedgerInv
  <1>5. CASE row.state = "in_flight"
    <2>1. PendingRows' = PendingRows \cup {r}
      BY <1>2, <1>5 DEF PendingRows
    <2>2. r \in PendingRows <=> Pending(r)
      BY DEF PendingRows
    <2> QED
      BY <1>3, <1>4, <1>5, <2>1, <2>2, FS_AddElement
  <1>6. CASE row.state # "in_flight"
    <2>1. PendingRows' = PendingRows \ {r}
      BY <1>2, <1>6 DEF PendingRows
    <2>2. r \in PendingRows <=> Pending(r)
      BY DEF PendingRows
    <2>3. /\ IsFiniteSet(PendingRows')
          /\ Cardinality(PendingRows') = IF r \in PendingRows THEN Cardinality(PendingRows) - 1
                                         ELSE Cardinality(PendingRows)
      BY <1>4, <2>1, FS_RemoveElement
    <2>4. Pending(r) => Cardinality(PendingRows) > 0
      BY <1>4, <2>2, FS_EmptySet
    <2> QED
      BY <1>3, <1>6, <2>2, <2>3, <2>4
  <1> QED
    BY <1>5, <1>6

\* A step that leaves the ledger and the state of its rows alone.
LEMMA LedgerUnmoved ==
    ASSUME Shape, LedgerInv, UNCHANGED ledger,
           \A r \in Request : /\ result'[r].state = result[r].state
                              /\ result'[r].reserved = result[r].reserved,
           receipt' \subseteq Request, evictions' \in 0 .. MaxEvictions
    PROVE  LedgerInv'
  <1>1. PendingRows' = PendingRows /\ \A r \in Request : Pending(r)' <=> Pending(r)
    BY DEF PendingRows, Pending
  <1> QED
    BY <1>1 DEF LedgerInv

\* settle gives back what the pending row holds.
LEMMA SettleBalances ==
    ASSUME Shape, LedgerInv, NEW r \in Request, NEW charge \in Nat, NEW refund, NEW keep,
           ledger' = Settled(charge, refund, r),
           result' = [result EXCEPT ![r] = Stored(keep, r)],
           UNCHANGED <<receipt, evictions>>
    PROVE  LedgerInv'
  <1>1. ledger.spent \in Nat /\ ledger.reserved \in Nat /\ ledger.requests \in 0 .. MaxRequests
    BY DEF LedgerInv
  <1>2. CASE Pending(r)
    <2> DEFINE row == Stored(keep, r)
    <2>1. row.state # "in_flight" /\ row.reserved = 0
      BY <1>2 DEF Stored, NoResult
    <2>2. result' = [result EXCEPT ![r] = row]
      OBVIOUS
    <2>3. /\ \A s \in Request : result'[s].reserved = IF Pending(s)' THEN Estimate ELSE 0
          /\ IsFiniteSet(PendingRows')
          /\ Cardinality(PendingRows') = Cardinality(PendingRows) - 1
          /\ Cardinality(PendingRows) > 0
      <3> HIDE DEF row
      <3>1. row.reserved = IF row.state = "in_flight" THEN Estimate ELSE 0
        BY <2>1
      <3>2. /\ \A s \in Request : result'[s].reserved = IF Pending(s)' THEN Estimate ELSE 0
            /\ IsFiniteSet(PendingRows')
            /\ row.state # "in_flight" /\ Pending(r) =>
                 /\ Cardinality(PendingRows') = Cardinality(PendingRows) - 1
                 /\ Cardinality(PendingRows) > 0
        BY <2>2, <3>1, RowMoves
      <3> QED
        BY <1>2, <2>1, <3>2
    <2>4. result[r].reserved = 1
      BY <1>2 DEF LedgerInv, Estimate
    <2> DEFINE n == IF refund /\ ledger.requests > 0 THEN ledger.requests - 1 ELSE ledger.requests
    <2>5. n \in 0 .. MaxRequests
      BY <1>1, GatewayAssumption
    <2>6. ledger' = [spent |-> ledger.spent + charge, reserved |-> ledger.reserved - 1,
                     requests |-> n]
      BY <1>2, <2>4 DEF Settled
    <2> HIDE DEF n
    <2>7. ledger.reserved = Cardinality(PendingRows)
      BY DEF LedgerInv
    <2>8. ledger' \in [spent : Nat, reserved : Nat, requests : 0 .. MaxRequests]
      BY <1>1, <2>3, <2>5, <2>6, <2>7
    <2>9. ledger'.reserved = Cardinality(PendingRows')
      BY <2>3, <2>6, <2>7
    <2> QED
      BY <2>3, <2>8, <2>9 DEF LedgerInv
  <1>3. CASE ~Pending(r)
    <2>1. UNCHANGED <<ledger, result>>
      BY <1>3 DEF Settled, Stored, Shape
    <2> QED
      BY <2>1, LedgerUnmoved DEF LedgerInv
  <1> QED
    BY <1>2, <1>3

\* Releasing an abandoned reservation.
LEMMA BeforeBalances ==
    ASSUME Shape, LedgerInv, NEW r \in Request
    PROVE  /\ LedgerBefore(r) \in [spent : Nat, reserved : Nat, requests : 0 .. MaxRequests]
           /\ LedgerBefore(r).requests = ledger.requests
           /\ LedgerBefore(r).reserved = IF Abandoned(r) THEN Cardinality(PendingRows) - 1
                                         ELSE Cardinality(PendingRows)
  <1>1. /\ ledger \in [spent : Nat, reserved : Nat, requests : 0 .. MaxRequests]
        /\ ledger.reserved = Cardinality(PendingRows)
    BY DEF LedgerInv
  <1>2. CASE Abandoned(r)
    <2>1. Pending(r) /\ result[r].reserved = 1
      BY <1>2 DEF Abandoned, Pending, LedgerInv, Estimate
    <2>2. Cardinality(PendingRows) > 0
      <3>1. r \in PendingRows
        BY <2>1 DEF PendingRows
      <3> QED
        BY <3>1, FS_EmptySet, FS_CardinalityType DEF LedgerInv
    <2>3. ledger.reserved - 1 \in Nat
      BY <1>1, <2>2
    <2>4. LedgerBefore(r) = [ledger EXCEPT !.reserved = ledger.reserved - 1]
      BY <1>1, <1>2, <2>1 DEF LedgerBefore
    <2> QED
      BY <1>1, <1>2, <2>3, <2>4
  <1>3. CASE ~Abandoned(r)
    BY <1>1, <1>3 DEF LedgerBefore
  <1> QED
    BY <1>2, <1>3

LEMMA ReserveBalances ==
    ASSUME Shape, LedgerInv, NEW r \in Request, NEW k \in Calls, Reserve(r, k)
    PROVE  LedgerInv'
  <1> DEFINE row == [state |-> "in_flight", reserved |-> Estimate, old |-> FALSE]
             before == LedgerBefore(r)
             one == IF Abandoned(r) THEN 0 ELSE 1
  <1>1. row.state = "in_flight" /\ row.reserved = Estimate
    OBVIOUS
  <1>2. /\ result' = [result EXCEPT ![r] = row]
        /\ ledger' = [before EXCEPT !.reserved = @ + Estimate, !.requests = @ + one]
        /\ UNCHANGED <<receipt, evictions>>
        /\ Abandoned(r) \/ (result[r].state = "none" /\ ledger.requests < MaxRequests)
    BY DEF Reserve, money, WithinLimits
  <1>3. /\ before \in [spent : Nat, reserved : Nat, requests : 0 .. MaxRequests]
        /\ before.requests = ledger.requests
        /\ before.reserved = IF Abandoned(r) THEN Cardinality(PendingRows) - 1
                             ELSE Cardinality(PendingRows)
    BY BeforeBalances
  <1>4. Abandoned(r) => Pending(r)
    BY DEF Abandoned, Pending
  <1>5. ~Abandoned(r) => ~Pending(r)
    BY <1>2 DEF Abandoned, Pending
  <1> HIDE DEF row, before
  <1>6. /\ \A s \in Request : result'[s].reserved = IF Pending(s)' THEN Estimate ELSE 0
        /\ IsFiniteSet(PendingRows')
        /\ Abandoned(r) => Cardinality(PendingRows') = Cardinality(PendingRows)
        /\ ~Abandoned(r) => Cardinality(PendingRows') = Cardinality(PendingRows) + 1
    BY <1>1, <1>2, <1>4, <1>5, RowMoves
  <1>7. /\ before.requests + one \in 0 .. MaxRequests
        /\ before.reserved + Estimate \in Nat
        /\ before.reserved + Estimate = Cardinality(PendingRows')
    <2>1. Cardinality(PendingRows) \in Nat
      BY FS_CardinalityType DEF LedgerInv
    <2> QED
      BY <1>2, <1>3, <1>6, <2>1, GatewayAssumption DEF Estimate
  <1> HIDE DEF one
  <1>8. ledger' = [spent |-> before.spent, reserved |-> before.reserved + Estimate,
                   requests |-> before.requests + one]
    BY <1>2, <1>3
  <1>9. ledger' \in [spent : Nat, reserved : Nat, requests : 0 .. MaxRequests]
    BY <1>3, <1>7, <1>8
  <1> QED
    BY <1>2, <1>6, <1>7, <1>8, <1>9 DEF LedgerInv

LEMMA RefusalBalances ==
    ASSUME Shape, LedgerInv, NEW r \in Request, NEW k \in Calls, ReserveRefused(r, k)
    PROVE  LedgerInv'
  <1>1. /\ result' = [result EXCEPT ![r] = NoResult]
        /\ ledger' = LedgerBefore(r)
        /\ UNCHANGED <<receipt, evictions>>
        /\ result[r].state = "none" \/ Abandoned(r)
    BY DEF ReserveRefused, money
  <1>2. /\ ledger' \in [spent : Nat, reserved : Nat, requests : 0 .. MaxRequests]
        /\ ledger'.reserved = IF Abandoned(r) THEN Cardinality(PendingRows) - 1
                              ELSE Cardinality(PendingRows)
    BY <1>1, BeforeBalances
  <1>3. NoResult.state # "in_flight" /\ NoResult.reserved = 0
    BY DEF NoResult
  <1>4. Pending(r) <=> Abandoned(r)
    BY <1>1 DEF Abandoned, Pending
  <1>5. /\ \A s \in Request : result'[s].reserved = IF Pending(s)' THEN Estimate ELSE 0
        /\ IsFiniteSet(PendingRows')
        /\ Abandoned(r) => Cardinality(PendingRows') = Cardinality(PendingRows) - 1
        /\ ~Abandoned(r) => Cardinality(PendingRows') = Cardinality(PendingRows)
    <2>1. NoResult.reserved = IF NoResult.state = "in_flight" THEN Estimate ELSE 0
      BY <1>3
    <2>2. /\ \A s \in Request : result'[s].reserved = IF Pending(s)' THEN Estimate ELSE 0
          /\ IsFiniteSet(PendingRows')
          /\ NoResult.state # "in_flight" /\ Pending(r) =>
                Cardinality(PendingRows') = Cardinality(PendingRows) - 1
          /\ (NoResult.state = "in_flight" <=> Pending(r)) =>
                Cardinality(PendingRows') = Cardinality(PendingRows)
      BY <1>1, <2>1, RowMoves
    <2> QED
      BY <1>3, <1>4, <2>2
  <1> QED
    BY <1>1, <1>2, <1>5 DEF LedgerInv

LEMMA FinishBalances ==
    ASSUME Shape, LedgerInv, NEW r \in Request, NEW k \in Calls, NEW outcome,
           NEW charge \in {0, Estimate} \union Charges, NEW keep, Finish(r, k, outcome, charge, keep)
    PROVE  LedgerInv'
  <1>1. charge \in Nat
    BY GatewayAssumption DEF Estimate
  <1> QED
    BY <1>1, SettleBalances DEF Finish

LEMMA LedgerStep == Shape /\ BillInv /\ LedgerInv /\ [Next]_vars => LedgerInv'
  <1> SUFFICES ASSUME Shape, BillInv, LedgerInv, [Next]_vars PROVE LedgerInv'
    OBVIOUS
  <1>1. ASSUME UNCHANGED <<ledger, result, receipt, evictions>> PROVE LedgerInv'
    BY <1>1, LedgerUnmoved DEF LedgerInv
  <1>2. CASE UNCHANGED vars
    BY <1>1, <1>2 DEF vars
  <1>3. ASSUME NEW r \in Request, Cancel(r) \/ AdmissionAges(r) PROVE LedgerInv'
    BY <1>1, <1>3 DEF Cancel, AdmissionAges, money
  <1>4. ASSUME NEW r \in Request, RowAges(r) PROVE LedgerInv'
    <2>1. result' = [result EXCEPT ![r].old = TRUE] /\ UNCHANGED <<ledger, receipt, evictions>>
      BY <1>4 DEF RowAges, money
    <2>2. \A s \in Request : /\ result'[s].state = result[s].state
                             /\ result'[s].reserved = result[s].reserved
      BY <2>1 DEF Shape, ResultType
    <2> QED
      BY <2>1, <2>2, LedgerUnmoved DEF LedgerInv
  <1>5. ASSUME NEW r \in Request, NEW k \in Calls,
               \/ Begin(r, k) \/ Refused(r, k) \/ ReserveKnown(r, k) \/ TierAccepts(r, k)
               \/ FirstByte(r, k) \/ Releases(r, k) \/ BodyRead(r, k)
        PROVE  LedgerInv'
    BY <1>1, <1>5 DEF Begin, Refused, ReserveKnown, TierAccepts, FirstByte, Releases, BodyRead,
                      money
  <1>6. ASSUME NEW r \in Request, NEW k \in Calls, TierRefuses(r, k) PROVE LedgerInv'
    BY <1>6, SettleBalances DEF TierRefuses, money
  <1>7. ASSUME NEW r \in Request, NEW k \in Calls, Succeeds(r, k) \/ Fails(r, k) \/ Aborts(r, k)
        PROVE  LedgerInv'
    <2>1. CASE Succeeds(r, k)
      <3>1. PICK charge \in {0, Estimate} \union Charges, keep \in BOOLEAN :
               Finish(r, k, "succeeded", charge, keep)
        BY <2>1 DEF Succeeds
      <3> QED
        BY <3>1, FinishBalances
    <2>2. CASE Fails(r, k)
      <3>1. PICK charge \in {0, Estimate} \union Charges : Finish(r, k, "failed", charge, FALSE)
        BY <2>2 DEF Fails
      <3> QED
        BY <3>1, FinishBalances
    <2>3. CASE Aborts(r, k)
      <3>1. PICK charge \in {0, Estimate} \union Charges : Finish(r, k, "aborted", charge, FALSE)
        BY <2>3 DEF Aborts
      <3> QED
        BY <3>1, FinishBalances
    <2> QED
      BY <1>7, <2>1, <2>2, <2>3
  <1>8. ASSUME NEW e \in queue, IngestUsage(e) PROVE LedgerInv'
    <2>1. e.req \in Request
      BY <1>8 DEF BillInv
    <2>2. /\ UNCHANGED <<ledger, result, evictions>>
          /\ receipt' = receipt \union {e.req}
      BY <1>8 DEF IngestUsage
    <2> QED
      BY <2>1, <2>2, LedgerUnmoved DEF LedgerInv
  <1>9. CASE Evict
    <2>1. UNCHANGED <<ledger, result, receipt>> /\ evictions' \in 0 .. MaxEvictions
      BY <1>9, GatewayAssumption DEF Evict, money, LedgerInv
    <2> QED
      BY <2>1, LedgerUnmoved DEF LedgerInv
  <1> QED
    BY <1>2, <1>3, <1>4, <1>5, <1>6, <1>7, <1>8, <1>9, ReserveBalances, RefusalBalances DEF Next

LEMMA InitBalances == Init => LedgerInv
  <1> SUFFICES ASSUME Init PROVE LedgerInv
    OBVIOUS
  <1>1. PendingRows = {} /\ \A r \in Request : ~Pending(r) /\ result[r].reserved = 0
    BY DEF Init, NoResult, PendingRows, Pending
  <1>2. IsFiniteSet(PendingRows) /\ Cardinality(PendingRows) = 0
    BY <1>1, FS_EmptySet
  <1>3. /\ ledger \in [spent : Nat, reserved : Nat, requests : 0 .. MaxRequests]
        /\ ledger.reserved = 0 /\ receipt = {} /\ evictions \in 0 .. MaxEvictions
    BY GatewayAssumption DEF Init
  <1> QED
    BY <1>1, <1>2, <1>3 DEF LedgerInv

\* A controller is counted by at most the calls of its request.
LEMMA FewUsers ==
    ASSUME CancelInv
    PROVE  control \in [Request -> [refs : 0 .. MaxCalls, on : SUBSET Calls]]
  <1>1. ASSUME NEW r \in Request PROVE control[r] \in [refs : 0 .. MaxCalls, on : SUBSET Calls]
    <2>1. IsFiniteSet(1 .. MaxCalls) /\ Cardinality(1 .. MaxCalls) = MaxCalls
      <3>1. MaxCalls \in Nat
        BY GatewayAssumption
      <3>2. 1 \in Int /\ MaxCalls \in Int
        BY <3>1
      <3> QED
        BY <3>1, <3>2, FS_Interval
    <2>2. LiveCalls(r) \in SUBSET (1 .. MaxCalls)
      BY DEF LiveCalls, Calls
    <2>3. Cardinality(LiveCalls(r)) <= MaxCalls
      BY <2>1, <2>2, FS_Subset
    <2>4. control[r] \in [refs : Nat, on : SUBSET Calls] /\ control[r].refs <= MaxCalls
      BY <2>3 DEF CancelInv, ControlInv
    <2>5. control[r].refs \in 0 .. MaxCalls
      BY <2>4, GatewayAssumption
    <2> QED
      BY <2>4, <2>5
  <1> QED
    BY <1>1 DEF CancelInv

\* The reservation the ledger row carries is that of the results rows in flight.
ReservedIsOwed ==
    /\ IsFiniteSet(PendingRows)
    /\ ledger.reserved = Cardinality(PendingRows) * Estimate

\* Whatever was retried, abandoned, refused or lost, reserveSync and settle never
\* lose a reservation and never count one twice.
THEOREM ReservationsBalance == Spec => []ReservedIsOwed
  <1>1. Init => ExecInv
    BY DEF Init, ExecInv, Shape, RowInv, Executing, Pending, NoCall, NoResult,
           CallType, ResultType, Outcomes
  <1>2. Init => BillInv
    BY DEF Init, BillInv, NoCall, CallType, Outcomes
  <1>3. ExecInv => Shape
    BY DEF ExecInv
  <1>4. LedgerInv => ReservedIsOwed
    <2> SUFFICES ASSUME LedgerInv PROVE ReservedIsOwed
      OBVIOUS
    <2>1. IsFiniteSet(PendingRows) /\ ledger.reserved = Cardinality(PendingRows)
      BY DEF LedgerInv
    <2>2. Cardinality(PendingRows) \in Nat
      BY <2>1, FS_CardinalityType
    <2> QED
      BY <2>1, <2>2 DEF ReservedIsOwed, Estimate
  <1> QED
    BY <1>1, <1>2, <1>3, <1>4, InitBalances, ExecStep, BillStep, LedgerStep, PTL DEF Spec

\* Every table stays well typed: no reservation or reference count goes below
\* zero, and the requests counted stay within the capability's maxRequests.
THEOREM MeterTypeCorrect == Spec => []TypeOK
  <1>1. Init => ExecInv
    BY DEF Init, ExecInv, Shape, RowInv, Executing, Pending, NoCall, NoResult,
           CallType, ResultType, Outcomes
  <1>2. Init => BillInv
    BY DEF Init, BillInv, NoCall, CallType, Outcomes
  <1>3. Init => AdmitInv
    BY DEF Init, AdmitInv, Held, NoCall, CallType, Outcomes
  <1>4. Init => CancelInv
    BY InitControls
  <1>5. ExecInv => Shape
    BY DEF ExecInv
  <1>6. ExecInv /\ BillInv /\ AdmitInv /\ CancelInv /\ LedgerInv => TypeOK
    BY FewUsers DEF ExecInv, Shape, BillInv, AdmitInv, CancelInv, LedgerInv, TypeOK
  <1> QED
    BY <1>1, <1>2, <1>3, <1>4, <1>5, <1>6, InitBalances, ExecStep, BillStep, AdmitStep,
       CancelStep, LedgerStep, PTL DEF Spec

-----------------------------------------------------------------------------
(***************************************************************************)
(* What was spent.  The units a call was charged are told apart by the     *)
(* call, so a charge adds a set disjoint from all the others.              *)
(***************************************************************************)

\* A call that may yet be charged has not been.
Unsettled(r, k) == call[r][k].at \in {"none", "begun", "reserved", "upstream"}

SpentInv ==
    /\ IsFiniteSet(SpentUnits)
    /\ ledger.spent = Cardinality(SpentUnits)
    /\ \A r \in Request : \A k \in Calls : Unsettled(r, k) => call[r][k].charged = 0

\* No call is charged, and none that ended may be charged again.
ChargesKept ==
    \A r \in Request : \A k \in Calls :
        /\ call'[r][k].charged = call[r][k].charged
        /\ Unsettled(r, k)' => Unsettled(r, k)

\* Which units are spent.
LEMMA UnitsOfCalls ==
    /\ \A u : u \in SpentUnits <=>
          \E r \in Request : \E k \in Calls : u \in {<<r, k>>} \X (1 .. call[r][k].charged)
    /\ \A u : u \in SpentUnits' <=>
          \E r \in Request : \E k \in Calls : u \in {<<r, k>>} \X (1 .. call'[r][k].charged)
  BY DEF SpentUnits

\* A step that charges no call and leaves the ledger's total alone.
LEMMA SpendsNothing ==
    ASSUME SpentInv, ChargesKept, ledger'.spent = ledger.spent
    PROVE  SpentInv'
  <1>1. \A u : u \in SpentUnits' <=> u \in SpentUnits
    <2>1. \A u : (\E r \in Request : \E k \in Calls : u \in {<<r, k>>} \X (1 .. call'[r][k].charged))
             <=> (\E r \in Request : \E k \in Calls : u \in {<<r, k>>} \X (1 .. call[r][k].charged))
      BY DEF ChargesKept
    <2> QED
      BY <2>1, UnitsOfCalls, Zenon
  <1>2. SpentUnits' = SpentUnits
    BY <1>1
  <1>3. \A r \in Request : \A k \in Calls : Unsettled(r, k)' => call'[r][k].charged = 0
    BY DEF ChargesKept, SpentInv
  <1> QED
    BY <1>2, <1>3 DEF SpentInv

\* As many units as the charge.
LEMMA UnitsOfCharge ==
    ASSUME NEW x, NEW n \in Nat
    PROVE  IsFiniteSet({x} \X (1 .. n)) /\ Cardinality({x} \X (1 .. n)) = n
  <1>1. IsFiniteSet({x}) /\ Cardinality({x}) = 1
    BY FS_Singleton
  <1>2. 1 \in Int /\ n \in Int
    OBVIOUS
  <1>3. IsFiniteSet(1 .. n) /\ Cardinality(1 .. n) = IF 1 > n THEN 0 ELSE n - 1 + 1
    BY <1>2, FS_Interval
  <1>4. Cardinality(1 .. n) = n
    BY <1>3
  <1>5. /\ IsFiniteSet({x} \X (1 .. n))
        /\ Cardinality({x} \X (1 .. n)) = Cardinality({x}) * Cardinality(1 .. n)
    BY <1>1, <1>3, FS_Product
  <1> QED
    BY <1>1, <1>4, <1>5

\* Settling a call that was not charged spends its charge.
LEMMA ChargeIsSpent ==
    ASSUME Shape, SpentInv, NEW r \in Request, NEW k \in Calls, NEW c \in CallType,
           call' = [call EXCEPT ![r][k] = c], Unsettled(r, k), c.at = "settled",
           ledger'.spent = ledger.spent + c.charged
    PROVE  SpentInv'
  <1>1. /\ call'[r][k] = c
        /\ \A j \in Calls : j # k => call'[r][j] = call[r][j]
        /\ \A s \in Request : s # r => call'[s] = call[s]
    BY OneCall
  <1>2. call[r][k].charged = 0 /\ c.charged \in Nat
    BY ChargeIsNat DEF SpentInv
  <1> DEFINE fresh == {<<r, k>>} \X (1 .. c.charged)
  <1>3. IsFiniteSet(fresh) /\ Cardinality(fresh) = c.charged
    BY <1>2, UnitsOfCharge
  <1>4. \A s \in Request : \A j \in Calls :
            ~(s = r /\ j = k) => call'[s][j] = call[s][j]
    BY <1>1
  <1>5. ASSUME NEW u PROVE u \in SpentUnits' <=> u \in SpentUnits \cup fresh
    <2>1. ASSUME u \in SpentUnits' PROVE u \in SpentUnits \cup fresh
      <3>1. PICK s \in Request, j \in Calls : u \in {<<s, j>>} \X (1 .. call'[s][j].charged)
        BY <2>1, UnitsOfCalls
      <3>2. CASE s = r /\ j = k
        BY <1>1, <3>1, <3>2
      <3>3. CASE ~(s = r /\ j = k)
        <4>1. u \in {<<s, j>>} \X (1 .. call[s][j].charged)
          BY <1>4, <3>1, <3>3
        <4> QED
          BY <4>1, UnitsOfCalls
      <3> QED
        BY <3>2, <3>3
    <2>2. ASSUME u \in SpentUnits PROVE u \in SpentUnits'
      <3>1. PICK s \in Request, j \in Calls : u \in {<<s, j>>} \X (1 .. call[s][j].charged)
        BY <2>2, UnitsOfCalls
      <3>2. ~(s = r /\ j = k)
        <4> SUFFICES ASSUME s = r, j = k PROVE FALSE
          OBVIOUS
        <4>1. u[2] \in 1 .. 0
          BY <1>2, <3>1
        <4> QED
          BY <4>1
      <3>3. u \in {<<s, j>>} \X (1 .. call'[s][j].charged)
        BY <1>4, <3>1, <3>2
      <3> QED
        BY <3>3, UnitsOfCalls
    <2>3. ASSUME u \in fresh PROVE u \in SpentUnits'
      <3>1. u \in {<<r, k>>} \X (1 .. call'[r][k].charged)
        BY <1>1, <2>3
      <3> QED
        BY <3>1, UnitsOfCalls
    <2> QED
      BY <2>1, <2>2, <2>3
  <1>6. ASSUME NEW u, u \in SpentUnits PROVE u \notin fresh
    <2>1. PICK s \in Request, j \in Calls : u \in {<<s, j>>} \X (1 .. call[s][j].charged)
      BY <1>6, UnitsOfCalls
    <2> SUFFICES ASSUME u \in fresh PROVE FALSE
      OBVIOUS
    <2>2. u[1] = <<s, j>> /\ u[1] = <<r, k>>
      BY <2>1
    <2>3. s = r /\ j = k
      BY <2>2
    <2>4. u[2] \in 1 .. 0
      BY <1>2, <2>1, <2>3
    <2> QED
      BY <2>4
  <1> HIDE DEF fresh
  <1>7. SpentUnits' = SpentUnits \cup fresh
    BY <1>5
  <1>8. SpentUnits \cap fresh = {}
    BY <1>6
  <1>9. IsFiniteSet(SpentUnits) /\ ledger.spent = Cardinality(SpentUnits)
    BY DEF SpentInv
  <1>10. /\ IsFiniteSet(SpentUnits \cup fresh)
         /\ Cardinality(SpentUnits \cup fresh) =
                Cardinality(SpentUnits) + Cardinality(fresh) - Cardinality(SpentUnits \cap fresh)
    BY <1>3, <1>9, FS_Union
  <1>11. Cardinality(SpentUnits \cap fresh) = 0
    BY <1>8, FS_EmptySet
  <1>12. Cardinality(SpentUnits) \in Nat
    BY <1>9, FS_CardinalityType
  <1>13. IsFiniteSet(SpentUnits') /\ ledger'.spent = Cardinality(SpentUnits')
    BY <1>2, <1>3, <1>7, <1>9, <1>10, <1>11, <1>12
  <1>14. ASSUME NEW s \in Request, NEW j \in Calls, Unsettled(s, j)'
         PROVE  call'[s][j].charged = 0
    <2>1. ~(s = r /\ j = k)
      BY <1>1, <1>14 DEF Unsettled
    <2> QED
      BY <1>4, <1>14, <2>1 DEF Unsettled, SpentInv
  <1> QED
    BY <1>13, <1>14 DEF SpentInv

\* A call that moves on or ends without settling.
LEMMA MoveKeepsCharges ==
    ASSUME Shape, NEW r \in Request, NEW k \in Calls, NEW c \in CallType,
           call' = [call EXCEPT ![r][k] = c], c.charged = call[r][k].charged,
           c.at \in {"none", "begun", "reserved", "upstream"} => Unsettled(r, k)
    PROVE  ChargesKept
  <1>1. /\ call'[r][k] = c
        /\ \A j \in Calls : j # k => call'[r][j] = call[r][j]
        /\ \A s \in Request : s # r => call'[s] = call[s]
    BY OneCall
  <1>2. ASSUME NEW s \in Request, NEW j \in Calls
        PROVE  /\ call'[s][j].charged = call[s][j].charged
               /\ Unsettled(s, j)' => Unsettled(s, j)
    <2>1. CASE s = r /\ j = k
      BY <1>1, <2>1 DEF Unsettled
    <2>2. CASE ~(s = r /\ j = k)
      <3>1. call'[s][j] = call[s][j]
        BY <1>1, <2>2
      <3> QED
        BY <3>1 DEF Unsettled
    <2> QED
      BY <2>1, <2>2
  <1> QED
    BY <1>2 DEF ChargesKept

\* Over, and a call whose place changes.
LEMMA EndsKeepCharges ==
    ASSUME Shape, NEW r \in Request, NEW k \in Calls
    PROVE  /\ Over(r, k) => ChargesKept
           /\ \A v \in {"begun", "upstream", "body", "over"} :
                  /\ call' = [call EXCEPT ![r][k].at = v]
                  /\ v \in {"begun", "upstream"} => Unsettled(r, k)
                  => ChargesKept
  <1>1. call[r][k] \in CallType
    BY DEF Shape
  <1>2. ASSUME Over(r, k) PROVE ChargesKept
    <2> DEFINE c == Gone(call[r][k])
    <2>1. c \in CallType /\ c.at = "over" /\ c.charged = call[r][k].charged
      BY <1>1, GoneCall, EndKeepsUsage
    <2>2. call' = [call EXCEPT ![r][k] = c]
      BY <1>2 DEF Over
    <2> HIDE DEF c
    <2> QED
      BY <2>1, <2>2, MoveKeepsCharges
  <1>3. ASSUME NEW v \in {"begun", "upstream", "body", "over"},
               call' = [call EXCEPT ![r][k].at = v],
               v \in {"begun", "upstream"} => Unsettled(r, k)
        PROVE  ChargesKept
    <2> DEFINE c == [call[r][k] EXCEPT !.at = v]
    <2>1. c \in CallType /\ c.at = v /\ c.charged = call[r][k].charged
      BY <1>1 DEF CallType
    <2>2. call' = [call EXCEPT ![r][k] = c]
      BY <1>3
    <2> HIDE DEF c
    <2>3. c.at \in {"none", "begun", "reserved", "upstream"} => Unsettled(r, k)
      BY <1>3, <2>1
    <2> QED
      BY <2>1, <2>2, <2>3, MoveKeepsCharges
  <1> QED
    BY <1>2, <1>3

\* finish charges a request whose row is pending, and so is spent.
LEMMA FinishSpends ==
    ASSUME ExecInv, LedgerInv, SpentInv, NEW r \in Request, NEW k \in Calls,
           NEW outcome \in {"succeeded", "failed", "aborted"},
           NEW charge \in {0, Estimate} \union Charges, NEW keep \in BOOLEAN,
           Finish(r, k, outcome, charge, keep)
    PROVE  SpentInv'
  <1> DEFINE c == [call[r][k] EXCEPT !.at = "settled", !.outcome = outcome,
                                     !.charged = charge, !.kept = keep]
  <1>1. call[r][k] \in CallType /\ Shape
    BY DEF ExecInv, Shape
  <1>2. c \in CallType /\ c.at = "settled" /\ c.charged = charge
    BY <1>1 DEF CallType, Outcomes
  <1>3. call' = [call EXCEPT ![r][k] = c] /\ call[r][k].at = "upstream"
    BY DEF Finish
  <1>4. Pending(r)
    BY <1>3 DEF ExecInv, RowInv, Executing
  <1>5. ledger'.spent = ledger.spent + charge
    BY <1>4 DEF Finish, Settled
  <1> HIDE DEF c
  <1> QED
    BY <1>1, <1>2, <1>3, <1>5, ChargeIsSpent DEF Unsettled

\* The inductive step: only finish spends.
LEMMA SpentStep == ExecInv /\ LedgerInv /\ SpentInv /\ [Next]_vars => SpentInv'
  <1> SUFFICES ASSUME ExecInv, LedgerInv, SpentInv, [Next]_vars PROVE SpentInv'
    OBVIOUS
  <1>0. Shape /\ ledger \in [spent : Nat, reserved : Nat, requests : 0 .. MaxRequests]
    BY DEF ExecInv, LedgerInv
  <1>1. ASSUME UNCHANGED <<call, ledger>> PROVE SpentInv'
    BY <1>1, SpendsNothing DEF ChargesKept, Unsettled
  <1>2. ASSUME NEW r \in Request, NEW k \in Calls,
               \/ Begin(r, k) \/ Refused(r, k) \/ ReserveKnown(r, k)
               \/ ReserveRefused(r, k) \/ Reserve(r, k) \/ TierAccepts(r, k)
               \/ TierRefuses(r, k) \/ FirstByte(r, k) \/ Releases(r, k)
               \/ BodyRead(r, k)
        PROVE  SpentInv'
    <2>0. call[r][k] \in CallType /\ LedgerBefore(r).spent = ledger.spent
      BY <1>0 DEF Shape, LedgerBefore
    <2>1. CASE Begin(r, k)
      <3>1. Unsettled(r, k) /\ UNCHANGED ledger
        BY <2>1 DEF Begin, Unsettled
      <3>2. \E v \in {"begun", "over"} : call' = [call EXCEPT ![r][k].at = v]
        BY <2>1 DEF Begin
      <3>3. ChargesKept
        BY <1>0, <3>1, <3>2, EndsKeepCharges
      <3> QED
        BY <3>1, <3>3, SpendsNothing
    <2>2. CASE Over(r, k) /\ ledger'.spent = ledger.spent
      BY <1>0, <2>2, EndsKeepCharges, SpendsNothing
    <2>3. CASE Reserve(r, k)
      <3> DEFINE c == [call[r][k] EXCEPT !.at = "reserved", !.mine = r \notin InFlight]
      <3>1. c \in CallType /\ c.charged = call[r][k].charged
        BY <2>0 DEF CallType
      <3>2. call' = [call EXCEPT ![r][k] = c] /\ Unsettled(r, k)
        BY <2>3 DEF Reserve, Unsettled
      <3>3. ledger'.spent = ledger.spent
        <4> DEFINE before == LedgerBefore(r)
        <4>1. before \in [spent : Nat, reserved : Nat, requests : 0 .. MaxRequests]
          BY <1>0, BeforeBalances
        <4>2. before.spent = ledger.spent
          BY <2>0
        <4>3. ledger' = [before EXCEPT
                     !.reserved = @ + Estimate,
                     !.requests = @ + (IF Abandoned(r) THEN 0 ELSE 1)]
          BY <2>3 DEF Reserve
        <4> HIDE DEF before
        <4> QED
          BY <4>1, <4>2, <4>3
      <3> HIDE DEF c
      <3>4. ChargesKept
        BY <1>0, <3>1, <3>2, MoveKeepsCharges
      <3> QED
        BY <3>3, <3>4, SpendsNothing
    <2>4. CASE TierAccepts(r, k)
      <3>1. Unsettled(r, k) /\ UNCHANGED ledger /\ call' = [call EXCEPT ![r][k].at = "upstream"]
        BY <2>4 DEF TierAccepts, Unsettled
      <3>2. ChargesKept
        BY <1>0, <3>1, EndsKeepCharges
      <3> QED
        BY <3>1, <3>2, SpendsNothing
    <2>5. CASE FirstByte(r, k)
      <3> DEFINE c == [call[r][k] EXCEPT !.byte = TRUE]
      <3>1. c \in CallType /\ c.charged = call[r][k].charged
        BY <2>0 DEF CallType
      <3>2. call' = [call EXCEPT ![r][k] = c] /\ Unsettled(r, k) /\ UNCHANGED ledger
        BY <2>5 DEF FirstByte, Unsettled
      <3> HIDE DEF c
      <3>3. ChargesKept
        BY <1>0, <3>1, <3>2, MoveKeepsCharges
      <3> QED
        BY <3>2, <3>3, SpendsNothing
    <2>6. CASE Returned(r, k) /\ UNCHANGED ledger
      <3>1. ChargesKept
        BY <1>0, <2>6, EndsKeepCharges DEF Returned
      <3> QED
        BY <2>6, <3>1, SpendsNothing
    <2>7. CASE TierRefuses(r, k)
      <3>1. ledger'.spent = ledger.spent
        BY <1>0, <2>7 DEF TierRefuses, Settled
      <3> QED
        BY <2>2, <2>7, <3>1 DEF TierRefuses
    <2>8. CASE ReserveRefused(r, k)
      BY <2>0, <2>2, <2>8 DEF ReserveRefused
    <2> QED
      BY <1>2, <2>1, <2>2, <2>3, <2>4, <2>5, <2>6, <2>7, <2>8
         DEF Refused, ReserveKnown, Releases, BodyRead
  <1>3. ASSUME NEW r \in Request, NEW k \in Calls, Succeeds(r, k) \/ Fails(r, k) \/ Aborts(r, k)
        PROVE  SpentInv'
    BY <1>3, FinishSpends DEF Succeeds, Fails, Aborts
  <1>4. ASSUME NEW r \in Request, Cancel(r) PROVE SpentInv'
    <2>1. \A k \in Calls : /\ [call[r][k] EXCEPT !.aborted = TRUE].at = call[r][k].at
                           /\ [call[r][k] EXCEPT !.aborted = TRUE].charged = call[r][k].charged
      <3> SUFFICES ASSUME NEW c \in CallType
                   PROVE  /\ [c EXCEPT !.aborted = TRUE].at = c.at
                          /\ [c EXCEPT !.aborted = TRUE].charged = c.charged
        BY <1>0 DEF Shape
      <3> QED
        BY DEF CallType
    <2>2. /\ \A k \in Calls : call'[r][k] \in {call[r][k], [call[r][k] EXCEPT !.aborted = TRUE]}
          /\ \A s \in Request : s # r => call'[s] = call[s]
      BY <1>0, <1>4 DEF Cancel, Shape
    <2>3. ASSUME NEW s \in Request, NEW k \in Calls
          PROVE  call'[s][k].at = call[s][k].at /\ call'[s][k].charged = call[s][k].charged
      <3>1. CASE s = r
        BY <2>1, <2>2, <3>1
      <3>2. CASE s # r
        <4>1. call'[s] = call[s]
          BY <2>2, <3>2
        <4> QED
          BY <4>1
      <3> QED
        BY <3>1, <3>2
    <2>4. ChargesKept
      BY <2>3 DEF ChargesKept, Unsettled
    <2> QED
      BY <1>4, <2>4, SpendsNothing DEF Cancel
  <1>5. CASE Evict
    <2>1. \A r \in Request : \A k \in Calls : call'[r][k] \in {call[r][k], Gone(call[r][k])}
      BY <1>5 DEF Evict
    <2>2. \A r \in Request : \A k \in Calls :
              /\ call'[r][k].at \in {call[r][k].at, "over"}
              /\ call'[r][k].charged = call[r][k].charged
      BY <1>0, <2>1, GoneCall, EndKeepsUsage DEF Shape
    <2>3. ChargesKept
      BY <2>2 DEF ChargesKept, Unsettled
    <2> QED
      BY <1>5, <2>3, SpendsNothing DEF Evict
  <1>6. ASSUME NEW r \in Request, RowAges(r) \/ AdmissionAges(r) PROVE SpentInv'
    BY <1>1, <1>6 DEF RowAges, AdmissionAges
  <1>7. CASE UNCHANGED vars
    BY <1>1, <1>7 DEF vars
  <1>8. ASSUME NEW e \in queue, IngestUsage(e) PROVE SpentInv'
    BY <1>1, <1>8 DEF IngestUsage
  <1> QED
    BY <1>2, <1>3, <1>4, <1>5, <1>6, <1>7, <1>8 DEF Next

\* A row in flight reserves one unit.
LEMMA UnitsOfRows ==
    ASSUME LedgerInv
    PROVE  ledger.reserved = Cardinality(ReservedUnits)
  <1>1. ASSUME NEW u PROVE u \in ReservedUnits <=> u \in PendingRows \X {1}
    <2>1. u \in ReservedUnits <=> \E r \in Request : u \in {r} \X (1 .. result[r].reserved)
      BY DEF ReservedUnits
    <2>2. ASSUME NEW r \in Request
          PROVE  (1 .. result[r].reserved) = IF Pending(r) THEN {1} ELSE {}
      <3>1. result[r].reserved = IF Pending(r) THEN 1 ELSE 0
        BY DEF LedgerInv, Estimate
      <3>2. (1 .. 1) = {1} /\ (1 .. 0) = {}
        OBVIOUS
      <3> QED
        BY <3>1, <3>2
    <2> QED
      BY <2>1, <2>2 DEF PendingRows
  <1>2. ReservedUnits = PendingRows \X {1}
    BY <1>1
  <1>3. IsFiniteSet(PendingRows) /\ ledger.reserved = Cardinality(PendingRows)
    BY DEF LedgerInv
  <1>4. IsFiniteSet({1}) /\ Cardinality({1}) = 1
    BY FS_Singleton
  <1>5. Cardinality(PendingRows \X {1}) = Cardinality(PendingRows) * Cardinality({1})
    BY <1>3, <1>4, FS_Product
  <1>6. Cardinality(PendingRows) \in Nat
    BY <1>3, FS_CardinalityType
  <1> QED
    BY <1>2, <1>3, <1>4, <1>5, <1>6

\* reserveSync and settle keep the owner's ledger exact: through retries,
\* abandoned rows, refusals and evictions it reserves what rows in flight hold
\* and has spent what calls were charged, no charge lost and none counted twice.
THEOREM LedgerIsExact == Spec => []BooksBalance
  <1>1. Init => ExecInv
    BY DEF Init, ExecInv, Shape, RowInv, Executing, Pending, NoCall, NoResult,
           CallType, ResultType, Outcomes
  <1>2. Init => BillInv
    BY DEF Init, BillInv, NoCall, CallType, Outcomes
  <1>3. ExecInv => Shape
    BY DEF ExecInv
  <1>4. Init => SpentInv
    <2> SUFFICES ASSUME Init PROVE SpentInv
      OBVIOUS
    <2>1. \A r \in Request : \A k \in Calls : call[r][k].charged = 0
      BY DEF Init, NoCall
    <2>2. ASSUME NEW u PROVE u \notin SpentUnits
      <3> SUFFICES ASSUME u \in SpentUnits PROVE FALSE
        OBVIOUS
      <3>1. PICK r \in Request, k \in Calls : u \in {<<r, k>>} \X (1 .. call[r][k].charged)
        BY UnitsOfCalls
      <3>2. u[2] \in 1 .. 0
        BY <2>1, <3>1
      <3> QED
        BY <3>2
    <2>3. SpentUnits = {}
      BY <2>2
    <2>4. IsFiniteSet(SpentUnits) /\ Cardinality(SpentUnits) = 0
      BY <2>3, FS_EmptySet
    <2> QED
      BY <2>1, <2>4 DEF Init, SpentInv
  <1>5. LedgerInv /\ SpentInv => BooksBalance
    BY UnitsOfRows DEF SpentInv, BooksBalance
  <1> QED
    BY <1>1, <1>2, <1>3, <1>4, <1>5, InitBalances, ExecStep, BillStep, LedgerStep, SpentStep,
       PTL DEF Spec

=============================================================================
