-------------------------- MODULE DeviceToolServer --------------------------
(***************************************************************************)
(* The computer's half of a tool call (device-tool-server.ts): it runs a   *)
(* call once, keeps its answer for a resend, and fails a resent call it    *)
(* has no record of.  All of it is memory of one process.                  *)
(***************************************************************************)
EXTENDS DeviceToolContract, Sequences

CONSTANT
    MaxKeptAnswers  \* MAX_KEPT_ANSWERS

VARIABLES
    run,        \* the run of each call, and how often the tool was started
    answers,    \* kept answers, oldest first
    socket,     \* the computer's presence socket
    up          \* frames on their way to the gate

serverVars == <<run, answers, socket, up>>

RunType == [state : {"none", "live", "stopping"}, starts : Nat, finished : BOOLEAN]

ServerInit ==
    /\ run = [r \in Request |-> [state |-> "none", starts |-> 0, finished |-> FALSE]]
    /\ answers = <<>>
    /\ socket = [conn |-> 0, proven |-> FALSE]
    /\ up = <<>>

\* Mutant: the answer's code is left out.
UpFrameWithoutCode(type, r, code) ==
    [conn |-> socket.conn, type |-> type, r |-> r, code |-> "none"]

UpFrame(type, r, code) == [conn |-> socket.conn, type |-> type, r |-> r, code |-> code]

\* A frame that cannot be sent is dropped.
Send(frames) == up' = IF socket.proven THEN up \o frames ELSE up

\* The oldest answers over the limit are let go.
Prune(kept) ==
    IF Len(kept) > MaxKeptAnswers
    THEN SubSeq(kept, Len(kept) - MaxKeptAnswers + 1, Len(kept)) ELSE kept

IsAnswered(kept, r) == \E i \in DOMAIN kept : kept[i].r = r

AnswerOf(kept, r) == kept[CHOOSE i \in DOMAIN kept : kept[i].r = r].code

\* Mutant: the run in progress is not looked up.
UnknownUnlessAnswered(kept, r) == ~IsAnswered(kept, r)

Unknown(kept, r) == ~IsAnswered(kept, r) /\ run[r].state = "none"

\* A call is answered from the run it has, finished or not.
Handle(r, resume) ==
    LET kept == Prune(answers) IN
    /\ \/ /\ IsAnswered(kept, r)
          /\ Send(<<UpFrame("accepted", r, "ok"), UpFrame("answer", r, AnswerOf(kept, r))>>)
          /\ answers' = kept /\ UNCHANGED run
       \/ /\ ~IsAnswered(kept, r) /\ ~Unknown(kept, r)
          /\ Send(<<UpFrame("accepted", r, "ok")>>)
          /\ answers' = kept /\ UNCHANGED run
       \/ /\ Unknown(kept, r) /\ resume
          /\ Send(<<UpFrame("answer", r, "no_record")>>)
          /\ answers' = kept /\ UNCHANGED run
       \/ /\ Unknown(kept, r) /\ ~resume
          /\ Send(<<UpFrame("accepted", r, "ok")>>)
          /\ run' = [run EXCEPT ![r].state = "live", ![r].starts = @ + 1]
          /\ answers' = kept
       \* no tool host here, or a call it cannot read
       \/ /\ Unknown(kept, r) /\ ~resume
          /\ Send(<<UpFrame("answer", r, "unsupported")>>)
          /\ answers' = Append(kept, [r |-> r, code |-> "unsupported"])
          /\ UNCHANGED run
    /\ UNCHANGED socket

\* tool.cancel: the run is interrupted.
StopRun(r) ==
    /\ run' = [run EXCEPT ![r].state = IF @ = "live" THEN "stopping" ELSE @]
    /\ UNCHANGED <<answers, socket, up>>

\* Mutant: an answer is kept only when it could be sent.
AnsweredIfSent(r, code) ==
    /\ answers' = IF socket.proven THEN Append(answers, [r |-> r, code |-> code]) ELSE answers
    /\ Send(<<UpFrame("answer", r, code)>>)
    /\ UNCHANGED socket

Answered(r, code) ==
    /\ answers' = Append(answers, [r |-> r, code |-> code])
    /\ Send(<<UpFrame("answer", r, code)>>)
    /\ UNCHANGED socket

\* The tool returns or throws.
RunEnds(r) ==
    /\ run[r].state # "none"
    /\ run' = [run EXCEPT ![r].state = "none", ![r].finished = TRUE]
    /\ \E code \in {"ok", "failed"} : Answered(r, code)

\* The interruption is through.
RunStopped(r) ==
    /\ run[r].state = "stopping"
    /\ run' = [run EXCEPT ![r].state = "none"]
    /\ Answered(r, "canceled")

\* Stella restarts: every record is gone and what ran is interrupted.
Restart ==
    /\ run' = [r \in Request |-> [run[r] EXCEPT !.state = "none"]]
    /\ answers' = <<>>
    /\ socket' = [conn |-> 0, proven |-> FALSE]
    /\ UNCHANGED up

\* An answer older than ANSWER_TTL_MS; a call has one.
Expire(r) ==
    /\ \E i \in DOMAIN answers :
         /\ answers[i].r = r
         /\ answers' = SubSeq(answers, 1, i - 1) \o SubSeq(answers, i + 1, Len(answers))
    /\ UNCHANGED <<run, socket, up>>

Lose ==
    /\ socket.conn # 0
    /\ socket' = [conn |-> 0, proven |-> FALSE]
    /\ UNCHANGED <<run, answers, up>>

=============================================================================
