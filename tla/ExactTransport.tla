---------------------------- MODULE ExactTransport ----------------------------
(***************************************************************************)
(* phase3_exact_transport.py: one ExactCandidateSession.run over the       *)
(* prepared frames.  The candidate runs beside the session: it writes to   *)
(* its stdout what and when it likes, may leave a descendant that holds    *)
(* the pipe and writes to it, stops for ptrace at a signal and when it     *)
(* exits, and may hang.  (That it may close its stdout before it exits is  *)
(* left out: the end of the file counts only once it was reaped.)  A       *)
(* response is one token, Half the beginning of a line.  `late` is the     *)
(* deadline of the wait the session is in.  Custody and identity checks of *)
(* the launch are one outcome per stage; stderr follows stdout.  An        *)
(* exception that is not the transport's own may leave run at any call;    *)
(* the driver then closes the session for the result it still has.         *)
(***************************************************************************)
EXTENDS ClosedSession, FiniteSets, Sequences

CONSTANTS
    FrameCount, \* request frames of the run
    MaxWrites   \* bound: tokens the candidate writes, where a stray one counts twice

ASSUME TransportAssumption == FrameCount \in Nat \ {0} /\ MaxWrites \in Nat

VARIABLES
    child,   \* state, exit code, what it and its descendant wrote, whether it was
             \* killed, has a descendant that holds the pipe
    pipe,    \* what is in the candidate's stdout and was not read yet
    late,    \* the current deadline has passed
    at,      \* where the session is
    session, \* its fields
    status   \* of the result

transportVars == <<child, pipe, late, at, session, status>>

Frames == 1..FrameCount
Wrong == 0                 \* a line with another request_id
Half == FrameCount + 1     \* the beginning of a line
Flood == FrameCount + 2    \* more than a cap allows
Lines == Frames \cup {Wrong}

HasLine(bytes) == \E i \in DOMAIN bytes : bytes[i] \in Lines
LineEnd(bytes) == CHOOSE i \in DOMAIN bytes :
    bytes[i] \in Lines /\ \A j \in 1..(i - 1) : bytes[j] \notin Lines

(* A stray is anything but the whole answer whose turn it is.              *)
Stray(bytes, i) ==
    LET before == {bytes[j] : j \in 1..(i - 1)}
    IN ~(bytes[i] \in Frames \ before /\ 1..(bytes[i] - 1) \subseteq before)
WithinBound(bytes) ==
    Len(bytes) + Cardinality({i \in DOMAIN bytes : Stray(bytes, i)}) <= MaxWrites

TransportInit ==
    /\ child = [state |-> "none", code |-> "none", wrote |-> <<>>, killed |-> FALSE, heir |-> FALSE]
    /\ pipe = <<>>
    /\ late = FALSE
    /\ at = "prelaunch"
    /\ session = [launch |-> "none", group |-> FALSE, sent |-> 0, pending |-> FALSE,
                  sending |-> FALSE, buffer |-> <<>>, responses |-> <<>>, failure |-> "none",
                  final |-> "none", reaped |-> FALSE, eof |-> FALSE, clean |-> FALSE,
                  closing |-> FALSE, left |-> FALSE]
    /\ status = "none"

-----------------------------------------------------------------------------
(* The candidate. *)

Candidate(change) ==
    /\ child' = change
    /\ UNCHANGED <<late, at, session, status>>

Active == child.state = "running" /\ ~child.killed

(* Nobody holds the write end of the pipe. *)
NoWriter == ~child.heir /\ child.state \in {"zombie", "gone"}

Write(token) ==
    /\ Active \/ child.heir
    /\ WithinBound(Append(child.wrote, token))
    /\ pipe' = Append(pipe, token)
    /\ Candidate([child EXCEPT !.wrote = Append(@, token)])

Fork ==
    /\ Active
    /\ Candidate([child EXCEPT !.heir = TRUE])
    /\ UNCHANGED pipe

(* The descendant closes the pipe, or ends. *)
Release ==
    /\ child.heir
    /\ Candidate([child EXCEPT !.heir = FALSE])
    /\ UNCHANGED pipe

(* A signal stops it for the tracer. *)
Signal ==
    /\ Active
    /\ Candidate([child EXCEPT !.state = "signalled"])
    /\ UNCHANGED pipe

(* It exits by itself or because it was killed.  The stop ptrace makes of  *)
(* the exit may be missing.                                                *)
Exit(code) ==
    /\ child.state \in {"traced", "running", "signalled"}
    /\ child.killed <=> code = "killed"
    /\ \E state \in {"stopped", "zombie"} : Candidate([child EXCEPT !.state = state, !.code = code])
    /\ UNCHANGED pipe

Die ==
    /\ \/ child.state = "dying"
       \/ child.state \in {"stopped", "held"} /\ child.killed
    /\ Candidate([child EXCEPT !.state = "zombie", !.code = IF @ = "none" THEN "killed" ELSE @])
    /\ UNCHANGED pipe

ChildStep ==
    \/ \E token \in Lines \cup {Half, Flood} : Write(token)
    \/ \E code \in {"zero", "other", "killed"} : Exit(code)
    \/ Fork \/ Release \/ Signal \/ Die

Tick ==
    /\ ~late /\ at # "ended"
    /\ late' = TRUE
    /\ UNCHANGED <<child, pipe, at, session, status>>

-----------------------------------------------------------------------------
(* The session. *)

Go(s, next) == session' = s /\ at' = next

(* _record_failure: the first one stays. *)
Failed(s, code) == [s EXCEPT !.failure = IF @ = "none" THEN code ELSE @]

(* A raise of launch, request_frame or close: recorded, then aborted.      *)
Raise(s, code) == Go(Failed(s, code), "kill")

PumpRaises == late \/ \E i \in DOMAIN pipe : pipe[i] = Flood
PumpCode == IF late THEN "io-timeout" ELSE "stdout-cap"

(* _read_fd takes all there is; the end of the file shows once nobody      *)
(* holds the write end.                                                    *)
Pumped == [session EXCEPT !.buffer = @ \o pipe, !.eof = NoWriter]

(* A read that goes over a cap may have kept what it took.                 *)
PumpRaised == {session} \cup IF late THEN {} ELSE {[session EXCEPT !.buffer = @ \o pipe]}

(* _poll_terminal: wait4 finds the stop of a signal, the exit stop, at     *)
(* which the final FP state is observed before the candidate may go on, or *)
(* the terminal status.  Without the first observation the final one is of *)
(* no use.  A signal other than SIGCHLD is raised; so is a stop after      *)
(* which ptrace cannot let the candidate go on, whatever was observed at   *)
(* it.  There is one exit stop, and nobody else waits for the candidate.   *)
Observed(final) ==
    LET seen == [session EXCEPT !.final = final]
    IN IF final = "good" THEN seen
       ELSE Failed(seen, IF final = "drift" THEN "final-fp-state-drift"
                         ELSE "final-fp-observation-unavailable")

Finals == {"unavailable"} \cup (IF session.launch = "observed" THEN {"good", "drift"} ELSE {})

After(state, s, raises) == [child |-> [child EXCEPT !.state = state], session |-> s, raises |-> raises]

Polled ==
    IF session.reaped THEN {After(child.state, session, FALSE)}
    ELSE CASE child.state = "zombie" -> {After("gone", [session EXCEPT !.reaped = TRUE], FALSE)}
           [] child.state = "signalled" ->
                {After("running", session, FALSE), After("held", session, TRUE)}
           [] child.state = "stopped" ->
                {After("dying", Observed(final), FALSE) : final \in Finals} \cup
                {After("held", [session EXCEPT !.final = final], TRUE) : final \in Finals}
           [] OTHER -> {After(child.state, session, FALSE)}

(* launch: before the fork, until the stop after setsid, until the stop    *)
(* after exec.  The group id is taken at the first stop.                   *)
Spawn(works) ==
    /\ at = "prelaunch"
    /\ IF works
       THEN /\ child' = [child EXCEPT !.state = "traced"]
            /\ Go(session, "start")
       ELSE /\ \E verdict \in {"failed", "inconclusive"} :
                Raise([session EXCEPT !.launch = verdict, !.reaped = TRUE], "launch")
            /\ UNCHANGED child
    /\ UNCHANGED <<pipe, late, status>>

StartStop ==
    /\ at = "start" /\ child.state = "traced"
    /\ Go([session EXCEPT !.group = TRUE], "exec")
    /\ UNCHANGED <<child, pipe, late, status>>

ExecStop ==
    /\ at = "exec" /\ child.state = "traced"
    /\ child' = [child EXCEPT !.state = "running"]
    /\ Go([session EXCEPT !.launch = "observed"], "idle")
    /\ UNCHANGED <<pipe, late, status>>

LaunchFails ==
    /\ at \in {"start", "exec"}
    /\ \E verdict \in {"failed", "inconclusive"} :
        Raise([session EXCEPT !.launch = verdict], "launch")
    /\ UNCHANGED <<child, pipe, late, status>>

(* request_frame *)
BeginRequest ==
    /\ at = "idle" /\ session.failure = "none" /\ session.sent < FrameCount
    /\ IF session.buffer # <<>>
       THEN Raise(session, "trailing-output") /\ UNCHANGED late
       ELSE /\ Go([session EXCEPT !.sent = @ + 1, !.pending = TRUE, !.sending = TRUE], "pump")
            /\ late' = FALSE
    /\ UNCHANGED <<child, pipe, status>>

PumpRequest ==
    /\ at = "pump"
    /\ IF PumpRaises
       THEN \E s \in PumpRaised : Raise(s, PumpCode)
       ELSE \/ session.pending /\ \E s \in {session, Pumped} : Raise(s, "stdin-write")
            \/ \E left \in {session.pending, FALSE} : Go([Pumped EXCEPT !.pending = left], "poll")
    /\ pipe' = IF late THEN pipe ELSE <<>>
    /\ UNCHANGED <<child, late, status>>

(* What keeps the two loops of request_frame from calling an exit early.   *)
Enough(s) == IF s.sending THEN s.buffer # <<>> ELSE HasLine(s.buffer)

LoopOn(s) == Go([s EXCEPT !.sending = s.pending],
                IF ~s.pending /\ HasLine(s.buffer) THEN "take" ELSE "pump")

PollRequestHasty ==                            \* mutant: nothing is drained after the exit
    /\ at = "poll"
    /\ \E after \in Polled :
        /\ child' = after.child
        /\ IF after.raises THEN Raise(after.session, "ptrace-stop")
           ELSE IF after.session.reaped /\ ~Enough(after.session)
                THEN Raise(after.session, "candidate-exited") ELSE LoopOn(after.session)
    /\ UNCHANGED <<pipe, late, status>>

PollRequest ==
    /\ at = "poll"
    /\ \E after \in Polled :
        /\ child' = after.child
        /\ IF after.raises THEN Raise(after.session, "ptrace-stop")
           ELSE IF after.session.reaped /\ ~Enough(after.session)
                THEN Go(after.session, "drain") ELSE LoopOn(after.session)
    /\ UNCHANGED <<pipe, late, status>>

(* Exit and pipe are separate: what was queued before the exit counts.     *)
DrainRequest ==
    /\ at = "drain"
    /\ IF PumpRaises
       THEN \E s \in PumpRaised, code \in {PumpCode} \cup (IF late THEN {"candidate-exited"} ELSE {}) :
                Raise(s, code)
       ELSE IF Enough(Pumped) THEN LoopOn(Pumped) ELSE Raise(Pumped, "candidate-exited")
    /\ pipe' = IF late THEN pipe ELSE <<>>
    /\ UNCHANGED <<child, late, status>>

TakeLine ==
    /\ at = "take"
    /\ LET end == LineEnd(session.buffer)
           line == session.buffer[end]
           taken == [session EXCEPT !.responses = Append(@, line),
                                    !.buffer = SubSeq(@, end + 1, Len(@))]
       IN IF line = session.sent THEN Go(taken, "quiet")
          ELSE Raise(taken, "response-request-id-mismatch")
    /\ UNCHANGED <<child, pipe, late, status>>

(* The quiet window is checked, then pumped with the same deadline.        *)
QuietOver ==
    /\ at = "quiet" /\ late
    /\ Go(session, "idle")
    /\ UNCHANGED <<child, pipe, late, status>>

QuietPump ==
    /\ at = "quiet"
    /\ IF PumpRaises THEN \E s \in PumpRaised : Raise(s, PumpCode)
       ELSE IF Pumped.buffer # <<>> THEN Raise(Pumped, "extra-output")
       ELSE Go(Pumped, IF session.reaped /\ Pumped.eof THEN "idle" ELSE "quiet")
    /\ pipe' = IF late THEN pipe ELSE <<>>
    /\ UNCHANGED <<child, late, status>>

-----------------------------------------------------------------------------
(* close *)

BeginClose ==
    /\ at = "idle" /\ (session.failure # "none" \/ session.sent = FrameCount)
    /\ Go([session EXCEPT !.closing = TRUE], IF session.failure = "none" THEN "shut" ELSE "kill")
    /\ late' = FALSE
    /\ UNCHANGED <<child, pipe, status>>

(* Another exception leaves run: in launch, before or after the fork, in   *)
(* a request, or in the abort after a failure, when the result of a failed *)
(* launch is not there yet.  The driver calls close.                       *)
Leave ==
    /\ ~session.closing /\ at \notin {"idle", "result", "ended"}
    /\ Go([session EXCEPT !.closing = TRUE, !.left = TRUE,
                          !.launch = IF session.failure = "launch" THEN "none" ELSE @],
          IF at = "prelaunch" THEN "result" ELSE IF session.failure = "none" THEN "shut" ELSE "kill")
    /\ late' = FALSE
    /\ UNCHANGED <<child, pipe, status>>

Settled == session.reaped /\ session.eof

(* Both loops of the shutdown, and the short drain when the exit was seen  *)
(* before the end of the pipe.                                             *)
PumpShut ==
    /\ at \in {"shut", "shut_drain"} /\ ~Settled
    /\ IF PumpRaises THEN \E s \in PumpRaised : Raise(s, PumpCode)
       ELSE Go(Pumped, IF at = "shut" THEN "shut_poll" ELSE "shut_drain")
    /\ pipe' = IF late THEN pipe ELSE <<>>
    /\ UNCHANGED <<child, late, status>>

PollShut ==
    /\ at = "shut_poll"
    /\ \E after \in Polled :
        /\ child' = after.child
        /\ IF after.raises THEN Raise(after.session, "ptrace-stop") ELSE Go(after.session, "shut")
    /\ UNCHANGED <<pipe, late, status>>

ShutDeadline ==
    /\ at \in {"shut", "shut_drain"} /\ late /\ ~Settled
    /\ IF at = "shut" /\ session.reaped
       THEN Go(session, "shut_drain") /\ late' = FALSE
       ELSE Raise(session, "shutdown-timeout") /\ UNCHANGED late
    /\ UNCHANGED <<child, pipe, status>>

JudgeExitOnly ==                               \* mutant: the exit stop need not have been seen
    /\ at \in {"shut", "shut_drain"} /\ Settled
    /\ IF session.buffer # <<>> THEN Raise(session, "trailing-output")
       ELSE IF child.code # "zero" THEN Raise(session, "candidate-exit")
       ELSE Go([session EXCEPT !.clean = session.failure = "none"], "result")
    /\ UNCHANGED <<child, pipe, late, status>>

Judge ==
    /\ at \in {"shut", "shut_drain"} /\ Settled
    /\ IF session.buffer # <<>> THEN Raise(session, "trailing-output")
       ELSE IF child.code # "zero" THEN Raise(session, "candidate-exit")
       ELSE IF session.final \in {"none", "unavailable"}
            THEN Go([Failed(session, "final-fp-observation-unavailable") EXCEPT !.clean = TRUE], "result")
            ELSE Go([session EXCEPT !.clean = session.failure = "none"], "result")
    /\ UNCHANGED <<child, pipe, late, status>>

(* _abort_and_reap: kill, poll until a deadline, kill and poll once more,  *)
(* then give up on the reaping.  A descendant may have left the group.     *)
Kill(round) ==
    /\ at = IF round = 1 THEN "kill" ELSE "kill_again"
    /\ \E heir \in {child.heir, child.heir /\ ~session.group} :
        child' = [child EXCEPT !.killed = @ \/ child.state \notin {"none", "gone"}, !.heir = heir]
    /\ Go(session, IF round = 1 THEN "reap" ELSE "reap_again")
    /\ late' = FALSE
    /\ UNCHANGED <<pipe, status>>

Aborted == IF session.closing THEN "result" ELSE "idle"

(* What a poll raises is recorded; the candidate is killed already.        *)
Checked(after) == IF after.raises THEN Failed(after.session, "ptrace-stop") ELSE after.session

ReapForever ==                                 \* mutant: the reaper waits for the kernel
    /\ at \in {"reap", "reap_again"}
    /\ IF session.reaped THEN Go(session, Aborted) /\ UNCHANGED child
       ELSE \E after \in Polled :
                child' = after.child /\ Go(Checked(after), at)
    /\ UNCHANGED <<pipe, late, status>>

Reap ==
    /\ at \in {"reap", "reap_again"}
    /\ IF session.reaped THEN Go(session, Aborted) /\ UNCHANGED child
       ELSE IF late THEN Go(session, IF at = "reap" THEN "kill_again" ELSE Aborted) /\ UNCHANGED child
       ELSE \E after \in Polled :
                child' = after.child /\ Go(Checked(after), at)
    /\ UNCHANGED <<pipe, late, status>>

(* The end of close, and _result. *)
ResultUnchecked ==                             \* mutant: unavailable is clean whatever is left over
    /\ at = "result"
    /\ LET unavailable == session.failure = "final-fp-observation-unavailable"
       IN /\ Go([session EXCEPT !.clean = @ \/ unavailable], "ended")
          /\ status' = IF unavailable \/ (session.failure = "launch" /\ session.launch = "inconclusive")
                       THEN "inconclusive"
                       ELSE IF session.failure # "none" THEN "failed"
                       ELSE IF session.clean THEN "supported" ELSE "inconclusive"
    /\ UNCHANGED <<child, pipe, late>>

Result ==
    /\ at = "result"
    /\ LET unavailable == session.failure = "final-fp-observation-unavailable"
           clean == \/ session.clean
                    \/ /\ unavailable /\ Settled
                       /\ session.buffer = <<>> /\ child.code = "zero"
       IN /\ Go([session EXCEPT !.clean = clean], "ended")
          /\ status' =
               IF unavailable \/ (session.failure = "launch" /\ session.launch = "inconclusive")
               THEN "inconclusive"
               ELSE IF session.failure # "none" THEN "failed"
               ELSE IF clean THEN "supported"
               ELSE IF session.launch = "none" THEN "inconclusive" ELSE session.launch
    /\ UNCHANGED <<child, pipe, late>>

SessionStep ==
    \/ \E works \in BOOLEAN : Spawn(works)
    \/ StartStop \/ ExecStop \/ LaunchFails
    \/ BeginRequest \/ PumpRequest \/ PollRequest \/ DrainRequest \/ TakeLine
    \/ QuietOver \/ QuietPump
    \/ BeginClose \/ PumpShut \/ PollShut \/ ShutDeadline \/ Judge
    \/ \E round \in 1..2 : Kill(round)
    \/ Reap \/ Result

TransportNext == ChildStep \/ Tick \/ Leave \/ SessionStep

(* The session runs and time passes; nothing is expected of the candidate. *)
TransportSpec ==
    /\ TransportInit /\ [][TransportNext]_transportVars
    /\ WF_transportVars(SessionStep) /\ WF_transportVars(Tick)

-----------------------------------------------------------------------------
(* Properties *)

(* Nothing but the answers to the first frames, in order, each whole:      *)
(* between two of them there is only the beginning of the later one.       *)
OnlyAnswers(bytes, count) ==
    /\ \A frame \in 1..count : \E i \in DOMAIN bytes : bytes[i] = frame
    /\ \A i \in DOMAIN bytes : bytes[i] \in (1..count) \cup {Half}
    /\ \A i, j \in DOMAIN bytes :
        i < j /\ bytes[i] # Half /\ bytes[j] # Half => bytes[i] < bytes[j]

(* "supported" means that everything the candidate ever wrote is the       *)
(* answers that were taken, in order and whole (the answers to all frames  *)
(* unless run was left by an exception), that it exited by itself with 0   *)
(* and was reaped, and that its final FP state was observed at the exit    *)
(* stop; a session that only lacks an observation is inconclusive, not     *)
(* failed.                                                                 *)
SupportedIsEarned ==
    /\ status = "supported" =>
        /\ OnlyAnswers(child.wrote, Len(session.responses))
        /\ session.responses = [i \in 1..Len(session.responses) |-> i]
        /\ session.left \/ Len(session.responses) = FrameCount
        /\ session.buffer = <<>> /\ pipe = <<>>
        /\ child.state = "gone" /\ child.code = "zero" /\ ~child.killed /\ ~child.heir
        /\ session.launch = "observed" /\ session.final = "good"
    /\ status = "inconclusive" =>
        session.launch \in {"none", "inconclusive"} \/ session.final \in {"none", "unavailable"}
    /\ at = "ended" => status \in {"supported", "failed", "inconclusive"}

(* What the driver relies on: of a closed session, however its run ended   *)
(* and whatever the candidate did, the result is one that the driver is    *)
(* prepared for, and "supported" is never a run that fell short.           *)
Outcome ==
    [sent |-> session.sent, answered |-> Len(session.responses),
     strange |-> \E i \in DOMAIN session.responses : session.responses[i] # i,
     trailing |-> session.buffer # <<>>, status |-> status, clean |-> session.clean,
     observed |-> session.launch = "observed" /\ session.final \in {"good", "drift"}]

ResultIsAsPromised ==
    at = "ended" => Outcome \in IF session.left THEN ClosedSessions(FrameCount)
                               ELSE ReturnedSessions(FrameCount)

(* "queued response bytes retain precedence over the early-exit            *)
(* classification": before its deadline a request is not given up for the  *)
(* exit of the candidate while its answer is in the pipe.                  *)
QueuedResponseWins ==
    [][session.failure = "none" /\ session'.failure = "candidate-exited" /\ ~late =>
        ~HasLine(session.buffer \o pipe)]_transportVars

(* Every session ends with a result, though the candidate hangs, cannot be *)
(* killed, or leaves a descendant holding its pipes.                       *)
SessionEnds == <>(at = "ended")
=============================================================================
