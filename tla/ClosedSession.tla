----------------------------- MODULE ClosedSession -----------------------------
(***************************************************************************)
(* What ExactCandidateSession promises the driver of an attempt about a    *)
(* session that was closed: ExactTransport keeps the promise, ExactAttempt *)
(* relies on nothing else.                                                 *)
(***************************************************************************)
EXTENDS Integers

(* sent and answered: requests and lines that were taken as their answers; *)
(* strange: the last one is not the answer to its request; trailing: there *)
(* was more than that; observed: both FP states are there.                 *)
ClosedSessions(count) ==
    {s \in [sent : 0..count, answered : 0..count, strange : BOOLEAN, trailing : BOOLEAN,
            status : {"supported", "failed", "inconclusive"}, clean : BOOLEAN, observed : BOOLEAN] :
        /\ s.answered \in {s.sent - 1, s.sent}
        /\ s.strange => s.answered = s.sent /\ s.status # "supported"
        /\ s.clean => ~s.trailing /\ s.status # "failed"
        /\ s.status = "supported" => s.clean /\ s.observed
        /\ s.status = "inconclusive" => ~s.observed}

(* run came to its end: short of an answer nothing is supported.           *)
ReturnedSessions(count) ==
    {s \in ClosedSessions(count) : s.status = "supported" => s.answered = count}
=============================================================================
