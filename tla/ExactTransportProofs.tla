------------------------- MODULE ExactTransportProofs -------------------------
(***************************************************************************)
(* One candidate session, for any number of frames and writes.  While no   *)
(* failure is recorded, what the candidate wrote is what was taken as      *)
(* answers, then the buffer, then the pipe; what was taken are the first   *)
(* answers in order; and nobody was killed.  The first failure ends all of *)
(* that, so the invariant says nothing of the stream after it; what a      *)
(* closed session still tells of a failed run is kept apart.               *)
(***************************************************************************)
EXTENDS ExactTransport, FiniteSetTheorems, SequenceTheorems, TLAPS

Tokens == Lines \cup {Half, Flood}

Codes == {"none", "launch", "io-timeout", "stdout-cap", "stdin-write", "trailing-output",
          "candidate-exited", "response-request-id-mismatch", "extra-output", "shutdown-timeout",
          "candidate-exit", "ptrace-stop", "final-fp-state-drift", "final-fp-observation-unavailable"}

(* What is raised after the launch. *)
Reasons == Codes \ {"none", "launch", "final-fp-observation-unavailable"}

Starting == {"prelaunch", "start", "exec"}
Requesting == {"pump", "poll", "drain", "take"}
Shutting == {"shut", "shut_poll", "shut_drain"}
Aborting == {"kill", "reap", "kill_again", "reap_again"}
Over == {"result", "ended"}
Places == {"prelaunch", "start", "exec", "idle", "quiet"} \cup Requesting \cup Shutting
          \cup Aborting \cup Over

Children == [state : {"none", "traced", "running", "signalled", "stopped", "held", "dying",
                      "zombie", "gone"},
             code : {"none", "zero", "other", "killed"}, wrote : Seq(Tokens),
             killed : BOOLEAN, heir : BOOLEAN]

Fields == [launch : {"none", "observed", "failed", "inconclusive"}, group : BOOLEAN,
           sent : 0..FrameCount, pending : BOOLEAN, sending : BOOLEAN, buffer : Seq(Tokens),
           responses : Seq(Lines), failure : Codes,
           final : {"none", "good", "drift", "unavailable"}, reaped : BOOLEAN, eof : BOOLEAN,
           clean : BOOLEAN, closing : BOOLEAN, left : BOOLEAN]

Typed ==
    /\ child \in Children /\ pipe \in Seq(Tokens) /\ late \in BOOLEAN /\ at \in Places
    /\ session \in Fields /\ status \in {"none", "supported", "failed", "inconclusive"}

(* How much of what the candidate wrote the answers taken so far hold.     *)
Consumed == Len(child.wrote) - Len(session.buffer) - Len(pipe)

(* The rest is in the buffer and the pipe. *)
Stream ==
    /\ Consumed \in Nat
    /\ \A k \in DOMAIN session.buffer : /\ session.buffer[k] = child.wrote[Consumed + k]
                                        /\ session.buffer[k] # Flood
    /\ \A k \in DOMAIN pipe : pipe[k] = child.wrote[Consumed + Len(session.buffer) + k]

(* What was consumed are the first answers, in order and whole. *)
Taken ==
    /\ \A i \in DOMAIN session.responses : session.responses[i] = i
    /\ \A f \in 1..Len(session.responses) : \E k \in 1..Consumed : child.wrote[k] = f
    /\ \A k \in 1..Consumed : child.wrote[k] \in (1..Len(session.responses)) \cup {Half}
    /\ \A j, k \in 1..Consumed :
        j < k /\ child.wrote[j] # Half /\ child.wrote[k] # Half => child.wrote[j] < child.wrote[k]

Counted ==
    /\ ~session.left =>
        Len(session.responses) = IF at \in Requesting THEN session.sent - 1 ELSE session.sent
    /\ at \in Shutting \cup Over => session.left \/ session.sent = FrameCount

(* While no failure is recorded nobody was killed, and a session that ends *)
(* has earned it, unless it was left before there was a candidate.         *)
Sound ==
    session.failure = "none" =>
        /\ Stream /\ Taken /\ Counted
        /\ ~child.killed /\ at \notin Aborting
        /\ session.reaped => child.state = "gone"
        /\ session.final \in {"none", "good"}
        /\ at \in Over =>
            \/ session.launch = "none" /\ ~session.clean
            \/ /\ session.clean /\ Settled /\ session.buffer = <<>>
               /\ child.code = "zero" /\ session.final = "good"

(* The end of the file is seen once nobody can write any more. *)
EofIsLast == session.eof => pipe = <<>> /\ NoWriter

(* The final FP state is observed once, at the exit stop. *)
FinalSeenOnce == session.final # "none" => child.state \in {"held", "dying", "zombie", "gone"}

Unavailable ==
    session.failure = "final-fp-observation-unavailable" =>
        session.final = "unavailable" \/ (session.final = "none" /\ at \in Over)

Verdict ==
    /\ status # "none" <=> at = "ended"
    /\ status = "supported" => session.failure = "none"
    /\ status = "inconclusive" => \/ session.failure = "final-fp-observation-unavailable"
                                  \/ session.launch \in {"none", "inconclusive"}
    /\ status = "supported" => session.clean
    /\ status = "failed" => session.failure \notin {"none", "final-fp-observation-unavailable"}

(* There is no child before the fork, and a line where one is taken. *)
Placed ==
    /\ at = "prelaunch" => child.state = "none"
    /\ at = "take" => HasLine(session.buffer)

(* Without the observation of the launch there is none of the exit. *)
Launched ==
    /\ at \in Starting => session.failure = "none" /\ session.launch = "none" /\ session.final = "none"
    /\ session.failure = "launch" => session.launch # "observed"
    /\ session.final \in {"good", "drift"} => session.launch = "observed"

(* Every line that was taken answers its own request, but the last may be  *)
(* another when it is the failure.  This holds after any failure: unlike   *)
(* Taken and Counted it is what a closed session still tells.              *)
Replies ==
    /\ Len(session.responses) \in {session.sent - 1, session.sent}
    /\ at \in Requesting => Len(session.responses) = session.sent - 1
    /\ \A i \in DOMAIN session.responses :
        \/ session.responses[i] = i
        \/ i = session.sent /\ at \notin Requesting /\ session.failure # "none"

(* A session that was left does not return to its requests; the shutdown   *)
(* begins without a failure; nothing is clean before it was judged.        *)
Ending ==
    /\ session.left => session.closing /\ at \in Shutting \cup Aborting \cup Over
    /\ at \in Shutting => \/ session.failure \in {"none", "final-fp-observation-unavailable"}
                          \/ session.final = "drift"
    /\ session.clean => /\ at \in Over /\ session.buffer = <<>>
                        /\ session.failure \in {"none", "final-fp-observation-unavailable"}

Inv == /\ Typed /\ Sound /\ EofIsLast /\ FinalSeenOnce /\ Unavailable /\ Placed /\ Verdict
       /\ Launched /\ Replies /\ Ending

(* The fields that only closing and judging change. *)
Rest(s) == s.clean = session.clean /\ s.closing = session.closing /\ s.left = session.left

-----------------------------------------------------------------------------
LEMMA TokenFacts ==
    /\ Half \notin Lines /\ Flood \notin Lines /\ Half # Flood /\ Lines \subseteq Tokens
    /\ Half \notin Frames /\ Tokens \subseteq Nat /\ Frames \subseteq Lines
    BY TransportAssumption DEF Half, Flood, Lines, Frames, Wrong, Tokens

LEMMA Lengths ==
    ASSUME NEW written \in Nat, NEW buffered \in Nat, NEW piped \in Nat
    PROVE  /\ written - buffered - piped <= written
           /\ written - (buffered + piped) - 0 = written - buffered - piped
           /\ (written - buffered - piped) + buffered + piped = written
           /\ (written - buffered - piped) + buffered + (piped + 1) = written + 1
    OBVIOUS

(* The first line of a buffer that has one. *)
LEMMA LineEndIsFirst ==
    ASSUME NEW bytes \in Seq(Tokens), HasLine(bytes)
    PROVE  /\ LineEnd(bytes) \in DOMAIN bytes /\ bytes[LineEnd(bytes)] \in Lines
           /\ \A j \in 1..(LineEnd(bytes) - 1) : bytes[j] \notin Lines
<1> DEFINE less == {ss \in Nat \X Nat : ss[1] < ss[2]}
           ends == {i \in DOMAIN bytes : bytes[i] \in Lines}
<1>1. IsWellFoundedOn(less, Nat)
    BY NatLessThanWellFounded DEF OpToRel
<1>2. ends \subseteq Nat /\ ends # {} /\ DOMAIN bytes = 1..Len(bytes) /\ Len(bytes) \in Nat
    BY DEF HasLine
<1> HIDE DEF less
<1>3. PICK first \in ends : \A x \in ends : ~(<<x, first>> \in less)
    <2> HIDE DEF ends
    <2>1. QED
        BY <1>1, <1>2, WFMin
<1>4. ASSUME NEW j \in 1..(first - 1) PROVE bytes[j] \notin Lines
    <2>1. j \in DOMAIN bytes /\ j < first /\ j \in Nat /\ first \in Nat
        BY <1>2, <1>3
    <2>2. <<j, first>> \in less
        BY <2>1 DEF less
    <2>3. QED
        BY <1>3, <2>1, <2>2
<1>5. QED
    BY <1>3, <1>4 DEF LineEnd

LEMMA InitialTransport == TransportInit => Inv
<1> SUFFICES ASSUME TransportInit PROVE Inv
    OBVIOUS
<1>1. Typed
    <2>1. <<>> \in Seq(Tokens) /\ <<>> \in Seq(Lines) /\ 0 \in 0..FrameCount
        BY TransportAssumption
    <2>2. child \in Children
        BY <2>1 DEF TransportInit, Children
    <2>3. session \in Fields
        BY <2>1 DEF TransportInit, Fields, Codes
    <2>4. QED
        BY <2>1, <2>2, <2>3 DEF TransportInit, Typed, Places
<1>2. Stream /\ Taken /\ Counted
    BY DEF TransportInit, Stream, Taken, Counted, Consumed, Requesting, Shutting, Over
<1>3. QED
    BY <1>1, <1>2 DEF TransportInit, Inv, Sound, Aborting, Over, EofIsLast, NoWriter, FinalSeenOnce,
        Unavailable, Placed, Verdict, Launched, Replies, Ending, Starting, Requesting, Shutting

-----------------------------------------------------------------------------
(* The candidate. *)

(* What the invariant needs of a step of the candidate other than a write. *)
LEMMA CandidateMoves ==
    ASSUME Inv, NEW c \in Children, Candidate(c), pipe' = pipe,
           c.wrote = child.wrote, c.killed = child.killed,
           \/ c.state = child.state /\ c.code = child.code /\ (c.heir => child.heir)
           \/ /\ child.state \in {"traced", "running", "signalled", "stopped", "held", "dying"}
              /\ \/ child.state \in {"traced", "running", "signalled"}
                 \/ c.state \in {"held", "dying", "zombie", "gone"}
    PROVE  Inv'
<1>1. child' = c /\ UNCHANGED <<late, at, session, status, pipe>>
    BY DEF Candidate
<1>2. Typed'
    BY <1>1 DEF Inv, Typed
<1>3. Consumed' = Consumed
    BY <1>1 DEF Consumed
<1>4. Stream => Stream'
    BY <1>1, <1>3 DEF Stream
<1>5. Taken => Taken'
    BY <1>1, <1>3 DEF Taken
<1>6. Counted => Counted'
    BY <1>1 DEF Counted, HasLine
<1>7. Sound'
    BY <1>1, <1>4, <1>5, <1>6 DEF Inv, Sound, Settled, EofIsLast, NoWriter
<1>8. EofIsLast' /\ FinalSeenOnce' /\ Unavailable' /\ Placed' /\ Verdict'
    BY <1>1 DEF Inv, EofIsLast, NoWriter, FinalSeenOnce, Unavailable, Placed, Verdict
<1>9. Launched' /\ Replies' /\ Ending'
    BY <1>1 DEF Inv, Launched, Replies, Ending
<1>10. QED
    BY <1>2, <1>7, <1>8, <1>9 DEF Inv

LEMMA WriteStep ==
    ASSUME Inv, NEW token \in Lines \cup {Half, Flood}, Write(token) PROVE Inv'
<1>1. /\ child' = [child EXCEPT !.wrote = Append(child.wrote, token)] /\ pipe' = Append(pipe, token)
      /\ child.state = "running" \/ child.heir
      /\ UNCHANGED <<late, at, session, status>>
    BY DEF Write, Candidate, Active
<1>2. child \in Children /\ pipe \in Seq(Tokens) /\ session \in Fields /\ token \in Tokens
    BY DEF Inv, Typed, Tokens
<1>3. /\ child'.wrote = Append(child.wrote, token) /\ child'.state = child.state
      /\ child'.killed = child.killed /\ child'.heir = child.heir /\ child'.code = child.code
      /\ child.wrote \in Seq(Tokens) /\ child'.wrote \in Seq(Tokens) /\ child' \in Children
    <2>1. child.wrote \in Seq(Tokens)
        BY <1>2 DEF Children
    <2>2. Append(child.wrote, token) \in Seq(Tokens)
        BY <1>2, <2>1
    <2>3. QED
        BY <1>1, <1>2, <2>1, <2>2 DEF Children
<1>4. Typed'
    BY <1>1, <1>2, <1>3 DEF Inv, Typed
<1>5. Len(session.buffer) \in Nat /\ Len(pipe) \in Nat /\ Len(child.wrote) \in Nat
    BY <1>2, <1>3 DEF Fields
<1>6. Len(pipe') = Len(pipe) + 1 /\ Len(child'.wrote) = Len(child.wrote) + 1
    BY <1>1, <1>2, <1>3
<1>7. Consumed' = Consumed
    BY <1>1, <1>5, <1>6 DEF Consumed
<1>8. \A k \in 1..Len(child.wrote) : child'.wrote[k] = child.wrote[k]
    BY <1>3
<1>9. Stream => Stream'
    <2> SUFFICES ASSUME Stream PROVE Stream'
        OBVIOUS
    <2>1. Consumed \in Nat /\ Consumed + Len(session.buffer) + Len(pipe) = Len(child.wrote)
        BY <1>5 DEF Stream, Consumed
    <2>2. ASSUME NEW k \in DOMAIN session.buffer
          PROVE  session.buffer[k] = child'.wrote[Consumed + k] /\ session.buffer[k] # Flood
        <3>1. DOMAIN session.buffer = 1..Len(session.buffer)
            BY <1>2 DEF Fields
        <3>2. Consumed + k \in 1..Len(child.wrote)
            BY <1>5, <2>1, <3>1
        <3>3. QED
            BY <1>8, <3>2 DEF Stream
    <2>3. ASSUME NEW k \in 1..(Len(pipe) + 1)
          PROVE  pipe'[k] = child'.wrote[Consumed + Len(session.buffer) + k]
        <3>1. CASE k \in 1..Len(pipe)
            <4>1. Consumed + Len(session.buffer) + k \in 1..Len(child.wrote)
                BY <1>2, <1>5, <2>1, <3>1
            <4>2. pipe'[k] = pipe[k]
                BY <1>1, <1>2, <3>1
            <4>3. QED
                BY <1>8, <3>1, <4>1, <4>2 DEF Stream
        <3>2. CASE k = Len(pipe) + 1
            <4>1. Consumed + Len(session.buffer) + k = Len(child.wrote) + 1
                <5>1. Consumed + Len(session.buffer) + (Len(pipe) + 1) = Len(child.wrote) + 1
                    BY <1>5, Lengths DEF Consumed
                <5>2. QED
                    BY <3>2, <5>1
            <4>2. pipe'[k] = token /\ child'.wrote[Len(child.wrote) + 1] = token
                BY <1>1, <1>2, <1>3, <3>2
            <4>3. QED
                BY <4>1, <4>2
        <3>3. QED
            BY <1>5, <3>1, <3>2
    <2>4. DOMAIN pipe' = 1..(Len(pipe) + 1)
        BY <1>1, <1>2
    <2>5. QED
        BY <1>1, <1>7, <2>1, <2>2, <2>3, <2>4 DEF Stream
<1>10. Stream /\ Taken => Taken'
    <2> SUFFICES ASSUME Stream, Taken PROVE Taken'
        OBVIOUS
    <2>1. Consumed \in Nat /\ Consumed <= Len(child.wrote)
        <3>1. Consumed \in Nat
            BY DEF Stream
        <3>2. Consumed <= Len(child.wrote)
            BY <1>5, Lengths DEF Consumed
        <3>3. QED
            BY <3>1, <3>2
    <2>2. \A k \in 1..Consumed : child'.wrote[k] = child.wrote[k]
        BY <1>5, <1>8, <2>1
    <2> DEFINE n == Len(session.responses)
    <2>3. \A f \in 1..n : \E k \in 1..Consumed : child'.wrote[k] = f
        BY <2>2 DEF Taken
    <2>4. \A k \in 1..Consumed : child'.wrote[k] \in (1..n) \cup {Half}
        BY <2>2 DEF Taken
    <2>5. ASSUME NEW j \in 1..Consumed, NEW k \in 1..Consumed, j < k,
                 child'.wrote[j] # Half, child'.wrote[k] # Half
          PROVE  child'.wrote[j] < child'.wrote[k]
        BY <2>2, <2>5 DEF Taken
    <2> HIDE DEF n
    <2>6. session'.responses = session.responses /\ Len(session'.responses) = n
          /\ Consumed' = Consumed
        BY <1>1, <1>7 DEF n
    <2>7. \A i \in DOMAIN session'.responses : session'.responses[i] = i
        BY <2>6 DEF Taken
    <2>8. QED
        BY <2>3, <2>4, <2>5, <2>6, <2>7 DEF Taken
<1>11. Counted => Counted'
    BY <1>1 DEF Counted, HasLine
<1>12. Sound'
    BY <1>1, <1>3, <1>9, <1>10, <1>11 DEF Inv, Sound, Settled
<1>13. EofIsLast' /\ FinalSeenOnce' /\ Unavailable' /\ Placed' /\ Verdict'
    BY <1>1, <1>3 DEF Inv, EofIsLast, NoWriter, FinalSeenOnce, Unavailable, Placed, Verdict
<1>14. Launched' /\ Replies' /\ Ending'
    BY <1>1 DEF Inv, Launched, Replies, Ending
<1>15. QED
    BY <1>4, <1>12, <1>13, <1>14 DEF Inv

LEMMA CandidateStep == ASSUME Inv, ChildStep PROVE Inv'
<1>1. child \in Children
    BY DEF Inv, Typed
<1>2. CASE \E token \in Lines \cup {Half, Flood} : Write(token)
    BY <1>2, WriteStep
<1>3. CASE \E code \in {"zero", "other", "killed"} : Exit(code)
    <2>1. PICK code \in {"zero", "other", "killed"}, state \in {"stopped", "zombie"} :
              /\ child.state \in {"traced", "running", "signalled"} /\ pipe' = pipe
              /\ Candidate([child EXCEPT !.state = state, !.code = code])
        BY <1>3 DEF Exit
    <2> DEFINE c == [child EXCEPT !.state = state, !.code = code]
    <2>2. c \in Children /\ c.wrote = child.wrote /\ c.killed = child.killed
        BY <1>1 DEF Children
    <2>3. QED
        BY <2>1, <2>2, CandidateMoves
<1>4. CASE Fork
    <2> DEFINE c == [child EXCEPT !.heir = TRUE]
    <2>1. c \in Children /\ c.wrote = child.wrote /\ c.killed = child.killed
        BY <1>1 DEF Children
    <2>2. QED
        BY <1>4, <2>1, CandidateMoves DEF Fork, Active
<1>5. CASE Release
    <2> DEFINE c == [child EXCEPT !.heir = FALSE]
    <2>1. /\ c \in Children /\ c.wrote = child.wrote /\ c.killed = child.killed
          /\ c.state = child.state /\ c.code = child.code /\ ~c.heir
        BY <1>1 DEF Children
    <2>2. QED
        BY <1>5, <2>1, CandidateMoves DEF Release
<1>6. CASE Signal
    <2> DEFINE c == [child EXCEPT !.state = "signalled"]
    <2>1. c \in Children /\ c.wrote = child.wrote /\ c.killed = child.killed
        BY <1>1 DEF Children
    <2>2. QED
        BY <1>6, <2>1, CandidateMoves DEF Signal, Active
<1>7. CASE Die
    <2> DEFINE c == [child EXCEPT !.state = "zombie",
                                  !.code = IF child.code = "none" THEN "killed" ELSE child.code]
    <2>1. /\ c \in Children /\ c.wrote = child.wrote /\ c.killed = child.killed
          /\ c.state = "zombie"
        BY <1>1 DEF Children
    <2>2. Candidate(c) /\ pipe' = pipe /\ child.state \in {"dying", "stopped", "held"}
        BY <1>7 DEF Die
    <2> HIDE DEF c
    <2>3. QED
        BY <2>1, <2>2, CandidateMoves
<1>8. QED
    BY <1>2, <1>3, <1>4, <1>5, <1>6, <1>7 DEF ChildStep

LEMMA TickStep == ASSUME Inv, Tick PROVE Inv'
<1>1. UNCHANGED <<child, pipe, at, session, status>> /\ late' \in BOOLEAN
    BY DEF Tick
<1>2. Consumed' = Consumed
    BY <1>1 DEF Consumed
<1>3. (Stream => Stream') /\ (Taken => Taken') /\ (Counted => Counted')
    BY <1>1, <1>2 DEF Stream, Taken, Counted, HasLine
<1>4. Sound'
    BY <1>1, <1>3 DEF Inv, Sound, Settled
<1>5. Launched' /\ Replies' /\ Ending'
    BY <1>1 DEF Inv, Launched, Replies, Ending
<1>6. QED
    BY <1>1, <1>4, <1>5 DEF Inv, Typed, EofIsLast, NoWriter, FinalSeenOnce, Unavailable, Placed,
        Verdict

-----------------------------------------------------------------------------
(* The session: steps that record a failure, that pump, and that poll.     *)

LEMMA RaiseStep ==
    ASSUME Inv, NEW s \in Fields, NEW code \in Reasons \cup {"launch"},
           Raise(s, code), child' = child, pipe' \in {pipe, <<>>}, late' = late, status' = status,
           at \notin Over, s.failure = session.failure, s.final = session.final, Rest(s),
           IF code = "launch" THEN at \in Starting /\ s.launch # "observed"
                              ELSE s.launch = session.launch,
           s.sent = session.sent, Len(s.responses) \in {s.sent - 1, s.sent},
           \A i \in DOMAIN s.responses : s.responses[i] = i \/ i = s.sent,
           s.eof => pipe' = <<>> /\ NoWriter
    PROVE  Inv'
<1>1. at' = "kill" /\ session' = [s EXCEPT !.failure = IF @ = "none" THEN code ELSE @]
    BY DEF Raise, Go, Failed
<1>2. /\ session' \in Fields /\ session'.failure # "none"
      /\ session'.failure = session.failure \/ session'.failure = code
      /\ session'.final = session.final /\ session'.eof = s.eof /\ Rest(session')
      /\ session'.launch = s.launch /\ session'.sent = s.sent /\ session'.responses = s.responses
    BY <1>1 DEF Fields, Codes, Reasons, Rest
<1>3. Typed'
    <2>1. <<>> \in Seq(Tokens) /\ pipe \in Seq(Tokens)
        BY DEF Inv, Typed
    <2>2. QED
        BY <1>1, <1>2, <2>1 DEF Inv, Typed, Places, Aborting
<1>4. Sound'
    BY <1>2 DEF Sound
<1>5. EofIsLast' /\ FinalSeenOnce' /\ Unavailable' /\ Placed'
    BY <1>1, <1>2 DEF Inv, EofIsLast, NoWriter, FinalSeenOnce, Unavailable, Placed, Reasons
<1>6. Verdict'
    BY <1>1, <1>2 DEF Inv, Verdict, Over
<1>7. Launched'
    BY <1>1, <1>2 DEF Inv, Launched, Starting, Reasons
<1>8. Replies'
    BY <1>1, <1>2 DEF Replies, Requesting
<1>9. Ending'
    BY <1>1, <1>2 DEF Inv, Ending, Rest, Shutting, Aborting
<1>10. QED
    BY <1>3, <1>4, <1>5, <1>6, <1>7, <1>8, <1>9 DEF Inv

(* Where control may go without the invariant's counting being disturbed. *)
Onward(next) ==
    /\ {at, next} \cap (Over \cup Aborting) = {} /\ next \in Places \ {"prelaunch"}
    /\ next \in Requesting <=> at \in Requesting
    /\ next \in Shutting <=> at \in Shutting
    /\ next \in Starting => at \in Starting

LEMMA PumpedFields ==
    ASSUME Inv
    PROVE  /\ Pumped \in Fields /\ Pumped.buffer = session.buffer \o pipe
           /\ Pumped.eof = NoWriter
           /\ Pumped.responses = session.responses /\ Pumped.sent = session.sent
           /\ Pumped.failure = session.failure /\ Pumped.final = session.final
           /\ Pumped.reaped = session.reaped /\ Rest(Pumped)
           /\ Pumped.launch = session.launch /\ Pumped.sending = session.sending
           /\ Pumped.pending = session.pending
<1>1. session \in Fields /\ pipe \in Seq(Tokens) /\ child \in Children
    BY DEF Inv, Typed
<1>2. session.buffer \o pipe \in Seq(Tokens)
    BY <1>1 DEF Fields
<1>3. QED
    BY <1>1, <1>2 DEF Pumped, Fields, Rest, NoWriter

LEMMA PumpStep ==
    ASSUME Inv, ~PumpRaises, child' = child, pipe' = <<>>, late' = late, status' = status,
           Onward(at'), at' = "take" => HasLine(session.buffer \o pipe),
           NEW pending \in BOOLEAN, NEW sending \in BOOLEAN,
           session' = [Pumped EXCEPT !.pending = pending, !.sending = sending]
    PROVE  Inv'
<1>1. session \in Fields /\ pipe \in Seq(Tokens) /\ child \in Children
    BY DEF Inv, Typed
<1>2. /\ session' \in Fields /\ session'.buffer = session.buffer \o pipe
      /\ session'.eof = NoWriter
      /\ session'.responses = session.responses /\ session'.sent = session.sent
      /\ session'.failure = session.failure /\ session'.final = session.final
      /\ session'.reaped = session.reaped /\ session'.launch = session.launch /\ Rest(session')
    BY PumpedFields DEF Fields, Rest
<1>3. Typed'
    BY <1>1, <1>2 DEF Inv, Typed, Onward
<1>4. /\ session.buffer \in Seq(Tokens) /\ Len(child.wrote) \in Nat
      /\ Len(session.buffer) \in Nat /\ Len(pipe) \in Nat
    BY <1>1 DEF Fields, Children
<1>5. Len(session.buffer \o pipe) = Len(session.buffer) + Len(pipe)
    BY <1>1, <1>4
<1>6. Consumed' = Consumed
    <2>1. Len(pipe') = 0 /\ Len(session'.buffer) = Len(session.buffer) + Len(pipe)
        BY <1>2, <1>5
    <2>2. Consumed' = Len(child.wrote) - (Len(session.buffer) + Len(pipe)) - 0
        BY <2>1 DEF Consumed
    <2>3. Len(child.wrote) - (Len(session.buffer) + Len(pipe)) - 0
            = Len(child.wrote) - Len(session.buffer) - Len(pipe)
        BY <1>4, Lengths
    <2>4. Consumed = Len(child.wrote) - Len(session.buffer) - Len(pipe)
        BY DEF Consumed
    <2>5. QED
        BY <2>2, <2>3, <2>4
<1>7. Stream => Stream'
    <2> SUFFICES ASSUME Stream PROVE Stream'
        OBVIOUS
    <2>1. ASSUME NEW k \in DOMAIN (session.buffer \o pipe)
          PROVE  /\ (session.buffer \o pipe)[k] = child.wrote[Consumed + k]
                 /\ (session.buffer \o pipe)[k] # Flood
        <3>1. k \in 1..(Len(session.buffer) + Len(pipe))
            BY <1>1, <1>4
        <3>2. CASE k <= Len(session.buffer)
            BY <1>1, <1>4, <3>1, <3>2 DEF Stream
        <3>3. CASE k > Len(session.buffer)
            <4> DEFINE m == k - Len(session.buffer)
            <4>1. m \in DOMAIN pipe /\ Consumed + Len(session.buffer) + m = Consumed + k
                BY <1>1, <1>4, <3>1, <3>3 DEF Stream
            <4>2. (session.buffer \o pipe)[k] = pipe[m]
                BY <1>1, <1>4, <3>1, <3>3
            <4>3. pipe[m] = child.wrote[Consumed + Len(session.buffer) + m]
                BY <4>1 DEF Stream
            <4>4. pipe[m] # Flood
                BY <4>1 DEF PumpRaises
            <4>5. QED
                BY <4>1, <4>2, <4>3, <4>4
        <3>4. QED
            BY <1>4, <3>1, <3>2, <3>3
    <2>2. DOMAIN pipe' = {}
        OBVIOUS
    <2>3. QED
        BY <1>2, <1>6, <2>1, <2>2 DEF Stream
<1>8. Taken => Taken'
    BY <1>2, <1>6 DEF Taken
<1>9. Counted => Counted'
    BY <1>2 DEF Counted, Onward, Rest
<1>10. Sound'
    BY <1>2, <1>7, <1>8, <1>9 DEF Inv, Sound, Onward
<1>11. EofIsLast' /\ FinalSeenOnce' /\ Unavailable' /\ Placed'
    BY <1>2 DEF Inv, EofIsLast, NoWriter, FinalSeenOnce, Unavailable, Placed, Onward
<1>12. Verdict'
    BY <1>2 DEF Inv, Verdict, Onward, Over, Rest
<1>13. Launched' /\ Replies'
    BY <1>2 DEF Inv, Launched, Replies, Onward
<1>14. Ending'
    BY <1>2 DEF Inv, Ending, Onward, Rest, Aborting, Starting, Places, Requesting, Shutting, Over
<1>15. QED
    BY <1>3, <1>10, <1>11, <1>12, <1>13, <1>14 DEF Inv

(* What wait4 may find. *)
LEMMA PolledKinds ==
    ASSUME NEW after \in Polled
    PROVE  \/ after = After(child.state, session, FALSE)
           \/ child.state = "zombie" /\ after = After("gone", [session EXCEPT !.reaped = TRUE], FALSE)
           \/ child.state = "signalled" /\ ~session.reaped /\ after = After("running", session, FALSE)
           \/ child.state = "signalled" /\ after = After("held", session, TRUE)
           \/ /\ child.state = "stopped" /\ ~session.reaped
              /\ \E final \in Finals : \/ after = After("dying", Observed(final), FALSE)
                                      \/ after = After("held", [session EXCEPT !.final = final], TRUE)
    BY DEF Polled

LEMMA PolledSessions ==
    ASSUME NEW after \in Polled
    PROVE  \/ after.session = session
           \/ after.session = [session EXCEPT !.reaped = TRUE]
           \/ \E final \in Finals : \/ after.session = Observed(final)
                                  \/ after.session = [session EXCEPT !.final = final]
<1>1. CASE after = After(child.state, session, FALSE)
    BY <1>1 DEF After
<1>2. CASE after = After("gone", [session EXCEPT !.reaped = TRUE], FALSE)
    BY <1>2 DEF After
<1>3. CASE after = After("running", session, FALSE) \/ after = After("held", session, TRUE)
    BY <1>3 DEF After
<1>4. ASSUME NEW final \in Finals,
             \/ after = After("dying", Observed(final), FALSE)
             \/ after = After("held", [session EXCEPT !.final = final], TRUE)
      PROVE  after.session = Observed(final) \/ after.session = [session EXCEPT !.final = final]
    BY <1>4 DEF After
<1>5. QED
    BY <1>1, <1>2, <1>3, <1>4, PolledKinds

LEMMA FinalsAreObserved ==
    ASSUME NEW final \in Finals
    PROVE  final \in {"good", "drift", "unavailable"} /\ (final # "unavailable" => session.launch = "observed")
    BY DEF Finals

LEMMA PolledFields ==
    ASSUME Inv, at \notin Over, NEW after \in Polled, ~after.raises
    PROVE  LET c == after.child  s == after.session
           IN  /\ c \in Children /\ s \in Fields
               /\ c.wrote = child.wrote /\ c.killed = child.killed /\ c.heir = child.heir
               /\ s.buffer = session.buffer /\ s.responses = session.responses
               /\ s.sent = session.sent /\ s.eof = session.eof /\ s.launch = session.launch
               /\ s.pending = session.pending /\ s.sending = session.sending
               /\ session.failure # "none" => s.failure = session.failure
               /\ s.failure = "none" => /\ session.failure = "none"
                                        /\ s.final \in {session.final, "good"}
               /\ s.reaped => (session.reaped /\ c = child) \/ c.state = "gone"
               /\ s.final # "none" => c.state \in {"held", "dying", "zombie", "gone"}
               /\ s.eof => c.state \in {"zombie", "gone"}
               /\ s.failure = "final-fp-observation-unavailable" => s.final = "unavailable"
               /\ Rest(s)
               /\ session.final # "none" => s.final = session.final
               /\ s.final \in {"good", "drift"} => s.launch = "observed"
               /\ s.failure = "launch" => session.failure = "launch"
               /\ \/ s.failure \in {session.failure, "final-fp-observation-unavailable"}
                  \/ s.final = "drift"
<1>1. child \in Children /\ session \in Fields
    BY DEF Inv, Typed
<1>2. /\ EofIsLast /\ FinalSeenOnce
      /\ session.final \in {"good", "drift"} => session.launch = "observed"
      /\ session.failure = "final-fp-observation-unavailable" => session.final = "unavailable"
    BY DEF Inv, Unavailable, Launched
<1>3. CASE after = After(child.state, session, FALSE)
    <2>1. after.child = child /\ after.session = session
        BY <1>1, <1>3 DEF After, Children
    <2>2. QED
        BY <1>1, <1>2, <2>1 DEF EofIsLast, NoWriter, FinalSeenOnce, Rest
<1>4. CASE /\ child.state = "zombie"
           /\ after = After("gone", [session EXCEPT !.reaped = TRUE], FALSE)
    <2> DEFINE c == [child EXCEPT !.state = "gone"]
               s == [session EXCEPT !.reaped = TRUE]
    <2>1. /\ c \in Children /\ c.state = "gone" /\ c.wrote = child.wrote
          /\ c.killed = child.killed /\ c.heir = child.heir
        BY <1>1 DEF Children
    <2>2. /\ s \in Fields
          /\ s.buffer = session.buffer /\ s.responses = session.responses
          /\ s.sent = session.sent /\ s.eof = session.eof /\ s.launch = session.launch
          /\ s.pending = session.pending /\ s.sending = session.sending
          /\ s.failure = session.failure /\ s.final = session.final /\ Rest(s)
        BY <1>1 DEF Fields, Rest
    <2>3. after.child = c /\ after.session = s
        BY <1>4 DEF After
    <2> HIDE DEF c, s
    <2>4. QED
        BY <1>2, <2>1, <2>2, <2>3
<1>5. CASE /\ child.state = "stopped" /\ ~session.reaped
           /\ \E final \in Finals : after = After("dying", Observed(final), FALSE)
    <2>1. PICK final \in {"good", "drift", "unavailable"} :
              /\ final \in {"good", "drift"} => session.launch = "observed"
              /\ after = After("dying", Observed(final), FALSE)
        BY <1>5, FinalsAreObserved
    <2> DEFINE c == [child EXCEPT !.state = "dying"]
               s == Observed(final)
    <2>2. /\ c \in Children /\ c.state = "dying" /\ c.wrote = child.wrote
          /\ c.killed = child.killed /\ c.heir = child.heir
        BY <1>1 DEF Children
    <2>3. /\ s \in Fields
          /\ s.buffer = session.buffer /\ s.responses = session.responses
          /\ s.sent = session.sent /\ s.eof = session.eof /\ s.launch = session.launch
          /\ s.pending = session.pending /\ s.sending = session.sending
          /\ s.final = final /\ s.reaped = session.reaped
          /\ s.failure = IF final # "good" /\ session.failure = "none"
                         THEN (IF final = "drift" THEN "final-fp-state-drift"
                               ELSE "final-fp-observation-unavailable")
                         ELSE session.failure
          /\ Rest(s)
        BY <1>1 DEF Observed, Failed, Fields, Codes, Rest
    <2>4. after.child = c /\ after.session = s
        BY <2>1 DEF After
    <2> HIDE DEF c, s
    <2>5. session.final = "none" /\ ~session.eof /\ ~session.reaped
        BY <1>1, <1>2, <1>5 DEF FinalSeenOnce, EofIsLast, NoWriter
    <2>6. session.failure # "final-fp-observation-unavailable"
        BY <1>2, <2>5
    <2>7. final \in {"good", "drift", "unavailable"}
          /\ (final \in {"good", "drift"} => session.launch = "observed")
        BY <2>1
    <2>8. /\ session.failure # "none" => s.failure = session.failure
          /\ s.failure = "none" => session.failure = "none" /\ s.final \in {session.final, "good"}
          /\ s.failure = "final-fp-observation-unavailable" => s.final = "unavailable"
          /\ s.failure = "launch" => session.failure = "launch"
          /\ \/ s.failure \in {session.failure, "final-fp-observation-unavailable"}
             \/ s.final = "drift"
        BY <2>3, <2>6, <2>7
    <2>9. QED
        BY <2>2, <2>3, <2>4, <2>5, <2>7, <2>8
<1>6. CASE child.state = "signalled" /\ ~session.reaped /\ after = After("running", session, FALSE)
    <2> DEFINE c == [child EXCEPT !.state = "running"]
    <2>1. /\ c \in Children /\ c.state = "running" /\ c.wrote = child.wrote
          /\ c.killed = child.killed /\ c.heir = child.heir
        BY <1>1 DEF Children
    <2>2. after.child = c /\ after.session = session
        BY <1>6 DEF After
    <2> HIDE DEF c
    <2>3. session.final = "none" /\ ~session.eof
        BY <1>1, <1>2, <1>6 DEF FinalSeenOnce, EofIsLast, NoWriter
    <2>4. QED
        BY <1>1, <1>2, <1>6, <2>1, <2>2, <2>3 DEF Rest
<1>7. \A state, s : After(state, s, TRUE).raises
    BY DEF After
<1>8. /\ after # After("held", session, TRUE)
      /\ \A final \in Finals : after # After("held", [session EXCEPT !.final = final], TRUE)
    BY <1>7
<1>9. \/ after = After(child.state, session, FALSE)
      \/ /\ child.state = "zombie"
         /\ after = After("gone", [session EXCEPT !.reaped = TRUE], FALSE)
      \/ /\ child.state = "stopped" /\ ~session.reaped
         /\ \E final \in Finals : after = After("dying", Observed(final), FALSE)
      \/ child.state = "signalled" /\ ~session.reaped /\ after = After("running", session, FALSE)
    <2> DEFINE Dying(final) == after = After("dying", Observed(final), FALSE)
               Held(final) == after = After("held", [session EXCEPT !.final = final], TRUE)
    <2>1. (\E final \in Finals : Dying(final) \/ Held(final)) => \E final \in Finals : Dying(final)
        BY <1>8
    <2>2. QED
        BY <1>8, <2>1, PolledKinds
<1>10. QED
    BY <1>3, <1>4, <1>5, <1>6, <1>9

LEMMA PollStep ==
    ASSUME Inv, NEW after \in Polled, ~after.raises, child' = after.child, UNCHANGED <<pipe, late, status>>,
           at \notin Over \cup Starting, Onward(at') \/ (at \in Aborting /\ at' = at),
           at' = "take" => HasLine(session.buffer),
           NEW sending \in BOOLEAN, session' = [after.session EXCEPT !.sending = sending]
    PROVE  Inv'
<1> DEFINE c == after.child
           s == after.session
<1>1. /\ c \in Children /\ s \in Fields
      /\ c.wrote = child.wrote /\ c.killed = child.killed /\ c.heir = child.heir
      /\ s.buffer = session.buffer /\ s.responses = session.responses
      /\ s.sent = session.sent /\ s.eof = session.eof /\ s.launch = session.launch
      /\ session.failure # "none" => s.failure = session.failure
      /\ s.failure = "none" => /\ session.failure = "none"
                               /\ s.final \in {session.final, "good"}
      /\ s.reaped => (session.reaped /\ c = child) \/ c.state = "gone"
      /\ s.final # "none" => c.state \in {"held", "dying", "zombie", "gone"}
      /\ s.eof => c.state \in {"zombie", "gone"}
      /\ s.failure = "final-fp-observation-unavailable" => s.final = "unavailable"
      /\ Rest(s)
      /\ session.final # "none" => s.final = session.final
      /\ s.final \in {"good", "drift"} => s.launch = "observed"
      /\ s.failure = "launch" => session.failure = "launch"
      /\ \/ s.failure \in {session.failure, "final-fp-observation-unavailable"}
         \/ s.final = "drift"
    BY PolledFields
<1>2. /\ session' \in Fields
      /\ session'.buffer = session.buffer /\ session'.responses = session.responses
      /\ session'.sent = session.sent /\ session'.eof = session.eof
      /\ session'.launch = session.launch /\ session'.failure = s.failure
      /\ session'.final = s.final /\ session'.reaped = s.reaped /\ Rest(session')
    BY <1>1 DEF Fields, Rest
<1>3. child' = c /\ pipe' = pipe /\ status' = status
    OBVIOUS
<1> HIDE DEF c, s
<1>4. Typed'
    BY <1>1, <1>2, <1>3 DEF Inv, Typed, Onward
<1>5. Consumed' = Consumed
    BY <1>1, <1>2, <1>3 DEF Consumed
<1>6. (Stream => Stream') /\ (Taken => Taken')
    BY <1>1, <1>2, <1>3, <1>5 DEF Stream, Taken
<1>7. Counted /\ session.failure = "none" => Counted'
    BY <1>2 DEF Counted, Onward, Inv, Sound, Rest
<1>8. Sound'
    BY <1>1, <1>2, <1>3, <1>6, <1>7 DEF Inv, Sound, Onward
<1>9. EofIsLast' /\ FinalSeenOnce' /\ Unavailable' /\ Placed'
    BY <1>1, <1>2, <1>3 DEF Inv, EofIsLast, NoWriter, FinalSeenOnce, Unavailable, Placed, Onward, Aborting
<1>10. Verdict'
    BY <1>1, <1>2, <1>3 DEF Inv, Verdict, Onward, Over, Aborting, Rest
<1>11. Launched'
    BY <1>1, <1>2 DEF Inv, Launched, Onward
<1>12. Replies'
    BY <1>1, <1>2 DEF Inv, Replies, Onward, Requesting, Aborting
<1>13. Ending'
    BY <1>1, <1>2 DEF Inv, Ending, Rest, Onward, Aborting, Starting, Places, Requesting, Shutting, Over
<1>14. QED
    BY <1>4, <1>8, <1>9, <1>10, <1>11, <1>12, <1>13 DEF Inv

(* A stop that cannot be continued is recorded, whatever was seen at it.   *)
LEMMA PollRaisesStep ==
    ASSUME Inv, NEW after \in Polled, after.raises, child' = after.child,
           session' = Failed(after.session, "ptrace-stop"), UNCHANGED <<pipe, late, status>>,
           at \notin Over, at' = "kill" \/ (at \in Aborting /\ at' = at)
    PROVE  Inv'
<1>1. child \in Children /\ session \in Fields
    BY DEF Inv, Typed
<1>2. PICK final \in {"none", "good", "drift", "unavailable"} :
          /\ final \in {"good", "drift"} => session.launch = "observed"
          /\ child.state \in {"signalled", "stopped"}
          /\ after = After("held", [session EXCEPT !.final = final], TRUE)
    <2>1. CASE child.state = "signalled" /\ after = After("held", session, TRUE)
        <3>1. session.final = "none"
            BY <1>1, <2>1 DEF Inv, FinalSeenOnce, Fields
        <3>2. [session EXCEPT !.final = "none"] = session
            BY <1>1, <3>1 DEF Fields
        <3>3. QED
            BY <2>1, <3>2
    <2>2. CASE child.state = "stopped" /\ \E final \in Finals :
                  after = After("held", [session EXCEPT !.final = final], TRUE)
        BY <2>2, FinalsAreObserved
    <2>3. QED
        BY <2>1, <2>2, PolledKinds DEF After
<1>3. /\ child' \in Children /\ child'.state = "held" /\ child'.wrote = child.wrote
    BY <1>1, <1>2 DEF After, Children
<1>4. /\ session' \in Fields /\ session'.final = final /\ session'.launch = session.launch
      /\ session'.failure = IF session.failure = "none" THEN "ptrace-stop" ELSE session.failure
      /\ session'.sent = session.sent /\ session'.responses = session.responses
      /\ session'.eof = session.eof /\ Rest(session')
    <2> DEFINE s == [session EXCEPT !.final = final]
    <2>1. after.session = s
        BY <1>2 DEF After
    <2>2. /\ s \in Fields /\ s.final = final /\ s.launch = session.launch
          /\ s.failure = session.failure /\ s.sent = session.sent
          /\ s.responses = session.responses /\ s.eof = session.eof /\ Rest(s)
        BY <1>1 DEF Fields, Rest
    <2>3. session' = [s EXCEPT !.failure = IF s.failure = "none" THEN "ptrace-stop" ELSE s.failure]
        BY <2>1 DEF Failed
    <2> HIDE DEF s
    <2>4. QED
        BY <2>2, <2>3 DEF Fields, Codes, Rest
<1>5. ~session.eof /\ session.failure # "final-fp-observation-unavailable"
    <2>1. session.final = "none"
        BY <1>1, <1>2 DEF Inv, FinalSeenOnce, Fields
    <2>2. QED
        BY <1>2, <2>1 DEF Inv, EofIsLast, NoWriter, Unavailable
<1>6. Typed'
    BY <1>3, <1>4 DEF Inv, Typed, Places, Aborting
<1>7. Sound'
    BY <1>4 DEF Sound
<1>8. EofIsLast' /\ FinalSeenOnce' /\ Unavailable' /\ Placed'
    BY <1>3, <1>4, <1>5 DEF EofIsLast, FinalSeenOnce, Unavailable, Placed, Aborting
<1>9. Verdict'
    BY <1>4 DEF Inv, Verdict, Over, Aborting
<1>10. Launched'
    BY <1>2, <1>4 DEF Inv, Launched, Starting, Aborting
<1>11. Replies'
    BY <1>4 DEF Inv, Replies, Requesting, Aborting
<1>12. Ending'
    BY <1>4 DEF Inv, Ending, Rest, Shutting, Aborting
<1>13. QED
    BY <1>6, <1>7, <1>8, <1>9, <1>10, <1>11, <1>12 DEF Inv

(* A step that only moves control and fields the invariant does not read.  *)
LEMMA MoveStep ==
    ASSUME Inv, NEW s \in Fields, NEW next, Go(s, next), UNCHANGED <<child, pipe, status>>,
           late' \in BOOLEAN, next # "take",
           \/ Onward(next)
           \/ at \in Aborting /\ next \in Aborting \cup {IF session.closing THEN "result" ELSE "idle"},
           s.buffer = session.buffer, s.responses = session.responses, s.sent = session.sent,
           s.failure = session.failure, s.final = session.final, s.reaped = session.reaped,
           s.eof = session.eof, s.launch = session.launch, Rest(s)
    PROVE  Inv'
<1>1. at' = next /\ session' = s
    BY DEF Go
<1>2. Typed'
    BY <1>1 DEF Inv, Typed, Onward, Places, Aborting, Over
<1>3. Consumed' = Consumed
    BY <1>1 DEF Consumed
<1>4. (Stream => Stream') /\ (Taken => Taken')
    BY <1>1, <1>3 DEF Stream, Taken
<1>5. Counted /\ session.failure = "none" => Counted'
    BY <1>1 DEF Counted, Onward, Inv, Sound, Rest
<1>6. Sound'
    BY <1>1, <1>4, <1>5 DEF Inv, Sound, Onward
<1>7. EofIsLast' /\ FinalSeenOnce' /\ Unavailable' /\ Placed'
    BY <1>1 DEF Inv, EofIsLast, NoWriter, FinalSeenOnce, Unavailable, Placed, Onward, Over, Aborting
<1>8. Verdict'
    BY <1>1 DEF Inv, Verdict, Onward, Over, Aborting, Rest
<1>9. Launched' /\ Replies'
    BY <1>1 DEF Inv, Launched, Replies, Onward, Starting, Requesting, Aborting
<1>10. Ending'
    BY <1>1 DEF Inv, Ending, Rest, Onward, Aborting, Starting, Places, Requesting, Shutting, Over
<1>11. QED
    BY <1>2, <1>6, <1>7, <1>8, <1>9, <1>10 DEF Inv

LEMMA RunningFields ==
    ASSUME Inv PROVE /\ session \in Fields /\ child \in Children /\ pipe \in Seq(Tokens)
                     /\ session.eof => pipe = <<>> /\ NoWriter
                     /\ Rest(session) /\ Len(session.responses) \in {session.sent - 1, session.sent}
                     /\ \A i \in DOMAIN session.responses :
                          session.responses[i] = i \/ i = session.sent
    BY DEF Inv, Typed, EofIsLast, NoWriter, Replies, Rest

-----------------------------------------------------------------------------
(* launch *)

(* No failure is on record while the session goes on; a child that was     *)
(* killed has one.                                                         *)
LEMMA ChildChanges ==
    ASSUME Inv, NEW c \in Children, child' = c, c.wrote = child.wrote, c.killed = child.killed,
           NEW s \in Fields, NEW next, Go(s, next), UNCHANGED <<pipe, status>>, late' \in BOOLEAN,
           Onward(next), next # "take",
           s.buffer = session.buffer, s.responses = session.responses, s.sent = session.sent,
           s.failure = session.failure, s.final = session.final, s.reaped = session.reaped,
           s.eof = session.eof, child.state \in {"none", "traced"}, Rest(s),
           s.launch = session.launch \/ (at = "exec" /\ next = "idle" /\ s.launch = "observed")
    PROVE  Inv'
<1>1. at' = next /\ session' = s
    BY DEF Go
<1>2. Typed'
    BY <1>1 DEF Inv, Typed, Onward
<1>3. Consumed' = Consumed
    BY <1>1 DEF Consumed
<1>4. (Stream => Stream') /\ (Taken => Taken')
    BY <1>1, <1>3 DEF Stream, Taken
<1>5. Counted => Counted'
    BY <1>1 DEF Counted, Onward, Rest
<1>6. Sound'
    BY <1>1, <1>4, <1>5 DEF Inv, Sound, Onward
<1>7. EofIsLast' /\ FinalSeenOnce' /\ Unavailable' /\ Placed'
    BY <1>1 DEF Inv, EofIsLast, NoWriter, FinalSeenOnce, Unavailable, Placed, Onward, Over
<1>8. Verdict'
    BY <1>1 DEF Inv, Verdict, Onward, Over, Rest
<1>9. Launched' /\ Replies'
    BY <1>1 DEF Inv, Launched, Replies, Onward, Starting
<1>10. Ending'
    BY <1>1 DEF Inv, Ending, Rest, Onward, Aborting, Starting, Places, Requesting, Shutting, Over
<1>11. QED
    BY <1>2, <1>6, <1>7, <1>8, <1>9, <1>10 DEF Inv

LEMMA SpawnStep == ASSUME Inv, NEW works \in BOOLEAN, Spawn(works) PROVE Inv'
<1>1. /\ session \in Fields /\ child \in Children /\ child.state = "none" /\ at = "prelaunch"
      /\ session.eof => FALSE
    BY RunningFields DEF Spawn, Inv, Placed, NoWriter
<1>2. CASE works
    <2> DEFINE c == [child EXCEPT !.state = "traced"]
    <2>1. /\ c \in Children /\ c.wrote = child.wrote /\ c.killed = child.killed
          /\ child' = c /\ Go(session, "start") /\ UNCHANGED <<pipe, late, status>>
        BY <1>1, <1>2 DEF Spawn, Children
    <2>2. Onward("start") /\ late' \in BOOLEAN
        BY <1>1, <2>1 DEF Onward, Over, Aborting, Places, Requesting, Shutting, Starting, Inv, Typed
    <2> HIDE DEF c
    <2>3. QED
        BY <1>1, <2>1, <2>2, RunningFields, ChildChanges
<1>3. CASE ~works
    <2>1. PICK verdict \in {"failed", "inconclusive"} :
              Raise([session EXCEPT !.launch = verdict, !.reaped = TRUE], "launch")
        BY <1>3 DEF Spawn
    <2> DEFINE s == [session EXCEPT !.launch = verdict, !.reaped = TRUE]
    <2>2. /\ s \in Fields /\ s.failure = session.failure /\ s.final = session.final /\ ~s.eof
          /\ s.launch # "observed" /\ s.sent = session.sent /\ s.responses = session.responses
          /\ Rest(s)
        BY <1>1 DEF Fields, Rest
    <2> HIDE DEF s
    <2>3. Raise(s, "launch") /\ UNCHANGED <<child, pipe, late, status>>
        BY <1>3, <2>1 DEF Spawn, s
    <2>4. at \in Starting /\ at \notin Over
        BY <1>1 DEF Starting, Over
    <2>5. QED
        BY <2>2, <2>3, <2>4, RunningFields, RaiseStep
<1>4. QED
    BY <1>2, <1>3

LEMMA StartStopStep == ASSUME Inv, StartStop PROVE Inv'
<1> DEFINE s == [session EXCEPT !.group = TRUE]
<1>1. /\ session \in Fields /\ late \in BOOLEAN /\ at = "start"
      /\ Go(s, "exec") /\ UNCHANGED <<child, pipe, late, status>>
    BY DEF StartStop, Inv, Typed
<1>2. /\ s \in Fields /\ s.buffer = session.buffer /\ s.responses = session.responses
      /\ s.sent = session.sent /\ s.failure = session.failure /\ s.final = session.final
      /\ s.reaped = session.reaped /\ s.eof = session.eof /\ s.launch = session.launch /\ Rest(s)
    BY <1>1 DEF Fields, Rest
<1>3. Onward("exec")
    BY <1>1 DEF Onward, Over, Aborting, Places, Requesting, Shutting, Starting
<1> HIDE DEF s
<1>4. QED
    BY <1>1, <1>2, <1>3, MoveStep

LEMMA ExecStopStep == ASSUME Inv, ExecStop PROVE Inv'
<1> DEFINE c == [child EXCEPT !.state = "running"]
           s == [session EXCEPT !.launch = "observed"]
<1>1. /\ session \in Fields /\ child \in Children /\ late \in BOOLEAN /\ at = "exec"
      /\ child.state = "traced" /\ child' = c
      /\ Go(s, "idle") /\ UNCHANGED <<pipe, late, status>>
    BY DEF ExecStop, Inv, Typed
<1>2. /\ s \in Fields /\ s.buffer = session.buffer /\ s.responses = session.responses
      /\ s.sent = session.sent /\ s.failure = session.failure /\ s.final = session.final
      /\ s.reaped = session.reaped /\ s.eof = session.eof /\ s.launch = "observed" /\ Rest(s)
    BY <1>1 DEF Fields, Rest
<1>3. c \in Children /\ c.wrote = child.wrote /\ c.killed = child.killed
    BY <1>1 DEF Children
<1>4. Onward("idle")
    BY <1>1 DEF Onward, Over, Aborting, Places, Requesting, Shutting, Starting
<1> HIDE DEF s, c
<1>5. QED
    BY <1>1, <1>2, <1>3, <1>4, ChildChanges

LEMMA LaunchFailsStep == ASSUME Inv, LaunchFails PROVE Inv'
<1>1. PICK verdict \in {"failed", "inconclusive"} :
          Raise([session EXCEPT !.launch = verdict], "launch")
    BY DEF LaunchFails
<1> DEFINE s == [session EXCEPT !.launch = verdict]
<1>2. /\ session \in Fields /\ at \notin Over /\ Raise(s, "launch")
      /\ UNCHANGED <<child, pipe, late, status>>
    BY <1>1 DEF LaunchFails, Inv, Typed, Over
<1>3. /\ s \in Fields /\ s.failure = session.failure /\ s.final = session.final
      /\ s.eof = session.eof /\ s.launch # "observed" /\ s.sent = session.sent
      /\ s.responses = session.responses /\ Rest(s)
    BY <1>2 DEF Fields, Rest
<1>4. at \in Starting
    BY DEF LaunchFails, Starting
<1> HIDE DEF s
<1>5. QED
    BY <1>2, <1>3, <1>4, RunningFields, RaiseStep

-----------------------------------------------------------------------------
(* request_frame *)

(* Raised from the fields as they are, or after a pump that took the pipe. *)
LEMMA RaisesAsIs ==
    ASSUME Inv, NEW code \in Reasons,
           Raise(session, code), child' = child, pipe' \in {pipe, <<>>}, late' = late,
           status' = status, at \notin Over
    PROVE  Inv'
    BY RunningFields, RaiseStep DEF Reasons

LEMMA RaisesPumped ==
    ASSUME Inv, NEW code \in Reasons,
           Raise(Pumped, code), child' = child, pipe' = <<>>, late' = late,
           status' = status, at \notin Over
    PROVE  Inv'
<1>1. Len(session.responses) \in {session.sent - 1, session.sent}
      /\ \A i \in DOMAIN session.responses : session.responses[i] = i \/ i = session.sent
    BY RunningFields
<1>2. QED
    BY <1>1, PumpedFields, RaiseStep DEF Reasons

(* Or from what a read that went over a cap has kept. *)
LEMMA PumpRaisesStep ==
    ASSUME Inv, NEW code \in Reasons, NEW s \in PumpRaised,
           Raise(s, code), child' = child, pipe' \in {pipe, <<>>}, late' = late,
           status' = status, at \notin Over
    PROVE  Inv'
<1>1. CASE s = session
    BY <1>1, RaisesAsIs
<1>2. CASE s = [session EXCEPT !.buffer = @ \o pipe]
    <2>1. session \in Fields /\ session.buffer \o pipe \in Seq(Tokens)
        BY RunningFields DEF Fields
    <2>2. /\ s \in Fields /\ s.failure = session.failure /\ s.final = session.final
          /\ s.eof = session.eof /\ s.launch = session.launch /\ s.sent = session.sent
          /\ s.responses = session.responses /\ Rest(s)
        BY <1>2, <2>1 DEF Fields, Rest
    <2>3. QED
        BY <2>2, RunningFields, RaiseStep DEF Reasons
<1>3. QED
    BY <1>1, <1>2 DEF PumpRaised

LEMMA PumpCodes == PumpCode \in Reasons
    BY DEF PumpCode, Codes, Reasons

(* A pump that does not raise was in time, and leaves the pipe empty. *)
LEMMA PumpIsInTime == ASSUME ~PumpRaises PROVE ~late
    BY DEF PumpRaises

LEMMA BeginRequestStep == ASSUME Inv, BeginRequest PROVE Inv'
<1>1. /\ at = "idle" /\ session.failure = "none" /\ session.sent < FrameCount
      /\ session \in Fields /\ UNCHANGED <<child, pipe, status>>
    BY DEF BeginRequest, Inv, Typed
<1>2. CASE session.buffer # <<>>
    <2>1. "trailing-output" \in Reasons /\ at \notin Over
        BY <1>1 DEF Codes, Reasons, Over
    <2>2. QED
        BY <1>1, <1>2, <2>1, RaisesAsIs DEF BeginRequest
<1>3. CASE session.buffer = <<>>
    <2> DEFINE s == [session EXCEPT !.sent = session.sent + 1, !.pending = TRUE, !.sending = TRUE]
    <2>1. session' = s /\ at' = "pump" /\ late' = FALSE
        BY <1>3 DEF BeginRequest, Go
    <2>2. session.sent \in Nat /\ session.sent + 1 \in 0..FrameCount
        BY <1>1, TransportAssumption DEF Fields
    <2>3. /\ session' \in Fields /\ session'.sent = session.sent + 1
          /\ session'.buffer = session.buffer /\ session'.responses = session.responses
          /\ session'.failure = session.failure /\ session'.final = session.final
          /\ session'.reaped = session.reaped /\ session'.eof = session.eof
          /\ session'.launch = session.launch /\ Rest(session')
        BY <1>1, <2>1, <2>2 DEF Fields, Rest
    <2>11. ~session.left /\ Counted /\ Taken
        BY <1>1 DEF Inv, Sound, Ending, Shutting, Aborting, Over
    <2>12. Replies'
        <3>1. Len(session.responses) = session.sent /\ session.sent = (session.sent + 1) - 1
            BY <1>1, <2>2, <2>11 DEF Counted, Requesting
        <3>2. \A i \in DOMAIN session.responses : session.responses[i] = i
            BY <2>11 DEF Taken
        <3>3. QED
            BY <2>1, <2>3, <3>1, <3>2 DEF Replies
    <2>13. Launched' /\ Ending'
        BY <1>1, <2>1, <2>3, <2>11
           DEF Inv, Launched, Ending, Rest, Starting, Shutting, Aborting, Over
    <2>4. Typed'
        BY <1>1, <2>1, <2>3 DEF Inv, Typed, Places, Requesting
    <2>5. Consumed' = Consumed
        BY <1>1, <2>3 DEF Consumed
    <2>6. (Stream => Stream') /\ (Taken => Taken')
        BY <1>1, <2>3, <2>5 DEF Stream, Taken
    <2>7. Counted => Counted'
        BY <1>1, <2>1, <2>2, <2>3 DEF Counted, Requesting, Shutting, Over, Rest
    <2>8. Sound'
        BY <1>1, <2>1, <2>3, <2>6, <2>7 DEF Inv, Sound, Aborting, Over
    <2>9. EofIsLast' /\ FinalSeenOnce' /\ Unavailable' /\ Placed' /\ Verdict'
        BY <1>1, <2>1, <2>3 DEF Inv, EofIsLast, NoWriter, FinalSeenOnce, Unavailable, Placed, Verdict
    <2>10. QED
        BY <2>4, <2>8, <2>9, <2>12, <2>13 DEF Inv
<1>4. QED
    BY <1>2, <1>3

LEMMA PumpRequestStep == ASSUME Inv, PumpRequest PROVE Inv'
<1>1. /\ at = "pump" /\ at \notin Over /\ session \in Fields /\ pipe' \in {pipe, <<>>}
      /\ UNCHANGED <<child, late, status>>
    BY DEF PumpRequest, Inv, Typed, Over
<1>2. CASE PumpRaises
    BY <1>1, <1>2, PumpCodes, PumpRaisesStep DEF PumpRequest
<1>3. CASE ~PumpRaises
    <2>1. pipe' = <<>>
        BY <1>3, PumpIsInTime DEF PumpRequest
    <2>2. CASE \E s \in {session, Pumped} : Raise(s, "stdin-write")
        <3>1. "stdin-write" \in Reasons
            BY DEF Codes, Reasons
        <3>2. QED
            BY <1>1, <2>1, <2>2, <3>1, RaisesAsIs, RaisesPumped
    <2>3. CASE \E left \in {session.pending, FALSE} : Go([Pumped EXCEPT !.pending = left], "poll")
        <3>1. PICK left \in {session.pending, FALSE} : Go([Pumped EXCEPT !.pending = left], "poll")
            BY <2>3
        <3>2. left \in BOOLEAN /\ session.sending \in BOOLEAN
            BY <1>1 DEF Fields
        <3>3. session' = [Pumped EXCEPT !.pending = left, !.sending = session.sending] /\ at' = "poll"
            BY <3>1, PumpedFields DEF Go, Fields
        <3>4. Onward(at') /\ at' # "take"
            BY <1>1, <3>3 DEF Onward, Over, Aborting, Places, Requesting, Shutting, Starting
        <3>5. QED
            BY <1>1, <1>3, <2>1, <3>2, <3>3, <3>4, PumpStep
    <2>4. QED
        BY <1>3, <2>2, <2>3 DEF PumpRequest
<1>4. QED
    BY <1>2, <1>3

LEMMA PollRequestStep == ASSUME Inv, PollRequest PROVE Inv'
<1>1. /\ at = "poll" /\ at \notin Over /\ at \notin Over \cup Starting
      /\ session \in Fields /\ UNCHANGED <<pipe, late, status>>
    BY DEF PollRequest, Inv, Typed, Over, Starting
<1>2. PICK after \in Polled :
          /\ child' = after.child
          /\ IF after.raises THEN Raise(after.session, "ptrace-stop")
             ELSE IF after.session.reaped /\ ~Enough(after.session)
                  THEN Go(after.session, "drain") ELSE LoopOn(after.session)
    BY DEF PollRequest
<1>7. CASE after.raises
    <2>1. session' = Failed(after.session, "ptrace-stop") /\ at' = "kill"
        BY <1>2, <1>7 DEF Raise, Go
    <2>2. QED
        BY <1>1, <1>2, <1>7, <2>1, PollRaisesStep
<1> SUFFICES ASSUME ~after.raises PROVE Inv'
    BY <1>7
<1> DEFINE s == after.session
<1>3. /\ s \in Fields /\ s.buffer = session.buffer /\ s.pending \in BOOLEAN /\ s.sending \in BOOLEAN
    BY <1>1, PolledFields DEF Fields
<1> HIDE DEF s
<1>4. CASE Go(s, "drain")
    <2>1. session' = [s EXCEPT !.sending = s.sending] /\ at' = "drain"
        BY <1>3, <1>4 DEF Go, Fields
    <2>2. Onward(at') /\ at' # "take"
        BY <1>1, <2>1 DEF Onward, Over, Aborting, Places, Requesting, Shutting, Starting
    <2>3. QED
        BY <1>1, <1>2, <1>3, <2>1, <2>2, PollStep DEF s
<1>5. CASE LoopOn(s)
    <2>1. /\ session' = [s EXCEPT !.sending = s.pending] /\ at' \in {"take", "pump"}
          /\ at' = "take" => HasLine(session.buffer)
        BY <1>3, <1>5 DEF LoopOn, Go
    <2>2. Onward(at')
        BY <1>1, <2>1 DEF Onward, Over, Aborting, Places, Requesting, Shutting, Starting
    <2>3. QED
        BY <1>1, <1>2, <1>3, <2>1, <2>2, PollStep DEF s
<1>6. QED
    BY <1>2, <1>4, <1>5 DEF s

LEMMA DrainRequestStep == ASSUME Inv, DrainRequest PROVE Inv'
<1>1. /\ at = "drain" /\ at \notin Over /\ session \in Fields /\ pipe' \in {pipe, <<>>}
      /\ UNCHANGED <<child, late, status>>
    BY DEF DrainRequest, Inv, Typed, Over
<1>2. "candidate-exited" \in Reasons
    BY DEF Codes, Reasons
<1>3. CASE PumpRaises
    BY <1>1, <1>2, <1>3, PumpCodes, PumpRaisesStep DEF DrainRequest
<1>4. CASE ~PumpRaises
    <2>1. pipe' = <<>>
        BY <1>4, PumpIsInTime DEF DrainRequest
    <2>2. CASE Enough(Pumped)
        <3>1. LoopOn(Pumped)
            BY <1>4, <2>2 DEF DrainRequest
        <3>2. Pumped.pending \in BOOLEAN
            BY <1>1, PumpedFields DEF Fields
        <3>3. /\ session' = [Pumped EXCEPT !.pending = Pumped.pending, !.sending = Pumped.pending]
              /\ at' \in {"take", "pump"}
              /\ at' = "take" => HasLine(session.buffer \o pipe)
            BY <3>1, PumpedFields DEF LoopOn, Go, Fields
        <3>4. Onward(at')
            BY <1>1, <3>3 DEF Onward, Over, Aborting, Places, Requesting, Shutting, Starting
        <3>5. QED
            BY <1>1, <1>4, <2>1, <3>2, <3>3, <3>4, PumpStep
    <2>3. CASE ~Enough(Pumped)
        BY <1>1, <1>2, <1>4, <2>1, <2>3, RaisesPumped DEF DrainRequest
    <2>4. QED
        BY <2>2, <2>3
<1>5. QED
    BY <1>3, <1>4

(* The first c tokens written are the first answers. *)
Answered(wrote, c, taken) ==
    /\ \A f \in 1..taken : \E k \in 1..c : wrote[k] = f
    /\ \A k \in 1..c : wrote[k] \in (1..taken) \cup {Half}
    /\ \A j, k \in 1..c :
        j < k /\ wrote[j] # Half /\ wrote[k] # Half => wrote[j] < wrote[k]

(* Taking the line that ends at e moves e tokens from the buffer to what   *)
(* was consumed.                                                           *)
LEMMA TakingALine ==
    ASSUME NEW wrote \in Seq(Tokens), NEW buffer \in Seq(Tokens), NEW c \in Nat, NEW taken \in Nat,
           NEW e \in 1..Len(buffer), c + Len(buffer) <= Len(wrote),
           taken + 1 \in Frames, buffer[e] = taken + 1,
           \A k \in 1..(e - 1) : buffer[k] = Half,
           \A k \in 1..Len(buffer) : buffer[k] = wrote[c + k],
           Answered(wrote, c, taken)
    PROVE  Answered(wrote, c + e, taken + 1)
<1> USE DEF Answered
<1>1. taken + 1 # Half /\ Half \in Nat /\ e \in Nat /\ Len(buffer) \in Nat
    BY TokenFacts, TransportAssumption DEF Half
<1>2. wrote[c + e] = taken + 1
    OBVIOUS
<1>3. ASSUME NEW k \in 1..(c + e), k \notin 1..c, k # c + e PROVE wrote[k] = Half
    <2>1. k - c \in 1..(e - 1) /\ k - c \in 1..Len(buffer) /\ c + (k - c) = k
        BY <1>1, <1>3
    <2>2. QED
        BY <2>1
<1>4. ASSUME NEW f \in 1..(taken + 1) PROVE \E k \in 1..(c + e) : wrote[k] = f
    <2>1. CASE f \in 1..taken
        <3>1. PICK k \in 1..c : wrote[k] = f
            BY <2>1
        <3>2. k \in 1..(c + e)
            BY <1>1
        <3>3. QED
            BY <3>1, <3>2
    <2>2. CASE f = taken + 1
        <3>1. c + e \in 1..(c + e)
            BY <1>1
        <3>2. QED
            BY <1>2, <2>2, <3>1
    <2>3. QED
        BY <2>1, <2>2
<1>5. ASSUME NEW k \in 1..(c + e) PROVE wrote[k] \in (1..(taken + 1)) \cup {Half}
    <2>1. 1..taken \subseteq 1..(taken + 1) /\ taken + 1 \in 1..(taken + 1)
        OBVIOUS
    <2>2. QED
        BY <1>2, <1>3, <2>1
<1>6. ASSUME NEW j \in 1..(c + e), NEW k \in 1..(c + e), j < k, wrote[j] # Half, wrote[k] # Half
      PROVE  wrote[j] < wrote[k]
    <2>1. j \in 1..c
        BY <1>1, <1>3, <1>6
    <2>2. CASE k \in 1..c
        BY <1>6, <2>1, <2>2
    <2>3. CASE k = c + e
        <3>1. wrote[j] \in 1..taken
            BY <1>6, <2>1
        <3>2. QED
            BY <1>2, <2>3, <3>1
    <2>4. QED
        BY <1>3, <1>6, <2>2, <2>3
<1>7. QED
    BY <1>4, <1>5, <1>6

LEMMA TakenLengths ==
    ASSUME NEW written \in Nat, NEW buffered \in Nat, NEW piped \in Nat, NEW e \in 1..buffered
    PROVE  /\ written - (buffered - e) - piped = (written - buffered - piped) + e
           /\ \A k \in 1..(buffered - e) : e + k \in 1..buffered
           /\ \A c \in Nat : \A k \in Nat : (c + e) + k = c + (e + k)
           /\ \A c \in Nat : \A k \in Nat : (c + e) + (buffered - e) + k = c + buffered + k
    OBVIOUS

(* What is left of a sequence after its first e elements. *)
LEMMA RestOf ==
    ASSUME NEW bytes \in Seq(Tokens), NEW e \in 1..Len(bytes)
    PROVE  /\ SubSeq(bytes, e + 1, Len(bytes)) \in Seq(Tokens)
           /\ Len(SubSeq(bytes, e + 1, Len(bytes))) = Len(bytes) - e
           /\ \A k \in 1..(Len(bytes) - e) : SubSeq(bytes, e + 1, Len(bytes))[k] = bytes[e + k]
<1>1. Len(bytes) \in Nat /\ e + 1 \in Int /\ Len(bytes) \in Int
    OBVIOUS
<1>2. \A i \in (e + 1)..Len(bytes) : bytes[i] \in Tokens
    OBVIOUS
<1> DEFINE rest == SubSeq(bytes, e + 1, Len(bytes))
<1>3. /\ rest \in Seq(Tokens)
      /\ Len(rest) = IF e + 1 <= Len(bytes) THEN Len(bytes) - (e + 1) + 1 ELSE 0
      /\ \A i \in 1..(Len(bytes) - (e + 1) + 1) : rest[i] = bytes[(e + 1) + i - 1]
    BY <1>1, <1>2, SubSeqProperties
<1> HIDE DEF rest
<1>4. Len(rest) = Len(bytes) - e
    BY <1>1, <1>3
<1>5. \A k \in 1..(Len(bytes) - e) : rest[k] = bytes[e + k]
    <2>1. \A k \in 1..(Len(bytes) - e) : (e + 1) + k - 1 = e + k
        BY <1>1
    <2>2. Len(bytes) - (e + 1) + 1 = Len(bytes) - e
        BY <1>1
    <2>3. QED
        BY <1>3, <2>1, <2>2
<1>6. QED
    BY <1>3, <1>4, <1>5 DEF rest

LEMMA AppendFacts ==
    ASSUME NEW taken \in Seq(Lines), NEW line \in Lines
    PROVE  /\ Len(Append(taken, line)) = Len(taken) + 1
           /\ DOMAIN Append(taken, line) = 1..(Len(taken) + 1)
           /\ \A i \in 1..Len(taken) : Append(taken, line)[i] = taken[i]
           /\ Append(taken, line)[Len(taken) + 1] = line
    OBVIOUS

LEMMA TakeLineStep == ASSUME Inv, TakeLine PROVE Inv'
<1> DEFINE e == LineEnd(session.buffer)
           line == session.buffer[e]
           s == [session EXCEPT !.responses = Append(session.responses, line),
                                !.buffer = SubSeq(session.buffer, e + 1, Len(session.buffer))]
<1>1. /\ at = "take" /\ session \in Fields /\ child \in Children /\ pipe \in Seq(Tokens)
      /\ UNCHANGED <<child, pipe, late, status>> /\ HasLine(session.buffer)
      /\ IF line = session.sent THEN Go(s, "quiet") ELSE Raise(s, "response-request-id-mismatch")
    BY DEF TakeLine, Inv, Typed, Placed
<1>2. /\ session.buffer \in Seq(Tokens) /\ child.wrote \in Seq(Tokens)
      /\ session.responses \in Seq(Lines) /\ session.sent \in Nat
    BY <1>1, TransportAssumption DEF Fields, Children
<1>3. /\ e \in 1..Len(session.buffer) /\ line \in Lines
      /\ \A k \in 1..(e - 1) : session.buffer[k] \notin Lines
    <2>1. DOMAIN session.buffer = 1..Len(session.buffer)
        BY <1>2
    <2>2. QED
        BY <1>1, <1>2, <2>1, LineEndIsFirst
<1> HIDE DEF e
<1>4. /\ s \in Fields /\ s.buffer = SubSeq(session.buffer, e + 1, Len(session.buffer))
      /\ s.responses = Append(session.responses, line)
      /\ s.failure = session.failure /\ s.final = session.final /\ s.eof = session.eof
      /\ s.sent = session.sent /\ s.reaped = session.reaped /\ s.launch = session.launch
      /\ Rest(s)
    <2>1. SubSeq(session.buffer, e + 1, Len(session.buffer)) \in Seq(Tokens)
        BY <1>2, <1>3, RestOf
    <2>2. Append(session.responses, line) \in Seq(Lines)
        BY <1>2, <1>3
    <2>3. QED
        BY <1>1, <2>1, <2>2 DEF Fields, Rest
<1> HIDE DEF s
<1>8. /\ Len(s.responses) = s.sent
      /\ \A i \in DOMAIN s.responses : s.responses[i] = i \/ (i = s.sent /\ s.responses[i] = line)
    <2>1. /\ Len(session.responses) = session.sent - 1 /\ at \in Requesting
          /\ \A i \in DOMAIN session.responses : session.responses[i] = i
        BY <1>1 DEF Inv, Replies, Requesting
    <2>2. /\ Len(s.responses) = Len(session.responses) + 1
          /\ DOMAIN s.responses = 1..(Len(session.responses) + 1)
          /\ \A i \in 1..Len(session.responses) : s.responses[i] = session.responses[i]
          /\ s.responses[Len(session.responses) + 1] = line
        <3> HIDE DEF line
        <3>1. QED
            BY <1>2, <1>3, <1>4, AppendFacts
    <2>3. DOMAIN session.responses = 1..Len(session.responses) /\ Len(session.responses) \in Nat
        BY <1>2
    <2>4. Len(session.responses) + 1 = session.sent
        BY <1>2, <2>1, <2>3
    <2> HIDE DEF line
    <2>5. QED
        BY <1>2, <1>4, <2>1, <2>2, <2>3, <2>4
<1>5. CASE line # session.sent
    <2>1. "response-request-id-mismatch" \in Reasons /\ at \notin Over
        BY <1>1 DEF Codes, Reasons, Over
    <2>2. /\ Raise(s, "response-request-id-mismatch") /\ pipe' \in {pipe, <<>>}
          /\ child' = child /\ late' = late /\ status' = status
        BY <1>1, <1>5
    <2>3. /\ Len(s.responses) \in {s.sent - 1, s.sent} /\ "response-request-id-mismatch" # "launch"
          /\ \A i \in DOMAIN s.responses : s.responses[i] = i \/ i = s.sent
        BY <1>8
    <2> HIDE DEF line
    <2>4. QED
        BY <1>1, <1>4, <2>1, <2>2, <2>3, RunningFields, RaiseStep
<1>6. CASE line = session.sent
    <2>1. at' = "quiet" /\ session' = s
        BY <1>1, <1>6 DEF Go
    <2>2. Typed'
        BY <1>1, <1>4, <2>1 DEF Inv, Typed, Places
    <2>3. /\ Len(session.buffer) \in Nat /\ Len(pipe) \in Nat /\ Len(child.wrote) \in Nat
          /\ e \in Nat /\ Len(session.responses) \in Nat
        BY <1>1, <1>2, <1>3
    <2>4. Len(session'.buffer) = Len(session.buffer) - e
        BY <1>2, <1>3, <1>4, <2>1, RestOf
    <2>5. Consumed' = Consumed + e
        <3>1. Consumed' = Len(child.wrote) - (Len(session.buffer) - e) - Len(pipe)
            BY <1>1, <2>4 DEF Consumed
        <3>2. Len(child.wrote) - (Len(session.buffer) - e) - Len(pipe)
                = (Len(child.wrote) - Len(session.buffer) - Len(pipe)) + e
            BY <1>3, <2>3, TakenLengths
        <3>3. QED
            BY <3>1, <3>2 DEF Consumed
    <2>6. Stream => Stream'
        <3> SUFFICES ASSUME Stream PROVE Stream'
            OBVIOUS
        <3>1. Consumed \in Nat /\ Consumed' \in Nat
            BY <2>3, <2>5 DEF Stream
        <3>2. ASSUME NEW k \in 1..(Len(session.buffer) - e)
              PROVE  /\ session'.buffer[k] = child.wrote[(Consumed + e) + k]
                     /\ session'.buffer[k] # Flood
            <4>1. e + k \in 1..Len(session.buffer) /\ k \in Nat
                BY <1>3, <2>3, TakenLengths
            <4>2. (Consumed + e) + k = Consumed + (e + k)
                BY <1>3, <2>3, <3>1, <4>1, TakenLengths
            <4>3. session'.buffer[k] = session.buffer[e + k]
                BY <1>2, <1>3, <1>4, <2>1, RestOf
            <4>4. DOMAIN session.buffer = 1..Len(session.buffer)
                BY <1>2
            <4>5. session.buffer[e + k] = child.wrote[Consumed + (e + k)]
                  /\ session.buffer[e + k] # Flood
                BY <4>1, <4>4 DEF Stream
            <4>6. QED
                BY <4>2, <4>3, <4>5
        <3>3. ASSUME NEW k \in DOMAIN pipe
              PROVE  pipe[k] = child.wrote[(Consumed + e) + Len(session'.buffer) + k]
            <4>1. k \in Nat
                BY <1>1
            <4>2. (Consumed + e) + (Len(session.buffer) - e) + k = Consumed + Len(session.buffer) + k
                BY <1>3, <2>3, <3>1, <4>1, TakenLengths
            <4>3. QED
                BY <2>4, <4>2 DEF Stream
        <3>4. DOMAIN session'.buffer = 1..(Len(session.buffer) - e)
            BY <1>4, <2>1, <2>2, <2>4 DEF Typed, Fields
        <3>5. QED
            BY <1>1, <2>5, <3>1, <3>2, <3>3, <3>4 DEF Stream
    <2>7. Stream /\ Taken /\ Counted => Taken' /\ Counted'
        <3> SUFFICES ASSUME Stream, Taken, Counted PROVE Taken' /\ Counted'
            OBVIOUS
        <3> DEFINE n == Len(session.responses)
        <3>1. n = session.sent - 1 /\ n + 1 = session.sent /\ n \in Nat
            BY <1>1, <1>2, <2>3 DEF Inv, Replies, Requesting
        <3>2. n + 1 \in Frames /\ line = n + 1
            <4>1. session.sent \in 1..FrameCount
                BY <1>1, <3>1, TransportAssumption DEF Fields
            <4>2. QED
                BY <1>6, <3>1, <4>1 DEF Frames
        <3>3. Consumed \in Nat /\ Consumed + Len(session.buffer) <= Len(child.wrote)
            <4>1. Consumed + Len(session.buffer) + Len(pipe) = Len(child.wrote)
                BY <2>3, Lengths DEF Consumed
            <4>2. Consumed \in Nat
                BY DEF Stream
            <4>3. QED
                BY <2>3, <4>1, <4>2
        <3>4. DOMAIN session.buffer = 1..Len(session.buffer)
            BY <1>2
        <3>5. \A k \in 1..(e - 1) : session.buffer[k] = Half
            <4> SUFFICES ASSUME NEW k \in 1..(e - 1) PROVE session.buffer[k] = Half
                OBVIOUS
            <4>1. k \in 1..Len(session.buffer)
                BY <1>3, <2>3
            <4>2. session.buffer[k] \in Tokens /\ session.buffer[k] # Flood
                BY <1>2, <3>4, <4>1 DEF Stream
            <4>3. QED
                BY <1>3, <4>2 DEF Tokens
        <3>6. \A k \in 1..Len(session.buffer) : session.buffer[k] = child.wrote[Consumed + k]
            BY <3>4 DEF Stream
        <3>7. /\ \A f \in 1..(n + 1) : \E k \in 1..(Consumed + e) : child.wrote[k] = f
              /\ \A k \in 1..(Consumed + e) : child.wrote[k] \in (1..(n + 1)) \cup {Half}
              /\ \A j, k \in 1..(Consumed + e) :
                    j < k /\ child.wrote[j] # Half /\ child.wrote[k] # Half
                        => child.wrote[j] < child.wrote[k]
            <4>1. Answered(child.wrote, Consumed, n)
                BY DEF Taken, Answered
            <4> HIDE DEF n
            <4>2. session.buffer[e] = n + 1
                BY <3>2
            <4> HIDE DEF line
            <4>3. Answered(child.wrote, Consumed + e, n + 1)
                BY <1>2, <1>3, <3>1, <3>2, <3>3, <3>5, <3>6, <4>1, <4>2, TakingALine
            <4>4. QED
                BY <4>3 DEF Answered
        <3>8. Len(session'.responses) = n + 1
            BY <1>2, <1>3, <1>4, <2>1, AppendFacts
        <3>9. \A i \in DOMAIN session'.responses : session'.responses[i] = i
            <4>1. DOMAIN session'.responses = 1..(n + 1)
                BY <1>2, <1>3, <1>4, <2>1, AppendFacts
            <4>2. ASSUME NEW i \in 1..n PROVE session'.responses[i] = session.responses[i]
                <5>1. /\ session'.responses = Append(session.responses, line)
                      /\ i \in 1..Len(session.responses)
                    BY <1>4, <2>1
                <5> HIDE DEF line
                <5>2. QED
                    BY <1>2, <1>3, <5>1, AppendFacts
            <4>3. session'.responses[n + 1] = n + 1
                BY <1>2, <1>3, <1>4, <2>1, <3>2, AppendFacts
            <4>4. \A i \in 1..n : session.responses[i] = i
                <5>1. DOMAIN session.responses = 1..n
                    BY <1>2
                <5>2. \A i \in DOMAIN session.responses : session.responses[i] = i
                    BY DEF Taken
                <5> HIDE DEF n
                <5>3. QED
                    BY <5>1, <5>2
            <4> HIDE DEF n
            <4>5. QED
                BY <3>1, <4>1, <4>2, <4>3, <4>4
        <3> HIDE DEF n
        <3>10. Taken'
            BY <1>1, <2>5, <3>7, <3>8, <3>9 DEF Taken
        <3>11. Counted'
            BY <1>4, <2>1, <3>1, <3>8 DEF Counted, Requesting, Shutting, Over, Rest
        <3>12. QED
            BY <3>10, <3>11
    <2>8. Sound'
        BY <1>1, <1>4, <2>1, <2>6, <2>7 DEF Inv, Sound, Aborting, Over
    <2>9. EofIsLast' /\ FinalSeenOnce' /\ Unavailable' /\ Placed' /\ Verdict'
        BY <1>1, <1>4, <2>1 DEF Inv, EofIsLast, NoWriter, FinalSeenOnce, Unavailable, Placed, Verdict, Over
    <2>11. Replies'
        <3>1. \A i \in DOMAIN s.responses : s.responses[i] = i
            BY <1>4, <1>6, <1>8
        <3>2. QED
            BY <1>8, <2>1, <3>1 DEF Replies, Requesting
    <2>12. Launched' /\ Ending'
        BY <1>1, <1>4, <2>1 DEF Inv, Launched, Ending, Rest, Starting, Shutting, Aborting, Over
    <2>10. QED
        BY <2>2, <2>8, <2>9, <2>11, <2>12 DEF Inv
<1>7. QED
    BY <1>5, <1>6

LEMMA QuietOverStep == ASSUME Inv, QuietOver PROVE Inv'
<1>1. /\ session \in Fields /\ at = "quiet" /\ Go(session, "idle") /\ late' \in BOOLEAN
      /\ UNCHANGED <<child, pipe, late, status>>
    BY DEF QuietOver, Inv, Typed
<1>2. Onward("idle")
    BY <1>1 DEF Onward, Over, Aborting, Places, Requesting, Shutting, Starting
<1>3. QED
    BY <1>1, <1>2, RunningFields, MoveStep

(* A pump that moves control and nothing else. *)
LEMMA PumpMoves ==
    ASSUME Inv, ~PumpRaises, NEW next, Go(Pumped, next), child' = child, pipe' = <<>>,
           late' = late, status' = status, Onward(next), next # "take"
    PROVE  Inv'
<1>1. Pumped \in Fields
    BY PumpedFields
<1>2. /\ Pumped = [Pumped EXCEPT !.pending = Pumped.pending, !.sending = Pumped.sending]
      /\ Pumped.pending \in BOOLEAN /\ Pumped.sending \in BOOLEAN
    <2> DEFINE p == Pumped
    <2>1. p \in Fields
        BY <1>1
    <2> HIDE DEF p
    <2>2. p = [p EXCEPT !.pending = p.pending, !.sending = p.sending]
          /\ p.pending \in BOOLEAN /\ p.sending \in BOOLEAN
        BY <2>1 DEF Fields
    <2>3. QED
        BY <2>2 DEF p
<1>3. session' = Pumped /\ at' = next
    BY DEF Go
<1>4. QED
    BY <1>2, <1>3, PumpStep

LEMMA QuietPumpStep == ASSUME Inv, QuietPump PROVE Inv'
<1>1. /\ at = "quiet" /\ at \notin Over /\ session \in Fields /\ pipe' \in {pipe, <<>>}
      /\ UNCHANGED <<child, late, status>>
    BY DEF QuietPump, Inv, Typed, Over
<1>2. CASE PumpRaises
    BY <1>1, <1>2, PumpCodes, PumpRaisesStep DEF QuietPump
<1>3. CASE ~PumpRaises
    <2>1. pipe' = <<>>
        BY <1>3, PumpIsInTime DEF QuietPump
    <2>2. CASE Pumped.buffer # <<>>
        <3>1. "extra-output" \in Reasons
            BY DEF Codes, Reasons
        <3>2. QED
            BY <1>1, <1>3, <2>1, <2>2, <3>1, RaisesPumped DEF QuietPump
    <2>3. CASE Pumped.buffer = <<>>
        <3>1. PICK next \in {"idle", "quiet"} : Go(Pumped, next)
            BY <1>3, <2>3 DEF QuietPump
        <3>2. Onward(next) /\ next # "take"
            BY <1>1, <3>1 DEF Onward, Over, Aborting, Places, Requesting, Shutting, Starting
        <3>3. QED
            BY <1>1, <1>3, <2>1, <3>1, <3>2, PumpMoves
    <2>4. QED
        BY <2>2, <2>3
<1>4. QED
    BY <1>2, <1>3

-----------------------------------------------------------------------------
(* close *)

LEMMA BeginCloseStep == ASSUME Inv, BeginClose PROVE Inv'
<1> DEFINE s == [session EXCEPT !.closing = TRUE]
<1>1. /\ session \in Fields /\ at = "idle" /\ UNCHANGED <<child, pipe, status>> /\ late' = FALSE
      /\ Go(s, IF session.failure = "none" THEN "shut" ELSE "kill")
      /\ session.failure = "none" => session.sent = FrameCount
    BY DEF BeginClose, Inv, Typed
<1>2. /\ s \in Fields /\ s.buffer = session.buffer /\ s.responses = session.responses
      /\ s.sent = session.sent /\ s.failure = session.failure /\ s.final = session.final
      /\ s.reaped = session.reaped /\ s.eof = session.eof /\ s.launch = session.launch
      /\ s.clean = session.clean /\ s.left = session.left
    BY <1>1 DEF Fields
<1> HIDE DEF s
<1>3. session' = s /\ at' = IF session.failure = "none" THEN "shut" ELSE "kill"
    BY <1>1 DEF Go
<1>4. Typed'
    BY <1>1, <1>2, <1>3 DEF Inv, Typed, Places, Shutting, Aborting
<1>5. Consumed' = Consumed
    BY <1>1, <1>2, <1>3 DEF Consumed
<1>6. (Stream => Stream') /\ (Taken => Taken')
    BY <1>1, <1>2, <1>3, <1>5 DEF Stream, Taken
<1>7. session.failure = "none" /\ Counted => Counted'
    BY <1>1, <1>2, <1>3 DEF Counted, Requesting, Shutting, Over
<1>8. Sound'
    BY <1>1, <1>2, <1>3, <1>6, <1>7 DEF Inv, Sound, Aborting, Over
<1>9. EofIsLast' /\ FinalSeenOnce' /\ Unavailable' /\ Placed' /\ Verdict'
    BY <1>1, <1>2, <1>3 DEF Inv, EofIsLast, NoWriter, FinalSeenOnce, Unavailable, Placed, Verdict, Over
<1>10. Launched' /\ Replies' /\ Ending'
    BY <1>1, <1>2, <1>3 DEF Inv, Launched, Replies, Ending, Starting, Requesting, Shutting, Aborting, Over
<1>11. QED
    BY <1>4, <1>8, <1>9, <1>10 DEF Inv

(* Whatever was recorded before, leaving run records nothing. *)
LEMMA LeaveStep == ASSUME Inv, Leave PROVE Inv'
<1> DEFINE s == [session EXCEPT !.closing = TRUE, !.left = TRUE,
                                !.launch = IF session.failure = "launch" THEN "none"
                                           ELSE session.launch]
<1>1. /\ session \in Fields /\ at \notin Over /\ ~session.closing /\ session' = s /\ late' = FALSE
      /\ at' = IF at = "prelaunch" THEN "result" ELSE IF session.failure = "none" THEN "shut" ELSE "kill"
      /\ UNCHANGED <<child, pipe, status>>
    BY DEF Leave, Go, Inv, Typed, Over
<1>2. /\ s \in Fields /\ s.buffer = session.buffer /\ s.responses = session.responses
      /\ s.sent = session.sent /\ s.failure = session.failure /\ s.final = session.final
      /\ s.reaped = session.reaped /\ s.eof = session.eof /\ s.clean = session.clean
      /\ s.left /\ s.closing
      /\ s.launch = IF session.failure = "launch" THEN "none" ELSE session.launch
    BY <1>1 DEF Fields
<1> HIDE DEF s
<1>3. Typed'
    BY <1>1, <1>2 DEF Inv, Typed, Places, Shutting, Aborting, Over
<1>4. Consumed' = Consumed
    BY <1>1, <1>2 DEF Consumed
<1>5. (Stream => Stream') /\ (Taken => Taken')
    BY <1>1, <1>2, <1>4 DEF Stream, Taken
<1>6. Counted'
    BY <1>1, <1>2 DEF Counted
<1>7. ~session.clean
    BY <1>1 DEF Inv, Ending
<1>8. Sound'
    BY <1>1, <1>2, <1>5, <1>6, <1>7 DEF Inv, Sound, Launched, Starting, Aborting, Over
<1>9. EofIsLast' /\ FinalSeenOnce' /\ Placed'
    BY <1>1, <1>2 DEF Inv, EofIsLast, NoWriter, FinalSeenOnce, Placed
<1>10. Unavailable' /\ Verdict'
    BY <1>1, <1>2 DEF Inv, Unavailable, Verdict, Over
<1>11. Launched'
    BY <1>1, <1>2 DEF Inv, Launched, Starting
<1>12. Replies'
    BY <1>1, <1>2 DEF Inv, Replies, Requesting
<1>13. Ending'
    BY <1>1, <1>2, <1>7 DEF Ending, Shutting, Aborting, Over
<1>14. QED
    BY <1>3, <1>8, <1>9, <1>10, <1>11, <1>12, <1>13 DEF Inv

LEMMA PumpShutStep == ASSUME Inv, PumpShut PROVE Inv'
<1>1. /\ at \in {"shut", "shut_drain"} /\ at \notin Over /\ session \in Fields
      /\ pipe' \in {pipe, <<>>} /\ UNCHANGED <<child, late, status>>
    BY DEF PumpShut, Inv, Typed, Over
<1>2. CASE PumpRaises
    BY <1>1, <1>2, PumpCodes, PumpRaisesStep DEF PumpShut
<1>3. CASE ~PumpRaises
    <2>1. pipe' = <<>>
        BY <1>3, PumpIsInTime DEF PumpShut
    <2>2. PICK next \in {"shut_poll", "shut_drain"} : Go(Pumped, next)
        BY <1>3 DEF PumpShut
    <2>3. Onward(next) /\ next # "take"
        BY <1>1, <2>2 DEF Onward, Over, Aborting, Places, Requesting, Shutting, Starting
    <2>4. QED
        BY <1>1, <1>3, <2>1, <2>2, <2>3, PumpMoves
<1>4. QED
    BY <1>2, <1>3

(* A poll that moves control and nothing else. *)
LEMMA PollMoves ==
    ASSUME Inv, NEW after \in Polled, ~after.raises, child' = after.child, NEW next,
           Go(after.session, next),
           UNCHANGED <<pipe, late, status>>, at \notin Over \cup Starting, next # "take",
           Onward(next) \/ (at \in Aborting /\ next = at)
    PROVE  Inv'
<1> DEFINE s == after.session
<1>1. s \in Fields
    BY PolledFields
<1>2. session' = s /\ at' = next
    BY DEF Go
<1> HIDE DEF s
<1>3. s.sending \in BOOLEAN /\ s = [s EXCEPT !.sending = s.sending]
    BY <1>1 DEF Fields
<1>4. s.sending \in BOOLEAN /\ session' = [after.session EXCEPT !.sending = s.sending]
    BY <1>2, <1>3 DEF s
<1>5. QED
    BY <1>2, <1>4, PollStep

LEMMA PollShutStep == ASSUME Inv, PollShut PROVE Inv'
<1>1. PICK after \in Polled :
          /\ child' = after.child
          /\ IF after.raises THEN Raise(after.session, "ptrace-stop") ELSE Go(after.session, "shut")
    BY DEF PollShut
<1>2. at = "shut_poll" /\ UNCHANGED <<pipe, late, status>>
    BY DEF PollShut
<1>3. at \notin Over \cup Starting /\ Onward("shut")
    BY <1>2 DEF Onward, Over, Aborting, Places, Requesting, Shutting, Starting
<1>4. CASE after.raises
    <2>1. session' = Failed(after.session, "ptrace-stop") /\ at' = "kill" /\ at \notin Over
        BY <1>1, <1>3, <1>4 DEF Raise, Go
    <2>2. QED
        BY <1>1, <1>2, <1>4, <2>1, PollRaisesStep
<1>5. CASE ~after.raises
    BY <1>1, <1>2, <1>3, <1>5, PollMoves
<1>6. QED
    BY <1>4, <1>5

LEMMA ShutDeadlineStep == ASSUME Inv, ShutDeadline PROVE Inv'
<1>1. /\ at \in {"shut", "shut_drain"} /\ at \notin Over /\ session \in Fields /\ late \in BOOLEAN
      /\ UNCHANGED <<child, pipe, status>>
    BY DEF ShutDeadline, Inv, Typed, Over
<1>2. CASE at = "shut" /\ session.reaped
    <2>1. Go(session, "shut_drain") /\ late' \in BOOLEAN /\ Onward("shut_drain")
        BY <1>2 DEF ShutDeadline, Onward, Over, Aborting, Places, Requesting, Shutting, Starting
    <2>2. QED
        BY <1>1, <2>1, RunningFields, MoveStep
<1>3. CASE ~(at = "shut" /\ session.reaped)
    <2>1. "shutdown-timeout" \in Reasons
        BY DEF Codes, Reasons
    <2>2. Raise(session, "shutdown-timeout") /\ late' = late
        BY <1>3 DEF ShutDeadline
    <2>3. QED
        BY <1>1, <2>1, <2>2, RaisesAsIs
<1>4. QED
    BY <1>2, <1>3

LEMMA JudgeStep == ASSUME Inv, Judge PROVE Inv'
<1>1. /\ at \in {"shut", "shut_drain"} /\ at \notin Over /\ session \in Fields /\ Settled
      /\ UNCHANGED <<child, pipe, late, status>>
    BY DEF Judge, Inv, Typed, Over
<1>2. {"trailing-output", "candidate-exit"} \subseteq Reasons
    BY DEF Codes, Reasons
<1>3. CASE session.buffer # <<>>
    BY <1>1, <1>2, <1>3, RaisesAsIs DEF Judge
<1>4. CASE session.buffer = <<>> /\ child.code # "zero"
    BY <1>1, <1>2, <1>4, RaisesAsIs DEF Judge
<1>5. CASE /\ session.buffer = <<>> /\ child.code = "zero"
           /\ session.final \in {"none", "unavailable"}
    <2>1. /\ session' = [Failed(session, "final-fp-observation-unavailable") EXCEPT !.clean = TRUE]
          /\ at' = "result"
        BY <1>5 DEF Judge, Go
    <2>2. /\ session' \in Fields /\ session'.failure # "none"
          /\ session'.final = session.final /\ session'.eof = session.eof
        BY <1>1, <2>1 DEF Failed, Fields, Codes
    <2>8. /\ session'.failure = IF session.failure = "none" THEN "final-fp-observation-unavailable"
                               ELSE session.failure
          /\ session'.left = session.left /\ session'.closing = session.closing
          /\ session'.buffer = session.buffer /\ session'.responses = session.responses
          /\ session'.sent = session.sent /\ session'.launch = session.launch
        BY <1>1, <2>1 DEF Failed, Fields
    <2>9. session.failure \in {"none", "final-fp-observation-unavailable"}
        BY <1>1, <1>5 DEF Inv, Ending, Shutting
    <2>10. Launched' /\ Replies'
        BY <1>1, <2>1, <2>2, <2>8, <2>9 DEF Inv, Launched, Replies, Starting, Requesting
    <2>11. Ending'
        BY <1>1, <1>5, <2>1, <2>8, <2>9 DEF Inv, Ending, Shutting, Over
    <2>3. Typed'
        BY <1>1, <2>1, <2>2 DEF Inv, Typed, Places, Over
    <2>4. Sound'
        BY <2>2 DEF Sound
    <2>5. EofIsLast' /\ FinalSeenOnce' /\ Unavailable' /\ Placed'
        BY <1>1, <1>5, <2>1, <2>2 DEF Inv, EofIsLast, NoWriter, FinalSeenOnce, Unavailable, Placed, Over
    <2>6. Verdict'
        BY <1>1, <2>1 DEF Inv, Verdict
    <2>7. QED
        BY <2>3, <2>4, <2>5, <2>6, <2>10, <2>11 DEF Inv
<1>6. CASE /\ session.buffer = <<>> /\ child.code = "zero"
           /\ session.final \notin {"none", "unavailable"}
    <2> DEFINE s == [session EXCEPT !.clean = session.failure = "none"]
    <2>1. session' = s /\ at' = "result"
        BY <1>6 DEF Judge, Go
    <2>2. /\ s \in Fields /\ s.buffer = session.buffer /\ s.responses = session.responses
          /\ s.sent = session.sent /\ s.failure = session.failure /\ s.final = session.final
          /\ s.reaped = session.reaped /\ s.eof = session.eof /\ s.launch = session.launch
          /\ s.clean = (session.failure = "none")
          /\ s.left = session.left /\ s.closing = session.closing
        BY <1>1 DEF Fields
    <2> HIDE DEF s
    <2>3. Typed'
        BY <1>1, <2>1, <2>2 DEF Inv, Typed, Places, Over
    <2>4. Consumed' = Consumed
        BY <1>1, <2>1, <2>2 DEF Consumed
    <2>5. (Stream => Stream') /\ (Taken => Taken')
        BY <1>1, <2>1, <2>2, <2>4 DEF Stream, Taken
    <2>6. Counted => Counted'
        BY <1>1, <2>1, <2>2 DEF Counted, Requesting, Shutting, Over
    <2>7. session.failure = "none" => session.final = "good"
        BY <1>6 DEF Inv, Sound
    <2>8. session'.failure = "none" => Settled'
        BY <1>1, <2>1, <2>2 DEF Settled
    <2>9. Sound'
        BY <1>1, <1>6, <2>1, <2>2, <2>5, <2>6, <2>7, <2>8 DEF Inv, Sound, Aborting, Over
    <2>10. EofIsLast' /\ FinalSeenOnce' /\ Unavailable' /\ Placed' /\ Verdict'
        BY <1>1, <2>1, <2>2 DEF Inv, EofIsLast, NoWriter, FinalSeenOnce, Unavailable, Placed, Verdict, Over
    <2>11. Launched' /\ Replies'
        BY <1>1, <2>1, <2>2 DEF Inv, Launched, Replies, Starting, Requesting
    <2>12. Ending'
        BY <1>1, <1>6, <2>1, <2>2 DEF Inv, Ending, Shutting, Over
    <2>13. QED
        BY <2>3, <2>9, <2>10, <2>11, <2>12 DEF Inv
<1>7. QED
    BY <1>3, <1>4, <1>5, <1>6

-----------------------------------------------------------------------------
(* _abort_and_reap and the result. *)

LEMMA KillStep == ASSUME Inv, NEW round \in 1..2, Kill(round) PROVE Inv'
<1>1. /\ session \in Fields /\ child \in Children /\ at \in {"kill", "kill_again"}
      /\ session' = session /\ at' \in {"reap", "reap_again"} /\ late' = FALSE
      /\ UNCHANGED <<pipe, status>>
      /\ \E heir \in {child.heir, child.heir /\ ~session.group} :
            child' = [child EXCEPT !.killed = child.killed \/ child.state \notin {"none", "gone"},
                                   !.heir = heir]
    BY DEF Kill, Go, Inv, Typed
<1>2. child' \in Children /\ child'.state = child.state /\ (child'.heir => child.heir)
    BY <1>1 DEF Children, Fields
<1>3. session.failure # "none"
    BY <1>1 DEF Inv, Sound, Aborting
<1>4. Typed'
    BY <1>1, <1>2 DEF Inv, Typed, Places, Aborting
<1>5. Sound'
    BY <1>1, <1>3 DEF Sound
<1>6. EofIsLast' /\ FinalSeenOnce' /\ Unavailable' /\ Placed' /\ Verdict'
    BY <1>1, <1>2 DEF Inv, EofIsLast, NoWriter, FinalSeenOnce, Unavailable, Placed, Verdict, Over
<1>7. Launched' /\ Replies' /\ Ending'
    BY <1>1 DEF Inv, Launched, Replies, Ending, Starting, Requesting, Shutting, Aborting, Over
<1>8. QED
    BY <1>4, <1>5, <1>6, <1>7 DEF Inv

LEMMA ReapStep == ASSUME Inv, Reap PROVE Inv'
<1>1. /\ session \in Fields /\ at \in {"reap", "reap_again"} /\ at \in Aborting
      /\ at \notin Over \cup Starting /\ late' \in BOOLEAN /\ UNCHANGED <<pipe, late, status>>
    BY DEF Reap, Inv, Typed, Aborting, Over, Starting
<1>2. CASE session.reaped \/ late
    <2>1. PICK next \in {"kill_again", IF session.closing THEN "result" ELSE "idle"} :
              Go(session, next)
        BY <1>2 DEF Reap, Aborted
    <2>2. next # "take" /\ next \in Aborting \cup {IF session.closing THEN "result" ELSE "idle"}
        BY <2>1 DEF Aborting
    <2>3. child' = child
        BY <1>2 DEF Reap
    <2>4. QED
        BY <1>1, <2>1, <2>2, <2>3, RunningFields, MoveStep
<1>3. CASE ~session.reaped /\ ~late
    <2>1. PICK after \in Polled : child' = after.child /\ Go(Checked(after), at)
        BY <1>3 DEF Reap
    <2>2. CASE after.raises
        <3>1. session' = Failed(after.session, "ptrace-stop") /\ at' = at
            BY <2>1, <2>2 DEF Checked, Go
        <3>2. QED
            BY <1>1, <2>1, <2>2, <3>1, PollRaisesStep
    <2>3. CASE ~after.raises
        <3>1. Go(after.session, at)
            BY <2>1, <2>3 DEF Checked
        <3>2. at # "take"
            BY <1>1
        <3>3. QED
            BY <1>1, <2>1, <2>3, <3>1, <3>2, PollMoves
    <2>4. QED
        BY <2>2, <2>3
<1>4. QED
    BY <1>2, <1>3

LEMMA ResultStep == ASSUME Inv, Result PROVE Inv'
<1> DEFINE unavailable == session.failure = "final-fp-observation-unavailable"
           clean == \/ session.clean
                    \/ /\ unavailable /\ Settled
                       /\ session.buffer = <<>> /\ child.code = "zero"
           s == [session EXCEPT !.clean = clean]
<1>1. /\ session \in Fields /\ at = "result" /\ at' = "ended" /\ session' = s
      /\ UNCHANGED <<child, pipe, late>>
      /\ status' = IF unavailable \/ (session.failure = "launch" /\ session.launch = "inconclusive")
                   THEN "inconclusive"
                   ELSE IF session.failure # "none" THEN "failed"
                   ELSE IF clean THEN "supported"
                   ELSE IF session.launch = "none" THEN "inconclusive" ELSE session.launch
    BY DEF Result, Go, Inv, Typed
<1>2. clean \in BOOLEAN
    BY <1>1 DEF Fields
<1>3. /\ session.clean => clean
      /\ clean => session.buffer = <<>> /\ session.failure \in {"none", "final-fp-observation-unavailable"}
      /\ session.failure = "none" /\ clean => session.clean
    BY <1>1 DEF Inv, Ending
<1> HIDE DEF clean
<1>4. /\ s \in Fields /\ s.buffer = session.buffer /\ s.responses = session.responses
      /\ s.sent = session.sent /\ s.failure = session.failure /\ s.final = session.final
      /\ s.reaped = session.reaped /\ s.eof = session.eof /\ s.launch = session.launch
      /\ s.clean = clean /\ s.left = session.left /\ s.closing = session.closing
    BY <1>1, <1>2 DEF Fields
<1> HIDE DEF s
<1>5. session.failure = "none" => clean \/ session.launch = "none"
    BY <1>1, <1>3 DEF Inv, Sound, Over
<1>6. /\ status' \in {"supported", "failed", "inconclusive"}
      /\ status' = "supported" => session.failure = "none" /\ clean
      /\ status' = "inconclusive" => unavailable \/ session.launch \in {"none", "inconclusive"}
      /\ status' = "failed" => session.failure \notin {"none", "final-fp-observation-unavailable"}
    BY <1>1, <1>5
<1>7. Typed'
    BY <1>1, <1>4, <1>6 DEF Inv, Typed, Places, Over
<1>8. Consumed' = Consumed
    BY <1>1, <1>4 DEF Consumed
<1>9. (Stream => Stream') /\ (Taken => Taken')
    BY <1>1, <1>4, <1>8 DEF Stream, Taken
<1>10. Counted => Counted'
    BY <1>1, <1>4 DEF Counted, Requesting, Shutting, Over
<1>11. Sound'
    BY <1>1, <1>3, <1>4, <1>5, <1>9, <1>10 DEF Inv, Sound, Aborting, Over, Settled
<1>12. EofIsLast' /\ FinalSeenOnce' /\ Unavailable' /\ Placed'
    BY <1>1, <1>4 DEF Inv, EofIsLast, NoWriter, FinalSeenOnce, Unavailable, Placed, Over
<1>13. Verdict'
    BY <1>1, <1>4, <1>6 DEF Verdict
<1>14. Launched' /\ Replies'
    BY <1>1, <1>4 DEF Inv, Launched, Replies, Starting, Requesting
<1>15. Ending'
    BY <1>1, <1>3, <1>4 DEF Inv, Ending, Shutting, Over
<1>16. QED
    BY <1>7, <1>11, <1>12, <1>13, <1>14, <1>15 DEF Inv

-----------------------------------------------------------------------------
LEMMA SessionPreserves == ASSUME Inv, SessionStep PROVE Inv'
    BY SpawnStep, StartStopStep, ExecStopStep, LaunchFailsStep, BeginRequestStep, PumpRequestStep,
       PollRequestStep, DrainRequestStep, TakeLineStep, QuietOverStep, QuietPumpStep,
       BeginCloseStep, PumpShutStep, PollShutStep, ShutDeadlineStep, JudgeStep, KillStep,
       ReapStep, ResultStep
    DEF SessionStep

LEMMA Inductive == ASSUME Inv, [TransportNext]_transportVars PROVE Inv'
<1>1. CASE ChildStep
    BY <1>1, CandidateStep
<1>2. CASE Tick
    BY <1>2, TickStep
<1>3. CASE SessionStep
    BY <1>3, SessionPreserves
<1>6. CASE Leave
    BY <1>6, LeaveStep
<1>4. CASE UNCHANGED transportVars
    <2>1. UNCHANGED <<child, pipe, late, at, session, status>>
        BY <1>4 DEF transportVars
    <2>2. Consumed' = Consumed
        BY <2>1 DEF Consumed
    <2>3. (Stream => Stream') /\ (Taken => Taken') /\ (Counted => Counted')
        BY <2>1, <2>2 DEF Stream, Taken, Counted
    <2>4. Sound'
        BY <2>1, <2>3 DEF Inv, Sound, Settled
    <2>5. QED
        BY <2>1, <2>4 DEF Inv, Typed, EofIsLast, NoWriter, FinalSeenOnce, Unavailable, Placed, HasLine, Verdict,
            Launched, Replies, Ending
<1>5. QED
    BY <1>1, <1>2, <1>3, <1>4, <1>6 DEF TransportNext

LEMMA Invariance == TransportSpec => []Inv
<1>1. Inv /\ [TransportNext]_transportVars => Inv'
    BY Inductive
<1>2. QED
    BY InitialTransport, <1>1, PTL DEF TransportSpec

LEMMA EndedHasEarned ==
    ASSUME Inv, status = "supported"
    PROVE  /\ OnlyAnswers(child.wrote, Len(session.responses))
           /\ session.responses = [i \in 1..Len(session.responses) |-> i]
           /\ session.left \/ Len(session.responses) = FrameCount
           /\ session.buffer = <<>> /\ pipe = <<>>
           /\ child.state = "gone" /\ child.code = "zero" /\ ~child.killed /\ ~child.heir
           /\ session.launch = "observed" /\ session.final = "good"
<1>1. /\ at = "ended" /\ at \in Over /\ at \notin Requesting
      /\ session.failure = "none" /\ session.clean
    BY DEF Inv, Verdict, Over, Requesting
<1>2. /\ Stream /\ Taken /\ Counted /\ ~child.killed
      /\ session.reaped => child.state = "gone"
      /\ Settled /\ session.buffer = <<>> /\ child.code = "zero" /\ session.final = "good"
    BY <1>1 DEF Inv, Sound
<1>3. child.state = "gone" /\ pipe = <<>> /\ ~child.heir
    BY <1>1, <1>2 DEF Inv, Sound, Settled, EofIsLast, NoWriter
<1>4. /\ child.wrote \in Seq(Tokens) /\ session.responses \in Seq(Lines)
      /\ Len(child.wrote) \in Nat /\ FrameCount \in Nat
    BY TransportAssumption DEF Inv, Typed, Children, Fields
<1>5. Consumed = Len(child.wrote)
    <2>1. Len(session.buffer) = 0 /\ Len(pipe) = 0
        BY <1>2, <1>3
    <2>2. QED
        BY <1>4, <2>1 DEF Consumed
<1>6. session.left \/ Len(session.responses) = FrameCount
    BY <1>1, <1>2 DEF Counted
<1>7. session.responses = [i \in 1..Len(session.responses) |-> i]
    <2>1. DOMAIN session.responses = 1..Len(session.responses)
        BY <1>4
    <2>2. session.responses = [i \in DOMAIN session.responses |-> session.responses[i]]
        BY <1>4
    <2>3. QED
        BY <1>2, <2>1, <2>2 DEF Taken
<1>8. OnlyAnswers(child.wrote, Len(session.responses))
    <2>1. DOMAIN child.wrote = 1..Len(child.wrote)
        BY <1>4
    <2>2. \A f \in 1..Len(session.responses) : \E k \in DOMAIN child.wrote : child.wrote[k] = f
        BY <1>2, <1>5, <2>1 DEF Taken
    <2>3. \A k \in DOMAIN child.wrote : child.wrote[k] \in (1..Len(session.responses)) \cup {Half}
        BY <1>2, <1>5, <2>1 DEF Taken
    <2>4. \A j, k \in DOMAIN child.wrote :
            j < k /\ child.wrote[j] # Half /\ child.wrote[k] # Half => child.wrote[j] < child.wrote[k]
        BY <1>2, <1>5, <2>1 DEF Taken
    <2>5. QED
        BY <2>2, <2>3, <2>4 DEF OnlyAnswers
<1>9. session.launch = "observed"
    BY <1>2 DEF Inv, Launched
<1>10. QED
    BY <1>2, <1>3, <1>6, <1>7, <1>8, <1>9

(* A supported session has earned it, for any number of frames and of      *)
(* writes: ExactCandidateSession calls nothing supported but a candidate   *)
(* that wrote the answers that were taken (to all frames unless run was    *)
(* left), in order and whole, and nothing else, exited by itself with 0,   *)
(* was reaped, left no descendant on the pipe, and was seen in its final   *)
(* FP state at the exit stop.                                              *)
THEOREM SupportedIsAlwaysEarned == TransportSpec => []SupportedIsEarned
<1>1. Inv => SupportedIsEarned
    <2> SUFFICES ASSUME Inv PROVE SupportedIsEarned
        OBVIOUS
    <2>1. status = "inconclusive" =>
            session.launch \in {"none", "inconclusive"} \/ session.final \in {"none", "unavailable"}
        BY DEF Inv, Verdict, Unavailable
    <2>2. at = "ended" => status \in {"supported", "failed", "inconclusive"}
        BY DEF Inv, Verdict, Typed
    <2>3. QED
        BY EndedHasEarned, <2>1, <2>2 DEF SupportedIsEarned
<1>2. QED
    BY Invariance, <1>1, PTL

(* What a session hands to the driver, for any number of frames and any    *)
(* candidate: however run ended, in its own result or in any exception of  *)
(* another kind, the closed session counts at most one request without an  *)
(* answer, only its last answer may be a strange one and then it is not    *)
(* supported, it is clean only with nothing left over and not failed, and  *)
(* a run that returned supported has all the answers.                      *)
THEOREM ResultsAreAlwaysAsPromised == TransportSpec => []ResultIsAsPromised
<1>1. ASSUME Inv, at = "ended" PROVE Outcome \in ClosedSessions(FrameCount)
    <2>1. /\ session \in Fields /\ status \in {"supported", "failed", "inconclusive"}
          /\ session.sent \in 0..FrameCount /\ session.responses \in Seq(Lines)
          /\ session.launch \in {"none", "observed", "failed", "inconclusive"}
          /\ session.clean \in BOOLEAN
        BY <1>1 DEF Inv, Typed, Verdict, Fields
    <2> DEFINE answered == Len(session.responses)
               strange == \E i \in DOMAIN session.responses : session.responses[i] # i
               trailing == session.buffer # <<>>
               observed == session.launch = "observed" /\ session.final \in {"good", "drift"}
    <2>2. answered \in 0..FrameCount /\ answered \in {session.sent - 1, session.sent}
        <3>1. answered \in {session.sent - 1, session.sent}
            BY <1>1 DEF Inv, Replies
        <3>2. answered \in Nat
            BY <2>1
        <3> HIDE DEF answered
        <3>3. QED
            BY <2>1, <3>1, <3>2, TransportAssumption
    <2>3. /\ strange \in BOOLEAN /\ trailing \in BOOLEAN /\ observed \in BOOLEAN
        OBVIOUS
    <2>4. strange => answered = session.sent /\ status # "supported"
        <3> SUFFICES ASSUME NEW i \in DOMAIN session.responses, session.responses[i] # i
                     PROVE  answered = session.sent /\ status # "supported"
            OBVIOUS
        <3>1. i = session.sent /\ session.failure # "none"
            BY <1>1 DEF Inv, Replies
        <3>2. DOMAIN session.responses = 1..answered
            BY <2>1
        <3> HIDE DEF answered
        <3>3. session.sent <= answered
            BY <2>2, <3>1, <3>2
        <3>4. answered = session.sent
            BY <2>1, <2>2, <3>3, TransportAssumption
        <3>5. QED
            BY <1>1, <3>1, <3>4 DEF Inv, Verdict
    <2>5. session.clean => ~trailing /\ status # "failed"
        BY <1>1 DEF Inv, Ending, Verdict
    <2>6. status = "supported" => session.clean
        BY <1>1 DEF Inv, Verdict
    <2>7. status = "inconclusive" => ~observed
        BY <1>1 DEF Inv, Verdict, Unavailable
    <2>8. status = "supported" => observed
        BY <1>1, EndedHasEarned
    <2> DEFINE o == [sent |-> session.sent, answered |-> answered, strange |-> strange,
                     trailing |-> trailing, status |-> status, clean |-> session.clean,
                     observed |-> observed]
    <2>9. Outcome = o
        BY DEF Outcome
    <2> HIDE DEF answered, strange, trailing, observed
    <2>10. o \in ClosedSessions(FrameCount)
        BY <2>1, <2>2, <2>3, <2>4, <2>5, <2>6, <2>7, <2>8 DEF ClosedSessions
    <2>11. QED
        BY <2>9, <2>10
<1>2. ASSUME Inv, at = "ended", ~session.left PROVE Outcome \in ReturnedSessions(FrameCount)
    <2>1. status = "supported" => Len(session.responses) = FrameCount
        BY <1>2, EndedHasEarned
    <2>2. Outcome.status = status /\ Outcome.answered = Len(session.responses)
        BY DEF Outcome
    <2>3. QED
        BY <1>1, <1>2, <2>1, <2>2 DEF ReturnedSessions
<1>3. Inv => ResultIsAsPromised
    BY <1>1, <1>2 DEF ResultIsAsPromised
<1>4. QED
    BY Invariance, <1>3, PTL

-----------------------------------------------------------------------------
(* Which failure a step may record. *)

LEMMA RaiseRecords ==
    ASSUME NEW s \in Fields, NEW code \in Codes, Raise(s, code), s.failure = "none"
    PROVE  session'.failure = code
    BY DEF Raise, Go, Failed, Fields

(* No step but DrainRequest calls an exit early, and that one only when    *)
(* the pumped buffer is not enough.                                        *)
LEMMA OnlyDrainCallsTheExit ==
    ASSUME Inv, SessionStep, session.failure = "none", session'.failure = "candidate-exited"
    PROVE  DrainRequest
<1> USE DEF Codes
<1>1. /\ session \in Fields /\ Pumped \in Fields /\ Pumped.failure = "none"
      /\ PumpCode \in {"io-timeout", "stdout-cap"}
    BY PumpedFields DEF PumpCode, Inv, Typed
<1>2. ASSUME NEW works \in BOOLEAN, Spawn(works) PROVE FALSE
    <2>1. CASE works
        BY <1>2, <2>1 DEF Spawn, Go
    <2>2. CASE ~works
        <3>1. PICK verdict \in {"failed", "inconclusive"} :
                  Raise([session EXCEPT !.launch = verdict, !.reaped = TRUE], "launch")
            BY <1>2, <2>2 DEF Spawn
        <3> DEFINE s == [session EXCEPT !.launch = verdict, !.reaped = TRUE]
        <3>2. s \in Fields /\ s.failure = "none"
            BY <1>1 DEF Fields
        <3> HIDE DEF s
        <3>3. Raise(s, "launch")
            BY <3>1 DEF s
        <3>4. QED
            BY <3>2, <3>3, RaiseRecords
    <2>3. QED
        BY <2>1, <2>2
<1>3. ~StartStop /\ ~ExecStop
    BY <1>1 DEF StartStop, ExecStop, Go, Fields
<1>4. ~LaunchFails
    <2> SUFFICES ASSUME LaunchFails PROVE FALSE
        OBVIOUS
    <2>1. PICK verdict \in {"failed", "inconclusive"} :
              Raise([session EXCEPT !.launch = verdict], "launch")
        BY DEF LaunchFails
    <2> DEFINE s == [session EXCEPT !.launch = verdict]
    <2>2. s \in Fields /\ s.failure = "none"
        BY <1>1 DEF Fields
    <2> HIDE DEF s
    <2>3. Raise(s, "launch")
        BY <2>1 DEF s
    <2>4. QED
        BY <2>2, <2>3, RaiseRecords
<1>5. ~BeginRequest
    <2>1. Raise(session, "trailing-output") => FALSE
        BY <1>1, RaiseRecords
    <2>2. QED
        BY <1>1, <2>1 DEF BeginRequest, Go, Fields
<1>6. ASSUME NEW code \in {"io-timeout", "stdout-cap", "stdin-write", "extra-output"},
             NEW s \in {session, Pumped} \cup PumpRaised, Raise(s, code)
      PROVE  FALSE
    <2>1. [session EXCEPT !.buffer = @ \o pipe] \in Fields
          /\ [session EXCEPT !.buffer = @ \o pipe].failure = "none"
        <3>1. session.buffer \o pipe \in Seq(Tokens)
            BY RunningFields DEF Fields
        <3>2. QED
            BY <1>1, <3>1 DEF Fields
    <2>2. s \in Fields /\ s.failure = "none"
        BY <1>1, <2>1 DEF PumpRaised
    <2>3. QED
        BY <1>6, <2>2, RaiseRecords
<1>7. ASSUME NEW next, Go(Pumped, next) PROVE FALSE
    BY <1>1, <1>7 DEF Go
<1>8. ~PumpRequest
    <2> SUFFICES ASSUME PumpRequest PROVE FALSE
        OBVIOUS
    <2>1. /\ \A s \in PumpRaised : ~Raise(s, PumpCode)
          /\ \A s \in {session, Pumped} : ~Raise(s, "stdin-write")
        BY <1>1, <1>6
    <2>2. PICK left \in {session.pending, FALSE} : Go([Pumped EXCEPT !.pending = left], "poll")
        BY <2>1 DEF PumpRequest
    <2> DEFINE p == Pumped
    <2>3. session' = [p EXCEPT !.pending = left] /\ p \in Fields /\ p.failure = "none"
        BY <1>1, <2>2 DEF Go
    <2> HIDE DEF p
    <2>4. QED
        BY <2>3 DEF Fields
<1>9. ASSUME NEW after \in Polled
      PROVE  /\ after.session \in Fields
             /\ after.session.failure \in {"none", "final-fp-state-drift",
                                          "final-fp-observation-unavailable"}
    <2>1. CASE after.session = session
        BY <1>1, <2>1
    <2>2. CASE after.session = [session EXCEPT !.reaped = TRUE]
        BY <1>1, <2>2 DEF Fields
    <2>3. ASSUME NEW final \in Finals,
                 \/ after.session = Observed(final)
                 \/ after.session = [session EXCEPT !.final = final]
          PROVE  /\ after.session \in Fields
                 /\ after.session.failure \in {"none", "final-fp-state-drift",
                                              "final-fp-observation-unavailable"}
        <3> DEFINE seen == [session EXCEPT !.final = final]
        <3>1. final \in {"good", "drift", "unavailable"}
            BY FinalsAreObserved
        <3>2. seen \in Fields /\ seen.failure = "none"
            BY <1>1, <3>1 DEF Fields
        <3>3. CASE after.session = seen
            BY <3>2, <3>3
        <3>4. CASE after.session = Observed(final)
            <4>1. \A code : Failed(seen, code) = [seen EXCEPT !.failure = code]
                BY <3>2 DEF Failed
            <4>2. \/ after.session = seen
                  \/ \E code \in {"final-fp-state-drift", "final-fp-observation-unavailable"} :
                        after.session = [seen EXCEPT !.failure = code]
                BY <3>4, <4>1 DEF Observed
            <4> HIDE DEF seen
            <4>3. QED
                BY <3>2, <4>2 DEF Fields
        <3>5. QED
            BY <2>3, <3>3, <3>4
    <2>4. QED
        BY <2>1, <2>2, <2>3, PolledSessions
<1>10. ~PollRequest
    <2> SUFFICES ASSUME PollRequest PROVE FALSE
        OBVIOUS
    <2>1. PICK after \in Polled :
              IF after.raises THEN Raise(after.session, "ptrace-stop")
              ELSE IF after.session.reaped /\ ~Enough(after.session)
                   THEN Go(after.session, "drain") ELSE LoopOn(after.session)
        BY DEF PollRequest
    <2> DEFINE s == after.session
    <2>2. s \in Fields /\ s.failure # "candidate-exited"
        BY <1>9
    <2>3. \/ session' = s \/ session' = [s EXCEPT !.sending = s.pending]
          \/ session' = Failed(s, "ptrace-stop")
        BY <2>1 DEF LoopOn, Go, Raise
    <2> HIDE DEF s
    <2>4. QED
        BY <2>2, <2>3 DEF Fields, Failed
<1>11. ~TakeLine
    <2> SUFFICES ASSUME TakeLine PROVE FALSE
        OBVIOUS
    <2>1. PICK responses, buffer :
              LET s == [session EXCEPT !.responses = responses, !.buffer = buffer]
              IN  Go(s, "quiet") \/ Raise(s, "response-request-id-mismatch")
        BY DEF TakeLine
    <2>2. QED
        BY <1>1, <2>1 DEF Go, Raise, Failed, Fields
<1>12. ~QuietOver /\ ~QuietPump
    BY <1>1, <1>6, <1>7 DEF QuietOver, QuietPump, Go
<1>13. ~BeginClose
    BY <1>1 DEF BeginClose, Go, Fields
<1>14. ~PumpShut
    BY <1>1, <1>6, <1>7 DEF PumpShut
<1>15. ~PollShut
    BY <1>9 DEF PollShut, Go, Raise, Failed, Fields
<1>16. ~ShutDeadline
    BY <1>1, RaiseRecords DEF ShutDeadline, Go
<1>17. ~Judge
    <2>1. ~Raise(session, "trailing-output") /\ ~Raise(session, "candidate-exit")
        BY <1>1, RaiseRecords
    <2>2. QED
        BY <1>1, <2>1 DEF Judge, Go, Failed, Fields
<1>18. ~(\E round \in 1..2 : Kill(round))
    BY DEF Kill, Go
<1>19. ~Reap
    BY <1>9 DEF Reap, Checked, Go, Failed, Fields
<1>20. ~Result
    BY <1>1 DEF Result, Go, Fields
<1>21. QED
    BY <1>2, <1>3, <1>4, <1>5, <1>8, <1>10, <1>11, <1>12, <1>13, <1>14, <1>15, <1>16, <1>17,
       <1>18, <1>19, <1>20 DEF SessionStep

(* A queued answer wins over the exit of the candidate: request_frame does *)
(* not give a request up as candidate-exited, before its deadline, while   *)
(* a whole line is in the buffer or in the pipe.                           *)
THEOREM QueuedResponsesAlwaysWin == TransportSpec => QueuedResponseWins
<1> DEFINE A == session.failure = "none" /\ session'.failure = "candidate-exited" /\ ~late =>
                    ~HasLine(session.buffer \o pipe)
<1>1. ASSUME Inv, [TransportNext]_transportVars PROVE A
    <2> SUFFICES ASSUME session.failure = "none", session'.failure = "candidate-exited", ~late
                 PROVE  ~HasLine(session.buffer \o pipe)
        OBVIOUS
    <2>8. ~Leave
        BY <1>1 DEF Leave, Go, Inv, Typed, Fields
    <2>1. SessionStep
        BY <1>1, <2>8
           DEF TransportNext, ChildStep, Write, Exit, Fork, Release, Signal, Die, Candidate, Tick,
               transportVars
    <2>2. DrainRequest
        BY <1>1, <2>1, OnlyDrainCallsTheExit
    <2>3. /\ session \in Fields /\ Pumped \in Fields /\ Pumped.failure = "none"
          /\ Pumped.buffer = session.buffer \o pipe
        BY <1>1, PumpedFields DEF Inv, Typed
    <2>4. CASE PumpRaises
        <3>1. PICK s \in PumpRaised : Raise(s, "stdout-cap")
            BY <2>2, <2>4 DEF DrainRequest, PumpCode
        <3>3. s.failure = "none" /\ s \in Fields
            <4>1. session.buffer \o pipe \in Seq(Tokens)
                BY <1>1, RunningFields DEF Fields
            <4>2. QED
                BY <2>3, <4>1 DEF PumpRaised, Fields
        <3>2. session'.failure = "stdout-cap"
            BY <3>1, <3>3, RaiseRecords DEF Codes
        <3>4. QED
            BY <3>2
    <2>5. CASE ~PumpRaises /\ Enough(Pumped)
        <3> DEFINE p == Pumped
        <3>1. session' = [p EXCEPT !.sending = p.pending] /\ p \in Fields /\ p.failure = "none"
            BY <2>2, <2>3, <2>5 DEF DrainRequest, LoopOn, Go
        <3> HIDE DEF p
        <3>2. QED
            BY <3>1 DEF Fields
    <2>6. CASE ~Enough(Pumped)
        <3>1. Pumped.buffer = <<>> \/ ~HasLine(Pumped.buffer)
            BY <2>6 DEF Enough
        <3>2. ~HasLine(<<>>)
            BY DEF HasLine
        <3>3. QED
            BY <2>3, <3>1, <3>2
    <2>7. QED
        BY <2>4, <2>5, <2>6
<1>2. QED
    BY Invariance, <1>1, PTL DEF QueuedResponseWins, TransportSpec
=============================================================================
