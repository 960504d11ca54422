------------------------------ MODULE ExactAttempt ------------------------------
(***************************************************************************)
(* phase3_exact_attempt.py after the reservation: the three candidate      *)
(* sessions one after the other, what is kept of each (also of one that    *)
(* raised), the one adjudication of everything that was kept, and the      *)
(* result the evidence contract derives from it and accepts or refuses.    *)
(* A session is one value, constrained by what ExactTransport promises     *)
(* (ClosedSession); hashes of frames are their counts.  Custody: the       *)
(* identities of a session are "whole"; "missing", when only the terminal  *)
(* cwd is; or a "mismatch", which is every other issue.                    *)
(***************************************************************************)
EXTENDS ClosedSession, Sequences, FiniteSets

CONSTANTS RequestCount, \* requests of each role's cohort
          Preflight     \* control cases that are never dispatched

ROLE_ORDER == <<"development", "held-out", "controls">>

ASSUME AttemptAssumption ==
    RequestCount \in [{ROLE_ORDER[i] : i \in DOMAIN ROLE_ORDER} -> Nat \ {0}]

VARIABLES
    phase,          \* where the driver is
    turn,           \* the role whose session runs
    session,        \* none, or the state of the candidate session
    responses,      \* (role, index) of the responses for adjudication
    observations,   \* process_observations
    kinds,          \* history: what each session really was
    adjudications,  \* status of every case
    published       \* status of the published result; "none", "recorded", "lost"

attemptVars == <<phase, turn, session, responses, observations, kinds, adjudications, published>>

Role == ROLE_ORDER[turn]
Count(role) == RequestCount[role]
Nil == [status |-> "nil"]     \* None
Absent == -1                  \* a hash pair that is None

Summary(s) ==
    [sent |-> s.sent, answered |-> Len(s.answers),
     strange |-> \E i \in DOMAIN s.answers : s.answers[i] = "wrong",
     trailing |-> s.trailing, status |-> s.status, clean |-> s.clean,
     observed |-> s.observed]

(* What a session that was closed may hold: only its last answer may be to *)
(* another request, the validator has its own mind about the others, and   *)
(* custody may be doubtful for reasons that the transport does not know.   *)
Sessions(role) ==
    {s \in [sent : 0..Count(role),
            answers : UNION {[1..k -> {"valid", "invalid", "wrong"}] : k \in 0..Count(role)},
            trailing : BOOLEAN, status : {"supported", "failed", "inconclusive"},
            clean : BOOLEAN, observed : BOOLEAN, custody : {"whole", "missing", "mismatch"}] :
        /\ Summary(s) \in ClosedSessions(Count(role))
        /\ \A i \in DOMAIN s.answers : s.answers[i] = "wrong" => i = Len(s.answers)}

Init ==
    /\ phase = "prepare" /\ turn = 1 /\ session = Nil
    /\ responses = <<>> /\ observations = <<>> /\ kinds = <<>>
    /\ adjudications = <<>> /\ published = "none"

-----------------------------------------------------------------------------
(* One session, as the driver sees it. *)

ValidPrefixSkipping(s) ==                      \* mutant: goes on after a bad response
    {i \in DOMAIN s.answers : s.answers[i] = "valid"}

(* The responses up to the first one that is not validated.                *)
ValidPrefix(s) == {i \in DOMAIN s.answers : \A j \in 1..i : s.answers[j] = "valid"}

Nth(S, n) == CHOOSE i \in S : Cardinality({j \in S : j < i}) = n - 1

Pairs(role, s) ==
    IF s = Nil THEN <<>>
    ELSE [n \in 1..Cardinality(ValidPrefix(s)) |-> <<role, Nth(ValidPrefix(s), n)>>]

View(role, s, count) ==
    LET extra == \E i \in DOMAIN s.answers : s.answers[i] # "valid"
        missing == s.sent < Count(role) \/ Cardinality(ValidPrefix(s)) < s.sent
    IN [requests |-> s.sent, responses |-> count, marked |-> extra \/ s.trailing \/ missing,
        status |-> IF extra \/ s.trailing THEN "failed"
                   ELSE IF missing /\ s.status = "supported" THEN "inconclusive" ELSE s.status]

Unobserved ==
    [requests |-> Absent, responses |-> Absent, marked |-> TRUE, status |-> "inconclusive"]

TransportPrefixActual(role, s) ==              \* mutant: counts what the candidate wrote
    IF s = Nil THEN Unobserved ELSE View(role, s, Len(s.answers))

TransportPrefix(role, s) ==
    IF s = Nil THEN Unobserved ELSE View(role, s, Cardinality(ValidPrefix(s)))

Lifecycle(s) == IF s = Nil THEN "none" ELSE IF s.clean THEN "clean" ELSE "dirty"

Incomplete(role, s, status) ==
    LET view == TransportPrefix(role, s)
    IN [role |-> role, variant |-> "incomplete-v1", lifecycle |-> Lifecycle(s),
        requests |-> view.requests, responses |-> view.responses, marked |-> view.marked,
        status |-> IF status = "supported" THEN "inconclusive" ELSE status]

ProcessObservation(role, s) ==
    LET view == TransportPrefix(role, s)
        lacking == s.custody = "missing" \/ ~s.observed
        status == IF s.custody = "mismatch" \/ (lacking /\ view.status = "supported")
                  THEN "failed" ELSE view.status
        complete == /\ s.custody = "whole" /\ s.observed /\ ~view.marked
                    /\ view.requests = Count(role) /\ view.responses = Count(role)
    IN IF complete
       THEN [Incomplete(role, s, status) EXCEPT !.variant = "complete-v1", !.status = status]
       ELSE Incomplete(role, s, status)

(* Without a result the identities of a session are doubtful; whether the  *)
(* FP states were observed is not looked at here.                          *)
Salvaged(role, s, opened) ==
    LET view == TransportPrefix(role, s)
        doubtful == opened /\ (s = Nil \/ s.custody # "whole")
    IN Incomplete(role, s, IF doubtful THEN "failed" ELSE view.status)

(* History: what the session was, whatever was made of it.                 *)
Kind(role, s, returned) ==
    IF s = Nil THEN "short"
    ELSE IF \/ s.status = "failed" \/ s.trailing \/ s.custody = "mismatch"
            \/ \E i \in DOMAIN s.answers : s.answers[i] # "valid"
            \/ s.status = "supported" /\ s.custody # "whole"
         THEN "bad"
    ELSE IF s.status = "supported" /\ s.sent = Count(role) /\ returned THEN "whole" ELSE "short"

Keep(s, observation, kind) ==
    /\ responses' = responses \o Pairs(Role, s)
    /\ observations' = Append(observations, observation)
    /\ kinds' = Append(kinds, kind)
    /\ session' = Nil
    /\ IF turn = Len(ROLE_ORDER) THEN phase' = "adjudicate" /\ UNCHANGED turn
       ELSE phase' = "open" /\ turn' = turn + 1
    /\ UNCHANGED <<adjudications, published>>

-----------------------------------------------------------------------------
(* The driver. *)

(* An exception outside the loop over the roles: _retain_terminal_failure, *)
(* itself best effort.                                                     *)
Abandon ==
    /\ phase' = "ended"
    /\ published' \in {"recorded", "lost"}
    /\ UNCHANGED <<turn, session, responses, observations, kinds, adjudications>>

(* Work locations, platform, custody: all before the first session.        *)
Prepare(works) ==
    /\ phase = "prepare"
    /\ IF works THEN /\ phase' = "open"
                     /\ UNCHANGED <<turn, session, responses, observations, kinds,
                                    adjudications, published>>
       ELSE Abandon

Open(outcome) ==
    /\ phase = "open"
    /\ session' = [status |-> outcome]          \* "opened", or no session came back
    /\ phase' = IF outcome = "opened" THEN "run" ELSE "salvage"
    /\ UNCHANGED <<turn, responses, observations, kinds, adjudications, published>>

(* run returned the closed session's result.                               *)
RunReturns ==
    /\ phase = "run"
    /\ \E s \in Sessions(Role) :
        /\ Summary(s) \in ReturnedSessions(Count(Role))
        /\ Keep(s, ProcessObservation(Role, s), Kind(Role, s, TRUE))

(* run raised: before close began, or out of it.                           *)
RunRaises(closed) ==
    /\ phase = "run"
    /\ session' = [status |-> IF closed THEN "closed" ELSE "raised"]
    /\ phase' = "salvage"
    /\ UNCHANGED <<turn, responses, observations, kinds, adjudications, published>>

(* The except path of a role: close once for the result it still has, keep *)
(* an incomplete observation, and go on with the next role.                *)
Salvage ==
    /\ phase = "salvage"
    /\ \E s \in {Nil} \cup (IF session.status = "raised" THEN Sessions(Role) ELSE {}) :
        LET kept == Salvaged(Role, s, session.status # "unopened")
            kind == IF kept.status = "failed" THEN "bad" ELSE Kind(Role, s, FALSE)
        IN Keep(s, kept, kind)

-----------------------------------------------------------------------------
(* Adjudication *)

(* The global order: the cohort of each role, in the order of the roles.   *)
Before(p, q) ==
    \E i, j \in DOMAIN ROLE_ORDER :
        /\ p[1] = ROLE_ORDER[i] /\ q[1] = ROLE_ORDER[j]
        /\ i < j \/ (i = j /\ p[2] < q[2])

(* correlate_responses: known, once each, in the global dispatch order.    *)
Correlated ==
    /\ \A i \in DOMAIN responses : responses[i][2] \in 1..Count(responses[i][1])
    /\ \A i, j \in DOMAIN responses : i < j => Before(responses[i], responses[j])

Dispatched == UNION {{role} \X (1..Count(role)) : role \in DOMAIN RequestCount}
Received == {responses[i] : i \in DOMAIN responses}
Cases == Dispatched \cup ({"preflight"} \X Preflight)

Scored == Received \cup (Cases \ Dispatched)

(* adjudicate_exact: a case that was not received is inconclusive; of the  *)
(* others the oracle and the scorer say what they say.                     *)
Verdict(case, failed, unsure) ==
    IF case \in failed THEN "failed"
    ELSE IF case \in unsure \cup (Dispatched \ Received) THEN "inconclusive"
    ELSE IF case[1] = "held-out" THEN "supported" ELSE "observation"

Adjudicate ==
    /\ phase = "adjudicate"
    /\ IF ~Correlated THEN Abandon
       ELSE /\ phase' = "build"
            /\ \E failed \in SUBSET Scored :
                 \E unsure \in SUBSET (Scored \ failed) :
                    adjudications' = [case \in Cases |-> Verdict(case, failed, unsure)]
            /\ UNCHANGED <<turn, session, responses, observations, kinds, published>>

(* _validate_typed_success: the scorer contradicts the recipe.             *)
TypedMismatch == phase = "adjudicate" /\ Correlated /\ responses # <<>> /\ Abandon

-----------------------------------------------------------------------------
(* The evidence contract *)

ReceivedOf(role) == Cardinality({pair \in Received : pair[1] = role})

(* _validate_result_obj: three observations in the order of the roles,     *)
(* each derived from the adjudicated frames of its role.                   *)
ContractAccepts ==
    /\ Len(observations) = Len(ROLE_ORDER)
    /\ \A i \in DOMAIN observations :
        LET item == observations[i]
        IN /\ item.role = ROLE_ORDER[i]
           /\ IF item.variant = "complete-v1"
              THEN item.requests = Count(item.role) /\ item.responses = ReceivedOf(item.role)
              ELSE /\ item.status # "supported"
                   /\ item.requests = Absent <=> item.responses = Absent
                   /\ item.requests # Absent =>
                        /\ item.requests <= Count(item.role) /\ item.responses <= item.requests
                        /\ item.responses <= ReceivedOf(item.role)

Unhealthy(item) == item.status = "failed" \/ item.lifecycle = "dirty"
Short(item) == \/ item.variant = "incomplete-v1" \/ item.status = "inconclusive"
               \/ item.responses # item.requests \/ item.marked

ProcessHealthInOrder ==                        \* mutant: the first observation that is not good decides
    LET poor == {i \in DOMAIN observations : Unhealthy(observations[i]) \/ Short(observations[i])}
    IN IF poor = {} THEN "supported"
       ELSE IF Unhealthy(observations[CHOOSE i \in poor : \A j \in poor : i <= j])
            THEN "failed" ELSE "inconclusive"

(* Failures of every process first; only then what is incomplete.          *)
ProcessHealth ==
    IF \E i \in DOMAIN observations : Unhealthy(observations[i]) THEN "failed"
    ELSE IF \E i \in DOMAIN observations : Short(observations[i]) THEN "inconclusive"
    ELSE "supported"

DerivedStatus ==
    LET statuses == {adjudications[case] : case \in Cases} \cup {ProcessHealth}
    IN IF "failed" \in statuses THEN "failed"
       ELSE IF "inconclusive" \in statuses THEN "inconclusive"
       ELSE IF \A case \in Cases : case[1] = "held-out" => adjudications[case] = "supported"
            THEN "supported" ELSE "inconclusive"

(* build_result, build_receipt, build_attempt_index.                       *)
Build ==
    /\ phase = "build"
    /\ IF ContractAccepts
       THEN /\ phase' = "publish"
            /\ UNCHANGED <<turn, session, responses, observations, kinds, adjudications, published>>
       ELSE Abandon

(* publish_reserved_attempt: AttemptSlot has the steps.                    *)
PublishResult(works) ==
    /\ phase = "publish"
    /\ IF works
       THEN /\ published' = DerivedStatus /\ phase' = "ended"
            /\ UNCHANGED <<turn, session, responses, observations, kinds, adjudications>>
       ELSE Abandon

Next ==
    \/ \E works \in BOOLEAN : Prepare(works) \/ PublishResult(works)
    \/ \E outcome \in {"opened", "unopened"} : Open(outcome)
    \/ \E closed \in BOOLEAN : RunRaises(closed)
    \/ RunReturns \/ Salvage \/ Adjudicate \/ TypedMismatch \/ Build

Spec == Init /\ [][Next]_attemptVars

-----------------------------------------------------------------------------
(* Properties *)

(* "No response/process failure is converted into a successful result by   *)
(* this wrapper", and "process order must never affect aggregate status":  *)
(* a published "supported" rests on three whole sessions and on every      *)
(* held-out case; a failure anywhere is published as failed.               *)
PublishedStatusIsHonest ==
    LET verdicts == {adjudications[case] : case \in DOMAIN adjudications}
    IN /\ published = "supported" <=>
            /\ phase = "ended" /\ published \notin {"recorded", "lost"}
            /\ kinds = [i \in DOMAIN ROLE_ORDER |-> "whole"]
            /\ verdicts \cap {"failed", "inconclusive"} = {}
       /\ published \in {"supported", "inconclusive"} =>
            "failed" \notin verdicts /\ \A i \in DOMAIN kinds : kinds[i] # "bad"

(* Whatever the sessions did, and wherever they raised, what was kept is   *)
(* correlated and accepted by the contract, so that a failed session ends  *)
(* in a published result and never in a refused one.                       *)
EvidenceIsAccepted ==
    /\ phase = "adjudicate" => Correlated
    /\ phase = "build" => ContractAccepts

(* "Only response frames that are strictly correlated and validator-       *)
(* approved are sent to adjudication": for each role a prefix of its       *)
(* requests, as long as the observation of that role says.                 *)
ResponsesAreCountedPrefixes ==
    \A i \in DOMAIN observations :
        LET item == observations[i]
            indexes == {pair[2] : pair \in {pair \in Received : pair[1] = item.role}}
        IN indexes = 1..(IF item.responses = Absent THEN 0 ELSE item.responses)

(* README.md:648: failed needs a fully evidenced contradiction; otherwise  *)
(* incomplete transport, process or identity evidence is inconclusive.     *)
FailedIsEvidenced ==
    published = "failed" =>
        \/ \E i \in DOMAIN kinds : kinds[i] = "bad"
        \/ \E case \in DOMAIN adjudications : adjudications[case] = "failed"
=============================================================================
