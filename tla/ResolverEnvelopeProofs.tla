------------------------ MODULE ResolverEnvelopeProofs ------------------------
(***************************************************************************)
(* The status algebra of resolver_envelope.rs for any number of phases,    *)
(* diagnostics and observations.  What a reduction says is a function of   *)
(* the observations, so the invariant only says that it is that function's *)
(* value; the work is in what the reduction's own checks leave over: one   *)
(* phase that holds every fatal outcome, nothing observed after it, and    *)
(* nothing missing before it.                                              *)
(***************************************************************************)
EXTENDS ResolverEnvelope, FiniteSetTheorems, SequenceTheorems, TLAPS

(* A set of naturals that is not empty has a least member. *)
LEMMA MinIsLeast ==
    ASSUME NEW S \in SUBSET Nat, S # {}
    PROVE  Min(S) \in S /\ \A x \in S : Min(S) <= x
<1> DEFINE less == {ss \in Nat \X Nat : ss[1] < ss[2]}
<1>1. IsWellFoundedOn(less, Nat)
    BY NatLessThanWellFounded DEF OpToRel
<1> HIDE DEF less
<1>2. PICK least \in S : \A x \in S : ~(<<x, least>> \in less)
    BY <1>1, WFMin
<1>3. ASSUME NEW x \in S PROVE least <= x
    <2>1. ~(x < least)
        BY <1>2 DEF less
    <2>2. QED
        BY <2>1
<1>4. QED
    BY <1>3 DEF Min

(* A bounded set of indices that is not empty has a positive size. *)
LEMMA CountedIndices ==
    ASSUME NEW n \in Nat, NEW S \in SUBSET (1..n)
    PROVE  Cardinality(S) \in Nat /\ (S # {} => Cardinality(S) > 0)
<1>1. IsFiniteSet(1..n)
    BY FS_Interval
<1>2. IsFiniteSet(S)
    BY <1>1, FS_Subset
<1>3. QED
    BY <1>2, FS_CardinalityType, FS_EmptySet

-----------------------------------------------------------------------------
(* Facts about a sequence of observations. *)

Collected == observations \in Seq(Reported)

LEMMA ObservationTypes ==
    ASSUME Collected, NEW i \in DOMAIN observations
    PROVE  /\ observations[i] \in Constructible
           /\ observations[i].phase \in Phases /\ observations[i].outcome \in Outcomes
           /\ observations[i].primary \in Diagnostics \cup {NoDiagnostic}
           /\ observations[i].diagnostics \in SUBSET Diagnostics
           /\ observations[i].processing_complete \in BOOLEAN
           /\ observations[i].diagnostics_complete \in BOOLEAN
<1>1. observations[i] \in Constructible
    BY ReportedAssumption DEF Collected
<1>2. QED
    BY <1>1 DEF Constructible, Observation

LEMMA Indices ==
    ASSUME Collected
    PROVE  Len(observations) \in Nat /\ DOMAIN observations = 1..Len(observations)
    BY DEF Collected

LEMMA OutcomeInPhase ==
    ASSUME Collected, NEW i \in DOMAIN observations
    PROVE  /\ observations[i].outcome \in OutcomesIn(observations[i].phase)
           /\ Seen(observations[i].phase)
    BY DEF OutcomesIn, Seen

LEMMA PhaseHasObservation ==
    ASSUME NEW p, NEW outcome \in OutcomesIn(p)
    PROVE  \E i \in DOMAIN observations :
              observations[i].phase = p /\ observations[i].outcome = outcome
    BY DEF OutcomesIn

LEMMA MadeInAPhase ==
    ASSUME Collected, NEW outcome
    PROVE  Made(outcome) <=> PhasesWith(outcome) # {}
<1>1. ASSUME Made(outcome) PROVE PhasesWith(outcome) # {}
    <2>1. PICK i \in DOMAIN observations : observations[i].outcome = outcome
        BY <1>1 DEF Made, Range
    <2>2. observations[i].phase \in Phases
        BY ObservationTypes
    <2>3. QED
        BY <2>1, <2>2, OutcomeInPhase DEF PhasesWith
<1>2. ASSUME PhasesWith(outcome) # {} PROVE Made(outcome)
    <2>1. PICK p \in Phases : outcome \in OutcomesIn(p)
        BY <1>2 DEF PhasesWith
    <2>2. PICK i \in DOMAIN observations : observations[i].outcome = outcome
        BY <2>1, PhaseHasObservation
    <2>3. QED
        BY <2>2 DEF Made, Range
<1>3. QED
    BY <1>1, <1>2

LEMMA PhasesAreNaturals == Phases \subseteq Nat /\ 0 \in Phases /\ LastPhase \in Phases
    BY PhaseAssumption DEF Phases

-----------------------------------------------------------------------------
(* What the checks of reduce_phase_observations leave over. *)

First == Min(FatalPhases)

Passed ==
    /\ observations # <<>>
    /\ \A p \in Phases : ~Contradictory(p)
    /\ FatalPhases # {} => \A p \in Phases : /\ p < First => Seen(p)
                                             /\ p > First => ~Seen(p)
    /\ Selected[2] = "Success" => \A p \in Phases : Seen(p)

LEMMA ReductionPassed ==
    ASSUME Reduce.kind \in {"Reduced", "MissingPrimaryDiagnostic"}
    PROVE  Passed
    BY DEF Reduce, Passed, Error, First

(* Every fatal outcome was observed in the first fatal phase. *)
LEMMA OneFatalPhase ==
    ASSUME Collected, Passed, FatalPhases # {}
    PROVE  /\ First \in Phases /\ FatalPhases = {First}
           /\ \A i \in DOMAIN observations : /\ observations[i].phase <= First
                                             /\ observations[i].outcome \in Fatal =>
                                                    observations[i].phase = First
<1>1. FatalPhases \subseteq Phases
    BY DEF FatalPhases
<1>2. First \in FatalPhases /\ First \in Phases
    BY <1>1, PhasesAreNaturals, MinIsLeast DEF First
<1>3. \A p \in FatalPhases : First <= p
    BY <1>1, PhasesAreNaturals, MinIsLeast DEF First
<1>4. \A p \in FatalPhases : Seen(p)
    BY DEF FatalPhases, Seen
<1>5. FatalPhases = {First}
    <2>1. ASSUME NEW p \in FatalPhases PROVE p = First
        <3>1. ~(p > First)
            BY <1>1, <1>4 DEF Passed
        <3>2. p \in Nat /\ First \in Nat
            BY <1>1, <1>2, PhasesAreNaturals
        <3>3. QED
            BY <1>3, <3>1, <3>2
    <2>2. QED
        BY <1>2, <2>1
<1>6. ASSUME NEW i \in DOMAIN observations PROVE observations[i].phase <= First
    <2>1. observations[i].phase \in Phases /\ Seen(observations[i].phase)
        BY ObservationTypes, OutcomeInPhase
    <2>2. ~(observations[i].phase > First)
        BY <2>1 DEF Passed
    <2>3. observations[i].phase \in Nat /\ First \in Nat
        BY <1>2, <2>1, PhasesAreNaturals
    <2>4. QED
        BY <2>2, <2>3
<1>7. ASSUME NEW i \in DOMAIN observations, observations[i].outcome \in Fatal
      PROVE  observations[i].phase = First
    <2>1. observations[i].phase \in FatalPhases
        BY <1>7, ObservationTypes, OutcomeInPhase DEF FatalPhases
    <2>2. QED
        BY <1>5, <2>1
<1>8. QED
    BY <1>2, <1>5, <1>6, <1>7

(* Input and dependency failures are observed in phases of their own. *)
LEMMA OutcomePhases ==
    ASSUME Collected, NEW p
    PROVE  /\ "InputFailure" \in OutcomesIn(p) => p = 0
           /\ "DependencyFailure" \in OutcomesIn(p) => p = DependencyPhase
<1>1. ASSUME "InputFailure" \in OutcomesIn(p) PROVE p = 0
    <2>1. PICK i \in DOMAIN observations :
              observations[i].phase = p /\ observations[i].outcome = "InputFailure"
        BY <1>1, PhaseHasObservation
    <2>2. QED
        BY <2>1, ObservationTypes DEF Constructible
<1>2. ASSUME "DependencyFailure" \in OutcomesIn(p) PROVE p = DependencyPhase
    <2>1. PICK i \in DOMAIN observations :
              observations[i].phase = p /\ observations[i].outcome = "DependencyFailure"
        BY <1>2, PhaseHasObservation
    <2>2. QED
        BY <2>1, ObservationTypes DEF Constructible
<1>3. QED
    BY <1>1, <1>2

(* Where a fatal phase exists it is the one selected, with a status that   *)
(* an observation of that phase established.                               *)
LEMMA FailureSelected ==
    ASSUME Collected, Passed, FatalPhases # {}
    PROVE  /\ Selected[1] = First /\ Selected[2] \in Statuses \ {"Success"}
           /\ \E outcome \in OutcomesIn(First) : Establishes(outcome, Selected[2])
<1>1. First \in Phases /\ FatalPhases = {First}
    BY OneFatalPhase
<1>2. \A outcome \in Fatal : PhasesWith(outcome) \subseteq {First}
    BY <1>1 DEF PhasesWith, FatalPhases
<1>3. OrdinaryPhases \subseteq {First}
    <2>1. ASSUME NEW p \in OrdinaryPhases PROVE OutcomesIn(p) \cap Fatal # {} /\ p \in Phases
        BY DEF OrdinaryPhases, OrdinaryFailure, Fatal
    <2>2. QED
        BY <1>1, <2>1 DEF FatalPhases
<1>4. Min({First}) = First
    BY <1>1, PhasesAreNaturals DEF Min
<1>5. CASE PhasesWith("InternalTrustLoss") # {}
    <2>1. PhasesWith("InternalTrustLoss") = {First}
        BY <1>2, <1>5 DEF Fatal
    <2>2. Selected = <<First, "InternalFailure">> /\ "InternalTrustLoss" \in OutcomesIn(First)
        BY <1>4, <2>1 DEF Selected, PhasesWith
    <2>3. QED
        BY <2>2 DEF Establishes, Statuses
<1>6. CASE PhasesWith("InternalTrustLoss") = {} /\ PhasesWith("ResourceLimit") # {}
    <2>1. PhasesWith("ResourceLimit") = {First}
        BY <1>2, <1>6 DEF Fatal
    <2>2. Selected = <<First, "ResourceLimit">> /\ "ResourceLimit" \in OutcomesIn(First)
        BY <1>4, <1>6, <2>1 DEF Selected, PhasesWith
    <2>3. QED
        BY <2>2 DEF Establishes, Statuses, Fatal
<1>7. CASE PhasesWith("InternalTrustLoss") = {} /\ PhasesWith("ResourceLimit") = {}
    <2>1. PICK outcome \in OutcomesIn(First) : outcome \in Fatal
        BY <1>1 DEF FatalPhases
    <2>2. outcome \notin {"InternalTrustLoss", "ResourceLimit"}
        BY <1>1, <1>7, <2>1 DEF PhasesWith
    <2>3. OrdinaryFailure(First) # "none"
        BY <2>1, <2>2, OutcomePhases DEF OrdinaryFailure, Fatal
    <2>4. OrdinaryPhases = {First}
        BY <1>1, <1>3, <2>3 DEF OrdinaryPhases
    <2>5. Selected = <<First, OrdinaryFailure(First)>>
        BY <1>4, <1>7, <2>4 DEF Selected
    <2>6. /\ OrdinaryFailure(First) \in OutcomesIn(First)
          /\ OrdinaryFailure(First) \in {"DependencyFailure", "InvalidSource", "Unsupported", "InputFailure"}
        BY <2>3 DEF OrdinaryFailure
    <2>7. QED
        BY <2>5, <2>6 DEF Establishes, Statuses, Fatal
<1>8. QED
    BY <1>5, <1>6, <1>7

LEMMA SuccessSelected ==
    ASSUME FatalPhases = {}
    PROVE  Selected = <<LastPhase, "Success">> /\ \A p \in Phases : OutcomesIn(p) \cap Fatal = {}
<1>1. \A p \in Phases : OutcomesIn(p) \cap Fatal = {}
    BY DEF FatalPhases
<1>2. PhasesWith("InternalTrustLoss") = {} /\ PhasesWith("ResourceLimit") = {}
    BY <1>1 DEF PhasesWith, Fatal
<1>3. OrdinaryPhases = {}
    BY <1>1 DEF OrdinaryPhases, OrdinaryFailure, Fatal
<1>4. QED
    BY <1>1, <1>2, <1>3 DEF Selected

(* Nothing was observed after the cutoff. *)
LEMMA AllReached ==
    ASSUME Collected, Passed
    PROVE  /\ Selected[1] \in Phases /\ Reached(Selected[1]) = DOMAIN observations
           /\ Selected[2] = "Success" <=> FatalPhases = {}
<1>1. CASE FatalPhases = {}
    <2>1. Selected[1] = LastPhase /\ Selected[2] = "Success"
        BY <1>1, SuccessSelected
    <2>2. \A i \in DOMAIN observations : observations[i].phase <= LastPhase
        BY ObservationTypes, PhaseAssumption DEF Phases
    <2>3. QED
        BY <1>1, <2>1, <2>2, PhasesAreNaturals DEF Reached
<1>2. CASE FatalPhases # {}
    BY <1>2, OneFatalPhase, FailureSelected DEF Reached
<1>3. QED
    BY <1>1, <1>2

(* The constructors give every failure a primary to choose from. *)
LEMMA CandidatesExist ==
    ASSUME Collected, Passed
    PROVE  LET candidates == PrimaryCandidates(Selected[1], Selected[2])
           IN  /\ candidates = {observations[i].primary : i \in
                        {k \in DOMAIN observations : Establishes(observations[k].outcome, Selected[2])}}
               /\ candidates \subseteq Diagnostics
               /\ Selected[2] # "Success" => candidates # {}
<1> DEFINE candidates == PrimaryCandidates(Selected[1], Selected[2])
           establishing == {k \in DOMAIN observations :
                                Establishes(observations[k].outcome, Selected[2])}
<1>1. ASSUME NEW i \in establishing PROVE observations[i].primary \in Diagnostics /\ observations[i].primary # NoDiagnostic
    <2>1. observations[i].outcome \in Fatal
        BY DEF Establishes, Fatal
    <2>2. observations[i] \in Constructible /\ observations[i].primary \in Diagnostics \cup {NoDiagnostic}
        BY ObservationTypes
    <2>3. QED
        BY <2>1, <2>2 DEF Constructible
<1>2. candidates = {observations[i].primary : i \in establishing}
    BY <1>1, AllReached DEF PrimaryCandidates
<1>3. ASSUME Selected[2] # "Success" PROVE establishing # {}
    <2>1. FatalPhases # {}
        BY <1>3, AllReached
    <2>2. PICK outcome \in OutcomesIn(First) : Establishes(outcome, Selected[2])
        BY <2>1, FailureSelected
    <2>3. PICK i \in DOMAIN observations : observations[i].outcome = outcome
        BY PhaseHasObservation
    <2>4. QED
        BY <2>2, <2>3
<1>4. QED
    BY <1>1, <1>2, <1>3

-----------------------------------------------------------------------------
(* The fields of a reduction that was not refused. *)

LEMMA ReducedFields ==
    ASSUME Reduce.kind = "Reduced"
    PROVE  /\ Reduce.status = Selected[2]
           /\ Reduce.processing_complete =
                IF Selected[2] = "Success"
                THEN \A i \in Reached(Selected[1]) : observations[i].processing_complete
                ELSE Selected[2] \in {"InvalidSource", "Unsupported"}
           /\ Reduce.diagnostics_complete =
                \A i \in Reached(Selected[1]) : observations[i].diagnostics_complete
           /\ Reduce.primary = IF Selected[2] = "Success" THEN NoDiagnostic
                               ELSE Min(PrimaryCandidates(Selected[1], Selected[2]))
           /\ Reduce.diagnostics = [p \in 0..Selected[1] |-> PhaseGroup(p)]
    BY DEF Reduce, Error

LEMMA PrimaryNeverMissing == ASSUME Collected PROVE Reduce.kind # "MissingPrimaryDiagnostic"
<1> SUFFICES ASSUME Reduce.kind = "MissingPrimaryDiagnostic" PROVE FALSE
    OBVIOUS
<1>1. Passed
    BY ReductionPassed
<1>2. Selected[2] # "Success" /\ PrimaryCandidates(Selected[1], Selected[2]) = {}
    BY DEF Reduce, Error
<1>3. QED
    BY <1>1, <1>2, CandidatesExist

(* A status is fatal exactly when somebody's outcome established it.       *)
LEMMA StatusCases ==
    ASSUME Collected, Reduce.kind = "Reduced"
    PROVE  /\ Reduce.status \in Statuses
           /\ Reduce.status = "Success" <=> \A outcome \in Fatal : ~Made(outcome)
           /\ Reduce.status = "Success" => /\ FatalPhases = {}
                                           /\ \A p \in Phases : Seen(p)
<1>1. Passed /\ Reduce.status = Selected[2]
    BY ReductionPassed, ReducedFields
<1>2. FatalPhases = {} <=> \A outcome \in Fatal : ~Made(outcome)
    BY MadeInAPhase DEF FatalPhases, PhasesWith
<1>3. QED
    BY <1>1, <1>2, AllReached, FailureSelected DEF Passed, Statuses

(* The invariant: the reduction is a function of what was observed, and an *)
(* envelope carries the status of its reduction.                           *)
Reductions ==
    /\ Collected /\ Len(observations) <= MaxObservations
    /\ reduction = None \/ reduction = Reduce
    /\ envelope.kind = "Envelope" => /\ Reduced
                                     /\ envelope.payload => reduction.status = "Success"

LEMMA InitialReductions == Init => Reductions
    BY PhaseAssumption DEF Init, Reductions, Collected, None

LEMMA ReduceDepends ==
    ASSUME observations' = observations PROVE Reduce' = Reduce
<1>1. FatalPhases' = FatalPhases
    BY DEF FatalPhases, OutcomesIn
<1>2. Selected' = Selected
    BY DEF Selected, PhasesWith, OrdinaryPhases, OrdinaryFailure, OutcomesIn
<1>3. [p \in 0..Selected[1] |-> PhaseGroup(p)]' = [p \in 0..Selected[1] |-> PhaseGroup(p)]
    BY <1>2 DEF PhaseGroup
<1>4. PrimaryCandidates(Selected[1], Selected[2])' = PrimaryCandidates(Selected[1], Selected[2])
    BY <1>2 DEF PrimaryCandidates, Reached
<1>5. /\ (\E p \in Phases : Contradictory(p))' = (\E p \in Phases : Contradictory(p))
      /\ {p \in Phases : Contradictory(p)}' = {p \in Phases : Contradictory(p)}
      /\ {p \in Phases : ~Seen(p)}' = {p \in Phases : ~Seen(p)}
      /\ (\E p \in Phases : ~Seen(p))' = (\E p \in Phases : ~Seen(p))
    BY DEF Contradictory, Seen, OutcomesIn
<1>6. /\ (\E p \in Phases : p < Min(FatalPhases) /\ ~Seen(p))'
            = (\E p \in Phases : p < Min(FatalPhases) /\ ~Seen(p))
      /\ (\E p \in Phases : p > Min(FatalPhases) /\ Seen(p))'
            = (\E p \in Phases : p > Min(FatalPhases) /\ Seen(p))
    BY <1>1 DEF Seen, OutcomesIn
<1>7. /\ (\A i \in Reached(Selected[1]) : observations[i].processing_complete)'
            = (\A i \in Reached(Selected[1]) : observations[i].processing_complete)
      /\ (\A i \in Reached(Selected[1]) : observations[i].diagnostics_complete)'
            = (\A i \in Reached(Selected[1]) : observations[i].diagnostics_complete)
    BY <1>2 DEF Reached
<1>8. QED
    BY <1>1, <1>2, <1>3, <1>4, <1>5, <1>6, <1>7, Zenon DEF Reduce

LEMMA ReductionsAreKept == Reductions /\ [Next]_vars => Reductions'
<1> SUFFICES ASSUME Reductions, [Next]_vars PROVE Reductions'
    OBVIOUS
<1>1. ASSUME NEW o \in Reported, Observe(o) PROVE Reductions'
    <2>1. observations' \in Seq(Reported) /\ Len(observations') = Len(observations) + 1
        BY <1>1 DEF Reductions, Collected, Observe
    <2>2. Len(observations) \in Nat /\ MaxObservations \in Nat
        BY PhaseAssumption DEF Reductions, Collected
    <2>3. QED
        BY <1>1, <2>1, <2>2 DEF Reductions, Collected, Observe, Reduced
<1>2. CASE ReduceObservations
    <2>1. Reduce' = Reduce
        BY <1>2, ReduceDepends DEF ReduceObservations
    <2>2. envelope.kind # "Envelope"
        BY <1>2 DEF ReduceObservations, Reductions, Reduced, None
    <2>3. QED
        BY <1>2, <2>1, <2>2 DEF Reductions, Collected, ReduceObservations
<1>3. ASSUME NEW payload \in BOOLEAN, NEW required \in BOOLEAN, Construct(payload, required)
      PROVE  Reductions'
    <2>1. Reduce' = Reduce /\ UNCHANGED <<observations, reduction>> /\ Reduced
        BY <1>3, ReduceDepends DEF Construct, Reduced
    <2>2. envelope'.kind = "Envelope" => (envelope'.payload => reduction.status = "Success")
        BY <1>3 DEF Construct
    <2>3. QED
        BY <2>1, <2>2 DEF Reductions, Collected, Reduced
<1>4. CASE UNCHANGED vars
    <2>1. Reduce' = Reduce /\ UNCHANGED <<observations, reduction, envelope>>
        BY <1>4, ReduceDepends DEF vars
    <2>2. QED
        BY <2>1 DEF Reductions, Collected, Reduced
<1>5. QED
    BY <1>1, <1>2, <1>3, <1>4 DEF Next

LEMMA ReductionsHold == Spec => []Reductions
    BY InitialReductions, ReductionsAreKept, PTL DEF Spec

LEMMA ReducedValue ==
    ASSUME Reductions, Reduced
    PROVE  Collected /\ reduction = Reduce /\ Reduce.kind = "Reduced" /\ Passed
    BY ReductionPassed DEF Reductions, Reduced, None

-----------------------------------------------------------------------------
(* Observations, statuses and primaries keep their types.                  *)
THEOREM ResolverTypes == Spec => []TypeOK
<1>1. Reductions => TypeOK
    <2> SUFFICES ASSUME Reductions PROVE TypeOK
        OBVIOUS
    <2>1. ASSUME Reduced
          PROVE  /\ reduction.status \in Statuses
                 /\ reduction.primary \in IF reduction.status = "Success" THEN {NoDiagnostic}
                                          ELSE Diagnostics
        <3>1. Collected /\ reduction = Reduce /\ Reduce.kind = "Reduced" /\ Passed
            BY <2>1, ReducedValue
        <3>2. reduction.status = Selected[2] /\ reduction.status \in Statuses
            BY <3>1, ReducedFields, StatusCases
        <3>3. CASE Selected[2] = "Success"
            BY <3>1, <3>2, <3>3, ReducedFields
        <3>4. CASE Selected[2] # "Success"
            <4> DEFINE candidates == PrimaryCandidates(Selected[1], Selected[2])
            <4>1. candidates # {} /\ candidates \subseteq Diagnostics /\ candidates \subseteq Nat
                BY <3>1, <3>4, CandidatesExist, PhaseAssumption
            <4>2. Min(candidates) \in candidates
                BY <4>1, MinIsLeast
            <4>3. reduction.primary = Min(candidates)
                BY <3>1, <3>4, ReducedFields
            <4>4. QED
                BY <3>2, <3>4, <4>1, <4>2, <4>3
        <3>5. QED
            BY <3>3, <3>4
    <2>2. QED
        BY <2>1 DEF TypeOK, Reductions, Collected
<1>2. QED
    BY <1>1, ReductionsHold, PTL

(* The status of a reduction follows the closed precedence over everything *)
(* that was observed, however many phases there are.                       *)
THEOREM StatusAlwaysFollowsPrecedence == Spec => []StatusFollowsPrecedence
<1>1. Reductions => StatusFollowsPrecedence
    <2> SUFFICES ASSUME Reductions, Reduced PROVE StatusFollowsPrecedence
        BY DEF StatusFollowsPrecedence
    <2>1. Collected /\ reduction = Reduce /\ Passed /\ reduction.status = Selected[2]
        BY ReducedValue, ReducedFields
    <2>2. CASE Made("InternalTrustLoss")
        BY <2>1, <2>2, MadeInAPhase DEF Selected, StatusFollowsPrecedence
    <2>3. CASE ~Made("InternalTrustLoss") /\ Made("ResourceLimit")
        BY <2>1, <2>3, MadeInAPhase DEF Selected, StatusFollowsPrecedence
    <2>4. CASE ~Made("InternalTrustLoss") /\ ~Made("ResourceLimit")
        <3>1. StatusFollowsPrecedence <=>
                reduction.status =
                    IF Made("DependencyFailure") THEN "DependencyFailure"
                    ELSE IF Made("InvalidSource") THEN "InvalidSource"
                    ELSE IF Made("Unsupported") THEN "Unsupported"
                    ELSE IF Made("InputFailure") THEN "InputFailure"
                    ELSE "Success"
            BY <2>4 DEF StatusFollowsPrecedence
        <3>2. PhasesWith("InternalTrustLoss") = {} /\ PhasesWith("ResourceLimit") = {}
            BY <2>1, <2>4, MadeInAPhase
        <3>3. CASE FatalPhases = {}
            <4>1. \A outcome \in Fatal : ~Made(outcome)
                BY <2>1, <3>3, MadeInAPhase DEF FatalPhases, PhasesWith
            <4>2. QED
                BY <2>1, <3>1, <3>3, <4>1, SuccessSelected DEF Fatal
        <3>4. CASE FatalPhases # {}
            <4>1. First \in Phases /\ FatalPhases = {First} /\ Selected[2] # "Success"
                BY <2>1, <3>4, OneFatalPhase, FailureSelected
            <4>2. \A outcome \in Fatal : Made(outcome) <=> outcome \in OutcomesIn(First)
                BY <2>1, <4>1, MadeInAPhase DEF PhasesWith, FatalPhases
            <4>3. OrdinaryPhases # {}
                BY <3>2, <4>1 DEF Selected
            <4>4. OrdinaryPhases = {First}
                <5>1. ASSUME NEW p \in OrdinaryPhases PROVE p \in FatalPhases
                    BY DEF OrdinaryPhases, OrdinaryFailure, Fatal, FatalPhases
                <5>2. QED
                    BY <4>1, <4>3, <5>1
            <4>5. Min({First}) = First
                BY <4>1, PhasesAreNaturals DEF Min
            <4>6. Selected[2] = OrdinaryFailure(First) /\ OrdinaryFailure(First) # "none"
                BY <3>2, <4>4, <4>5 DEF Selected, OrdinaryPhases
            <4>7. "DependencyFailure" \in OutcomesIn(First) => First = DependencyPhase
                BY <2>1, OutcomePhases
            <4>8. QED
                BY <2>1, <3>1, <4>2, <4>6, <4>7 DEF OrdinaryFailure, Fatal
        <3>5. QED
            BY <3>3, <3>4
    <2>5. QED
        BY <2>2, <2>3, <2>4
<1>2. QED
    BY <1>1, ReductionsHold, PTL

(* A reduction claims complete processing, or complete diagnostics,        *)
(* exactly when everything it was made from does.                          *)
THEOREM CompletenessIsAlwaysHonest == Spec => []CompletenessIsHonest
<1>1. Reductions /\ StatusFollowsPrecedence => CompletenessIsHonest
    <2> SUFFICES ASSUME Reductions, StatusFollowsPrecedence, Reduced PROVE CompletenessIsHonest
        BY DEF CompletenessIsHonest
    <2>1. /\ Collected /\ reduction = Reduce /\ Passed /\ reduction.status = Selected[2]
          /\ Reduce.kind = "Reduced"
        BY ReducedValue, ReducedFields
    <2>2. Reached(Selected[1]) = DOMAIN observations
        BY <2>1, AllReached
    <2>3. reduction.diagnostics_complete <=> \A o \in Range(observations) : o.diagnostics_complete
        BY <2>1, <2>2, ReducedFields DEF Range
    <2>4. \A o \in Range(observations) :
              o.processing_complete <=>
                o.outcome \in {"Complete", "ResourceNotice", "InvalidSource", "Unsupported"}
        BY <2>1, ObservationTypes DEF Range, Constructible
    <2>5. CASE Selected[2] = "Success"
        BY <2>1, <2>2, <2>3, <2>5, ReducedFields DEF CompletenessIsHonest, Range
    <2>6. CASE Selected[2] # "Success"
        <3>1. reduction.processing_complete <=> reduction.status \in {"InvalidSource", "Unsupported"}
            BY <2>1, <2>6, ReducedFields
        <3>2. FatalPhases # {}
            BY <2>1, <2>6, AllReached
        <3>3. PICK outcome \in OutcomesIn(First) : Establishes(outcome, Selected[2])
            BY <2>1, <3>2, FailureSelected
        <3>4. PICK i \in DOMAIN observations :
                    observations[i].phase = First /\ observations[i].outcome = outcome
            BY PhaseHasObservation
        <3>5. observations[i] \in Range(observations)
            BY DEF Range
        <3>6. CASE reduction.status \notin {"InvalidSource", "Unsupported"}
            <4>1. ~observations[i].processing_complete
                BY <2>1, <2>4, <2>6, <3>3, <3>4, <3>5, <3>6 DEF Establishes, Fatal
            <4>2. QED
                BY <2>3, <3>1, <3>5, <3>6, <4>1 DEF CompletenessIsHonest
        <3>7. CASE reduction.status \in {"InvalidSource", "Unsupported"}
            <4>1. /\ ~Made("InternalTrustLoss") /\ ~Made("ResourceLimit")
                  /\ ~Made("DependencyFailure")
                BY <3>7 DEF StatusFollowsPrecedence
            <4>2. outcome \in {"InvalidSource", "Unsupported"}
                BY <2>1, <3>3, <3>7 DEF Establishes
            <4>3. First \in Phases /\ ~Contradictory(First)
                BY <2>1, <3>2, OneFatalPhase DEF Passed
            <4>4. "InputFailure" \notin OutcomesIn(First)
                BY <4>2, <4>3 DEF Contradictory
            <4>5. ~Made("InputFailure")
                <5>1. ASSUME NEW k \in DOMAIN observations,
                             observations[k].outcome = "InputFailure" PROVE FALSE
                    <6>1. observations[k].phase = First
                        BY <2>1, <3>2, <5>1, OneFatalPhase DEF Fatal
                    <6>2. QED
                        BY <2>1, <4>4, <5>1, <6>1, OutcomeInPhase
                <5>2. QED
                    BY <5>1 DEF Made, Range
            <4>6. ASSUME NEW o \in Range(observations) PROVE o.processing_complete
                <5>1. o.outcome \in Outcomes
                    BY <2>1, ObservationTypes DEF Range
                <5>2. o.outcome \notin {"InternalTrustLoss", "ResourceLimit", "DependencyFailure",
                                        "InputFailure"}
                    BY <4>1, <4>5 DEF Made
                <5>3. QED
                    BY <2>4, <5>1, <5>2 DEF Outcomes, Fatal
            <4>7. QED
                BY <2>3, <3>1, <3>7, <4>6 DEF CompletenessIsHonest
        <3>8. QED
            BY <3>6, <3>7
    <2>7. QED
        BY <2>5, <2>6
<1>2. QED
    BY <1>1, ReductionsHold, StatusAlwaysFollowsPrecedence, PTL

(* The primary of a failure is the least one of those who established its  *)
(* status.                                                                 *)
THEOREM PrimaryAlwaysEstablishes == Spec => []PrimaryEstablishesStatus
<1>1. Reductions => PrimaryEstablishesStatus
    <2> SUFFICES ASSUME Reductions, Reduced PROVE PrimaryEstablishesStatus
        BY DEF PrimaryEstablishesStatus
    <2> DEFINE candidates == PrimaryCandidates(Selected[1], Selected[2])
               establishing == {o \in Range(observations) : Establishes(o.outcome, Selected[2])}
    <2>1. /\ Collected /\ reduction = Reduce /\ Passed /\ reduction.status = Selected[2]
          /\ Reduce.kind = "Reduced"
        BY ReducedValue, ReducedFields
    <2>2. /\ candidates = {observations[i].primary : i \in
                {k \in DOMAIN observations : Establishes(observations[k].outcome, Selected[2])}}
          /\ candidates \subseteq Diagnostics /\ candidates \subseteq Nat
          /\ 0 \notin candidates
          /\ Selected[2] # "Success" => candidates # {}
        BY <2>1, CandidatesExist, PhaseAssumption
    <2>3. candidates = {o.primary : o \in establishing}
        BY <2>2 DEF Range
    <2>4. CASE Selected[2] = "Success"
        <3>1. establishing = {}
            BY <2>4 DEF Establishes, Fatal
        <3>2. reduction.primary = NoDiagnostic
            BY <2>1, <2>4, ReducedFields
        <3>3. QED
            BY <2>1, <2>4, <3>1, <3>2 DEF PrimaryEstablishesStatus
    <2>5. CASE Selected[2] # "Success"
        <3>1. reduction.primary = Min(candidates)
            BY <2>1, <2>5, ReducedFields
        <3>2. Min(candidates) \in candidates /\ \A d \in candidates : Min(candidates) <= d
            BY <2>2, <2>5, MinIsLeast
        <3>3. reduction.primary # NoDiagnostic
            BY <2>2, <3>1, <3>2 DEF NoDiagnostic
        <3>4. \E o \in establishing : o.primary = reduction.primary
            BY <2>3, <3>1, <3>2
        <3>5. \A o \in establishing : reduction.primary <= o.primary
            BY <2>3, <3>1, <3>2
        <3>6. QED
            BY <2>1, <2>5, <3>3, <3>4, <3>5 DEF PrimaryEstablishesStatus
    <2>6. QED
        BY <2>4, <2>5
<1>2. QED
    BY <1>1, ReductionsHold, PTL

(* Every diagnostic and every primary that was reported is in the reduction *)
(* under its phase.                                                        *)
THEOREM NoDiagnosticIsLost == Spec => []NoDiagnosticLost
<1>1. Reductions => NoDiagnosticLost
    <2> SUFFICES ASSUME Reductions, Reduced, NEW o \in Range(observations)
                 PROVE  /\ o.phase \in DOMAIN reduction.diagnostics
                        /\ \A d \in o.diagnostics \cup ({o.primary} \ {NoDiagnostic}) :
                                reduction.diagnostics[o.phase][d] > 0
        BY DEF NoDiagnosticLost
    <2>1. /\ Collected /\ reduction = Reduce /\ Passed /\ Reduce.kind = "Reduced"
          /\ reduction.diagnostics = [p \in 0..Selected[1] |-> PhaseGroup(p)]
        BY ReducedValue, ReducedFields
    <2>2. PICK i \in DOMAIN observations : o = observations[i]
        BY DEF Range
    <2>3. /\ o.phase \in Phases /\ o.diagnostics \subseteq Diagnostics
          /\ o.primary \in Diagnostics \cup {NoDiagnostic}
        BY <2>1, <2>2, ObservationTypes
    <2>4. Selected[1] \in Nat /\ o.phase \in Nat /\ o.phase <= Selected[1]
        BY <2>1, <2>2, <2>3, AllReached, PhasesAreNaturals DEF Reached
    <2>5. o.phase \in 0..Selected[1]
        BY <2>4
    <2>6. ASSUME NEW d \in o.diagnostics \cup ({o.primary} \ {NoDiagnostic})
          PROVE  PhaseGroup(o.phase)[d] > 0
        <3> DEFINE listed == {k \in DOMAIN observations :
                        observations[k].phase = o.phase /\ d \in observations[k].diagnostics}
                   headed == {k \in DOMAIN observations :
                        observations[k].phase = o.phase /\ observations[k].primary = d}
        <3>1. d \in Diagnostics
            BY <2>3
        <3>2. PhaseGroup(o.phase)[d] = Cardinality(listed) + Cardinality(headed)
            BY <3>1 DEF PhaseGroup
        <3>3. /\ Len(observations) \in Nat
              /\ listed \subseteq 1..Len(observations) /\ headed \subseteq 1..Len(observations)
            BY <2>1, Indices
        <3>4. listed # {} \/ headed # {}
            BY <2>2
        <3>5. /\ Cardinality(listed) \in Nat /\ Cardinality(headed) \in Nat
              /\ listed # {} => Cardinality(listed) > 0
              /\ headed # {} => Cardinality(headed) > 0
            <4> HIDE DEF listed, headed
            <4>1. QED
                BY <3>3, CountedIndices
        <3>6. QED
            BY <3>2, <3>4, <3>5
    <2>7. QED
        BY <2>1, <2>5, <2>6
<1>2. QED
    BY <1>1, ReductionsHold, PTL

(* A payload leaves the resolver only when every phase was observed and    *)
(* none failed, and no reduction ends without a primary to report.         *)
THEOREM PayloadAlwaysNeedsEveryPhase == Spec => []PayloadNeedsEveryPhase
<1>1. Reductions => PayloadNeedsEveryPhase
    <2> SUFFICES ASSUME Reductions PROVE PayloadNeedsEveryPhase
        OBVIOUS
    <2>1. reduction.kind # "MissingPrimaryDiagnostic"
        BY PrimaryNeverMissing DEF Reductions, None
    <2>2. ASSUME envelope.kind = "Envelope", envelope.payload
          PROVE  \A p \in Phases : Seen(p) /\ OutcomesIn(p) \cap Fatal = {}
        <3>1. Reduced /\ reduction.status = "Success"
            BY <2>2 DEF Reductions
        <3>2. Collected /\ reduction = Reduce /\ Reduce.kind = "Reduced"
            BY <3>1, ReducedValue
        <3>3. QED
            BY <3>1, <3>2, StatusCases, SuccessSelected
    <2>3. QED
        BY <2>1, <2>2 DEF PayloadNeedsEveryPhase
<1>2. QED
    BY <1>1, ReductionsHold, PTL
=============================================================================
