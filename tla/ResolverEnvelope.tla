--------------------------- MODULE ResolverEnvelope ---------------------------
(***************************************************************************)
(* resolver_envelope.rs: phase observations are collected in any order,    *)
(* reduced to one status, and wrapped with an optional payload.  The       *)
(* program has eight ordered phases (LastPhase = 7, DependencyPhase = 2);  *)
(* both are parameters here.  A diagnostic is a number: Ord is all the     *)
(* code asks of it.  sort_by_key(phase) is stable, so what follows it is   *)
(* modelled phase by phase on the subsequence of one phase.                *)
(***************************************************************************)
EXTENDS Integers, Sequences, FiniteSets, FiniteSetsExt, Functions

CONSTANTS
    LastPhase,        \* ordinal of InMemorySnapshotFinalizationAndHandoff
    DependencyPhase,  \* ordinal of Dependencies
    Diagnostics,      \* the diagnostics phases report
    MaxObservations   \* bound: how many observations one resolution collects

ASSUME PhaseAssumption ==
    /\ LastPhase \in Nat /\ DependencyPhase \in 0..LastPhase
    /\ Diagnostics \subseteq Nat \ {0}
    /\ MaxObservations \in Nat

VARIABLES
    observations,  \* the Vec<PhaseObservation> in the order it was filled
    reduction,     \* what reduce_phase_observations returned
    envelope       \* what ResolverEnvelope::from_reduction returned

vars == <<observations, reduction, envelope>>

Phases == 0..LastPhase
NoDiagnostic == 0

Fatal == {"InputFailure", "InvalidSource", "Unsupported", "DependencyFailure",
          "ResourceLimit", "InternalTrustLoss"}
Outcomes == {"Complete", "ResourceNotice"} \cup Fatal

Statuses == {"Success", "InputFailure", "InvalidSource", "Unsupported",
             "DependencyFailure", "ResourceLimit", "InternalFailure"}

Observation == [phase : Phases, outcome : Outcomes, processing_complete : BOOLEAN,
                diagnostics_complete : BOOLEAN, primary : Diagnostics \cup {NoDiagnostic},
                diagnostics : SUBSET Diagnostics]

(* The constructors: input failures belong to the first phase, dependency  *)
(* failures to the dependency phase, and only the fatal outcomes carry a   *)
(* primary diagnostic.                                                     *)
Constructible ==
    {o \in Observation :
        /\ o.outcome = "InputFailure" => o.phase = 0
        /\ o.outcome = "DependencyFailure" => o.phase = DependencyPhase
        /\ o.outcome \in Fatal <=> o.primary # NoDiagnostic
        /\ o.processing_complete <=>
                o.outcome \in {"Complete", "ResourceNotice", "InvalidSource", "Unsupported"}}

-----------------------------------------------------------------------------
CONSTANT Reported    \* the observations the phases may make

ASSUME ReportedAssumption == Reported \subseteq Constructible

-----------------------------------------------------------------------------
(* reduce_phase_observations *)

OutcomesIn(p) == {observations[i].outcome :
                    i \in {k \in DOMAIN observations : observations[k].phase = p}}

Seen(p) == OutcomesIn(p) # {}

Contradictory(p) ==
    "InputFailure" \in OutcomesIn(p) /\ OutcomesIn(p) \cap {"InvalidSource", "Unsupported"} # {}

FatalPhasesUnlimited ==                                   \* mutant: a limit is not fatal
    {p \in Phases : OutcomesIn(p) \cap (Fatal \ {"ResourceLimit"}) # {}}

FatalPhases == {p \in Phases : OutcomesIn(p) \cap Fatal # {}}

OrdinaryFailureInvalidFirst(p) ==                         \* mutant: invalid source first
    IF "InvalidSource" \in OutcomesIn(p) THEN "InvalidSource"
    ELSE IF "Unsupported" \in OutcomesIn(p) THEN "Unsupported"
    ELSE IF "InputFailure" \in OutcomesIn(p) THEN "InputFailure"
    ELSE IF "DependencyFailure" \in OutcomesIn(p) THEN "DependencyFailure"
    ELSE "none"

(* The ordinary failure of one phase, or "none". *)
OrdinaryFailure(p) ==
    IF p = DependencyPhase /\ "DependencyFailure" \in OutcomesIn(p) THEN "DependencyFailure"
    ELSE IF "InvalidSource" \in OutcomesIn(p) THEN "InvalidSource"
    ELSE IF "Unsupported" \in OutcomesIn(p) THEN "Unsupported"
    ELSE IF "InputFailure" \in OutcomesIn(p) THEN "InputFailure"
    ELSE "none"

PhasesWith(outcome) == {p \in Phases : outcome \in OutcomesIn(p)}
OrdinaryPhases == {p \in Phases : OrdinaryFailure(p) # "none"}

(* <<phase, status>> of the failure that wins, in order of trust. *)
Selected ==
    IF PhasesWith("InternalTrustLoss") # {}
    THEN <<Min(PhasesWith("InternalTrustLoss")), "InternalFailure">>
    ELSE IF PhasesWith("ResourceLimit") # {}
    THEN <<Min(PhasesWith("ResourceLimit")), "ResourceLimit">>
    ELSE IF OrdinaryPhases # {}
    THEN <<Min(OrdinaryPhases), OrdinaryFailure(Min(OrdinaryPhases))>>
    ELSE <<LastPhase, "Success">>

(* establishes_status *)
Establishes(outcome, status) ==
    IF outcome = "InternalTrustLoss" THEN status = "InternalFailure"
    ELSE outcome \in Fatal /\ outcome = status

ReachedBefore(cutoff) ==                                  \* mutant: the failing phase is left out
    {i \in DOMAIN observations : observations[i].phase < cutoff}

Reached(cutoff) == {i \in DOMAIN observations : observations[i].phase <= cutoff}

PrimaryCandidatesAny(cutoff, status) ==                   \* mutant: any reported primary
    {observations[i].primary : i \in Reached(cutoff)} \ {NoDiagnostic}

PrimaryCandidates(cutoff, status) ==
    {observations[i].primary : i \in {k \in Reached(cutoff) :
        /\ Establishes(observations[k].outcome, status)
        /\ observations[k].primary # NoDiagnostic}}

(* The diagnostics of a phase, sorted, each with its number of occurrences: *)
(* a phase's group holds every diagnostic and every primary reported in it.*)
PhaseGroup(p) ==
    [d \in Diagnostics |->
        Cardinality({i \in DOMAIN observations :
            observations[i].phase = p /\ d \in observations[i].diagnostics})
        + Cardinality({i \in DOMAIN observations :
            observations[i].phase = p /\ observations[i].primary = d})]

Error(kind, p) == [kind |-> kind, phase |-> p]

Reduce ==
    LET fatal == Min(FatalPhases)
        cutoff == Selected[1]
        status == Selected[2]
        candidates == PrimaryCandidates(cutoff, status)
    IN IF observations = <<>> THEN Error("NoObservations", 0)
       ELSE IF \E p \in Phases : Contradictory(p)
       THEN Error("Contradictory", Min({p \in Phases : Contradictory(p)}))
       ELSE IF FatalPhases # {} /\ \E p \in Phases : p < fatal /\ ~Seen(p)
       THEN Error("MissingPrecedingPhase", fatal)
       ELSE IF FatalPhases # {} /\ \E p \in Phases : p > fatal /\ Seen(p)
       THEN Error("ObservationAfterFatal", fatal)
       ELSE IF status = "Success" /\ \E p \in Phases : ~Seen(p)
       THEN Error("MissingPhase", Min({p \in Phases : ~Seen(p)}))
       ELSE IF status # "Success" /\ candidates = {}
       THEN Error("MissingPrimaryDiagnostic", cutoff)
       ELSE [kind |-> "Reduced",
             status |-> status,
             processing_complete |->
                IF status = "Success"
                THEN \A i \in Reached(cutoff) : observations[i].processing_complete
                ELSE status \in {"InvalidSource", "Unsupported"},
             diagnostics_complete |->
                \A i \in Reached(cutoff) : observations[i].diagnostics_complete,
             primary |-> IF status = "Success" THEN NoDiagnostic ELSE Min(candidates),
             diagnostics |-> [p \in 0..cutoff |-> PhaseGroup(p)]]

-----------------------------------------------------------------------------
None == [kind |-> "none"]

Init == observations = <<>> /\ reduction = None /\ envelope = None

(* A phase reports. *)
Observe(o) ==
    /\ reduction = None
    /\ Len(observations) < MaxObservations
    /\ observations' = Append(observations, o)
    /\ UNCHANGED <<reduction, envelope>>

ReduceObservations ==
    /\ reduction = None
    /\ reduction' = Reduce
    /\ UNCHANGED <<observations, envelope>>

ConstructUnchecked(payload, required) ==                  \* mutant: PayloadForFailure dropped
    /\ reduction.kind = "Reduced" /\ envelope = None
    /\ envelope' =
        IF reduction.status = "Success" /\ required /\ ~payload
        THEN [kind |-> "MissingRequiredSuccessPayload"]
        ELSE [kind |-> "Envelope", status |-> reduction.status, payload |-> payload]
    /\ UNCHANGED <<observations, reduction>>

(* from_reduction: the reduction's fields are moved into the envelope. *)
Construct(payload, required) ==
    /\ reduction.kind = "Reduced" /\ envelope = None
    /\ envelope' =
        IF reduction.status # "Success" /\ payload THEN [kind |-> "PayloadForFailure"]
        ELSE IF reduction.status = "Success" /\ required /\ ~payload
        THEN [kind |-> "MissingRequiredSuccessPayload"]
        ELSE [kind |-> "Envelope", status |-> reduction.status, payload |-> payload]
    /\ UNCHANGED <<observations, reduction>>

Next ==
    \/ \E o \in Reported : Observe(o)
    \/ ReduceObservations
    \/ \E payload, required \in BOOLEAN : Construct(payload, required)

Spec == Init /\ [][Next]_vars

-----------------------------------------------------------------------------
(* Properties *)

Reduced == reduction.kind = "Reduced"

TypeOK ==
    /\ observations \in Seq(Reported) /\ Len(observations) <= MaxObservations
    /\ Reduced => /\ reduction.status \in Statuses
                  /\ reduction.primary \in
                        IF reduction.status = "Success" THEN {NoDiagnostic} ELSE Diagnostics

Made(outcome) == \E o \in Range(observations) : o.outcome = outcome

(* The closed status algebra of spec/body-document/README.md, stated over  *)
(* all observations with no phase scan: trust loss first, then a resource  *)
(* limit, then dependency failure over invalid source over unsupported     *)
(* over input failure, and success only when nothing failed.               *)
StatusFollowsPrecedence ==
    Reduced => reduction.status =
        CASE Made("InternalTrustLoss") -> "InternalFailure"
          [] ~Made("InternalTrustLoss") /\ Made("ResourceLimit") -> "ResourceLimit"
          [] OTHER ->
                IF Made("DependencyFailure") THEN "DependencyFailure"
                ELSE IF Made("InvalidSource") THEN "InvalidSource"
                ELSE IF Made("Unsupported") THEN "Unsupported"
                ELSE IF Made("InputFailure") THEN "InputFailure"
                ELSE "Success"

(* A reduction claims complete processing exactly when every observation   *)
(* it was made from does: no interrupted phase hides behind another        *)
(* phase's complete outcome.                                               *)
CompletenessIsHonest ==
    Reduced => /\ reduction.processing_complete
                    <=> \A o \in Range(observations) : o.processing_complete
               /\ reduction.diagnostics_complete
                    <=> \A o \in Range(observations) : o.diagnostics_complete

(* The primary of a failure is the least primary of the observations that  *)
(* established its status, and a success has none.                         *)
PrimaryEstablishesStatus ==
    Reduced =>
        LET establishing == {o \in Range(observations) : Establishes(o.outcome, reduction.status)}
        IN /\ reduction.status = "Success" <=> reduction.primary = NoDiagnostic
           /\ reduction.status # "Success" => \E o \in establishing : o.primary = reduction.primary
           /\ \A o \in establishing : reduction.primary <= o.primary

(* "Reached diagnostics are retained when a later phase is blocked"        *)
(* (spec/body-document/README.md:335): a reduction drops no observation.   *)
NoDiagnosticLost ==
    Reduced => \A o \in Range(observations) :
        /\ o.phase \in DOMAIN reduction.diagnostics
        /\ \A d \in o.diagnostics \cup ({o.primary} \ {NoDiagnostic}) :
                reduction.diagnostics[o.phase][d] > 0

(* A payload leaves the resolver only when every phase was observed and    *)
(* none of them failed, and the constructors make the reduction's          *)
(* MissingPrimaryDiagnostic error unreachable.                             *)
PayloadNeedsEveryPhase ==
    /\ reduction.kind # "MissingPrimaryDiagnostic"
    /\ envelope.kind = "Envelope" /\ envelope.payload =>
            \A p \in Phases : Seen(p) /\ OutcomesIn(p) \cap Fatal = {}
=============================================================================
