------------------------------ MODULE Admission ------------------------------
(***************************************************************************)
(* body_document.rs: admit_impl, the ordered admission of one source.  The *)
(* bytes are not modelled: each check is an action whose inputs say what   *)
(* the source is like.  Two parts are modelled in full, because they keep  *)
(* state: the duplicate/budget scan (DuplicateSeed, DuplicateVisitor and   *)
(* JsonBudget), a walk over a JSON value that the source supplies event by *)
(* event, and the DiagnosticAccumulator that the schema errors fill.       *)
(* A schema error is its DiagnosticKey, a number: only its order matters.  *)
(***************************************************************************)
EXTENDS Integers, Sequences, FiniteSets, FiniteSetsExt, SequencesExt

CONSTANTS
    Keys,                \* member keys of JSON objects
    MaxNestingDepth, MaxJsonValues, MaxObjectMembers,
    MaxArrayItems,       \* the profile's limits on JSON work
    DiagnosticLimits,    \* the values max_diagnostics may have
    SchemaErrors,        \* DiagnosticKeys the schema validator may emit
    MaxSchemaErrors      \* bound: how many it emits for one source

ASSUME AdmissionAssumption ==
    /\ {MaxNestingDepth, MaxJsonValues, MaxObjectMembers, MaxArrayItems,
        MaxSchemaErrors} \subseteq Nat
    /\ DiagnosticLimits \subseteq Nat /\ SchemaErrors \subseteq Nat

VARIABLES
    stage,     \* the next check of admit_impl
    stack,     \* open objects and arrays of the scan, outermost first
    budget,    \* JsonBudget's three counters
    pointers,  \* the JSON pointers of the values admitted so far
    root,      \* shape of the top-level value
    limit,     \* DiagnosticAccumulator.limit
    emitted,   \* the schema errors so far, in the validator's order
    entries,   \* DiagnosticAccumulator.entries
    truncated, \* DiagnosticAccumulator.truncated
    primary,   \* DiagnosticAccumulator.primary
    result     \* AdmissionResult

scan == <<stack, budget, pointers, root>>
accumulator == <<limit, emitted, entries, truncated, primary>>
vars == <<stage, scan, accumulator, result>>

NoPrimary == -1
Pending == [status |-> "Pending"]

-----------------------------------------------------------------------------
(* failure() and its variants: the source is refused and the result set.   *)
(* An optional primary diagnostic is a set of at most one.                 *)

Failed(status, code, complete) ==
    [status |-> status, processing_complete |-> complete, diagnostics_complete |-> TRUE,
     primary |-> {code}, diagnostics |-> <<code>>, document |-> FALSE]

Fail(status, code, complete) ==
    /\ stage' = "done"
    /\ result' = Failed(status, code, complete)

Advance(next) == stage' = next /\ UNCHANGED result

Init ==
    /\ stage = "source_bytes"
    /\ stack = <<>> /\ pointers = {} /\ root = "none"
    /\ budget = [json_values |-> 0, object_members |-> 0, array_items |-> 0]
    /\ limit \in DiagnosticLimits
    /\ emitted = <<>> /\ entries = <<>> /\ truncated = FALSE /\ primary = NoPrimary
    /\ result = Pending

(* A check that passes or refuses the source, and keeps no state. *)
Check(name, next, passes, status, code, complete) ==
    /\ stage = name
    /\ IF passes THEN Advance(next) ELSE Fail(status, code, complete)
    /\ UNCHANGED <<scan, accumulator>>

CheckSourceBytes(fits) ==
    Check("source_bytes", "grammar", fits, "ResourceLimit", "source-bytes", FALSE)

CheckGrammar(valid) ==
    Check("grammar", "raw_tokens", valid, "InvalidSource", "invalid-json", TRUE)

ScanRawTokens(fit) ==
    Check("raw_tokens", "scan", fit, "ResourceLimit", "json-work", FALSE)

-----------------------------------------------------------------------------
(* The duplicate/budget scan.  A value is a scalar, or the opening of an   *)
(* array or an object.  admit_string is left out: every string and key     *)
(* here has passed the same limit in scan_raw_token_limits.                *)

Shapes == {"scalar", "array", "object"}

Frame(kind, pointer) == [kind |-> kind, pointer |-> pointer, members |-> {}, index |-> 0]

(* The budget after admitting an array item, or an object member. *)
ItemCharged == [budget EXCEPT !.array_items = @ + 1]
MemberCharged == [budget EXCEPT !.object_members = @ + 1]

Depth == Len(stack) + 1

(* JsonBudget::admit_value, then DuplicateVisitor's visit of the shape,    *)
(* with the counters already charged for an item or a member.              *)
ValueBreaches(charged) == Depth > MaxNestingDepth \/ charged.json_values >= MaxJsonValues

EnterValue(charged, shape, pointer, rest) ==
    IF ValueBreaches(charged)
    THEN /\ Fail("ResourceLimit", "json-work", FALSE)
         /\ UNCHANGED <<scan, accumulator>>
    ELSE /\ budget' = [charged EXCEPT !.json_values = @ + 1]
         /\ pointers' = pointers \cup {pointer}
         /\ stack' = IF shape # "scalar" THEN Append(rest, Frame(shape, pointer))
                     ELSE rest
         /\ root' = IF pointers = {} THEN shape ELSE root
         /\ UNCHANGED <<stage, accumulator, result>>

Scanning == stage = "scan"

ScanRoot(shape) ==
    /\ Scanning /\ pointers = {}
    /\ EnterValue(budget, shape, <<>>, stack)

ScanItemOffByOne(shape) ==                     \* mutant: > for >=
    /\ Scanning /\ stack # <<>> /\ Last(stack).kind = "array"
    /\ IF budget.array_items > MaxArrayItems
       THEN /\ Fail("ResourceLimit", "json-work", FALSE)
            /\ UNCHANGED <<scan, accumulator>>
       ELSE LET top == Last(stack)
            IN EnterValue(ItemCharged, shape, Append(top.pointer, top.index),
                          Append(Front(stack), [top EXCEPT !.index = @ + 1]))

(* visit_seq: the next element, charged as an item before it is a value.   *)
ScanItem(shape) ==
    /\ Scanning /\ stack # <<>> /\ Last(stack).kind = "array"
    /\ IF budget.array_items >= MaxArrayItems
       THEN /\ Fail("ResourceLimit", "json-work", FALSE)
            /\ UNCHANGED <<scan, accumulator>>
       ELSE LET top == Last(stack)
            IN EnterValue(ItemCharged, shape, Append(top.pointer, top.index),
                          Append(Front(stack), [top EXCEPT !.index = @ + 1]))

ScanMemberForgetting(key, shape) ==            \* mutant: the key is not remembered
    /\ Scanning /\ stack # <<>> /\ Last(stack).kind = "object"
    /\ IF budget.object_members >= MaxObjectMembers
       THEN /\ Fail("ResourceLimit", "json-work", FALSE)
            /\ UNCHANGED <<scan, accumulator>>
       ELSE EnterValue(MemberCharged, shape, Append(Last(stack).pointer, key), stack)

(* visit_map: a repeated key is refused before it is charged as a member.  *)
ScanMember(key, shape) ==
    /\ Scanning /\ stack # <<>> /\ Last(stack).kind = "object"
    /\ IF key \in Last(stack).members
       THEN /\ Fail("InvalidSource", "duplicate-member", TRUE)
            /\ UNCHANGED <<scan, accumulator>>
       ELSE IF budget.object_members >= MaxObjectMembers
       THEN /\ Fail("ResourceLimit", "json-work", FALSE)
            /\ UNCHANGED <<scan, accumulator>>
       ELSE LET top == Last(stack)
            IN EnterValue(MemberCharged, shape, Append(top.pointer, key),
                          Append(Front(stack), [top EXCEPT !.members = @ \cup {key}]))

CloseContainer ==
    /\ Scanning /\ stack # <<>>
    /\ stack' = Front(stack)
    /\ UNCHANGED <<stage, budget, pointers, root, accumulator, result>>

ScanDone ==
    /\ Scanning /\ stack = <<>> /\ pointers # {}
    /\ Advance("contract")
    /\ UNCHANGED <<scan, accumulator>>

(* serde may refuse at any event what the grammar check let pass, such as  *)
(* a number out of range; after the walk parse_value may refuse it again.  *)
ScanFails ==
    /\ Scanning
    /\ Fail("InvalidSource", "invalid-json", TRUE)
    /\ UNCHANGED <<scan, accumulator>>

-----------------------------------------------------------------------------
(* Recognition.  discriminator: what object.get("contract") is like; a     *)
(* top-level value that is no object has none.                             *)

RecognizeContract(discriminator) ==
    /\ stage = "contract"
    /\ discriminator # "malformed" => root = "object"
    /\ CASE discriminator = "malformed" -> Fail("InvalidSource", "invalid-discriminator", TRUE)
         [] discriminator = "unknown-family" -> Fail("Unsupported", "unsupported-family", TRUE)
         [] discriminator = "unknown-revision" -> Fail("Unsupported", "unsupported-revision", TRUE)
         [] discriminator = "recognized" -> Advance("compile_schema")
    /\ UNCHANGED <<scan, accumulator>>

CompileSchema(compiles) ==
    Check("compile_schema", "schema", compiles, "InternalFailure", "internal-schema", FALSE)

RetainPrimaryOfRetained(key) ==                \* mutant: primary among the retained
    /\ stage = "schema" /\ Len(emitted) < MaxSchemaErrors
    /\ emitted' = Append(emitted, key)
    /\ IF Contains(entries, key)
       THEN UNCHANGED <<entries, truncated, primary>>
       ELSE IF Len(entries) < limit
       THEN /\ primary' = IF primary = NoPrimary \/ key < primary THEN key ELSE primary
            /\ entries' = Append(entries, key) /\ UNCHANGED truncated
       ELSE truncated' = TRUE /\ UNCHANGED <<entries, primary>>
    /\ UNCHANGED <<stage, scan, limit, result>>

(* DiagnosticAccumulator::retain *)
Retain(key) ==
    /\ stage = "schema" /\ Len(emitted) < MaxSchemaErrors
    /\ emitted' = Append(emitted, key)
    /\ IF Contains(entries, key)
       THEN UNCHANGED <<entries, truncated, primary>>
       ELSE /\ primary' = IF primary = NoPrimary \/ key < primary THEN key ELSE primary
            /\ IF Len(entries) < limit
               THEN entries' = Append(entries, key) /\ UNCHANGED truncated
               ELSE truncated' = TRUE /\ UNCHANGED entries
    /\ UNCHANGED <<stage, scan, limit, result>>

(* The retained diagnostics, sorted by key. *)
InOrder(diagnostics) == SetToSortSeq(ToSet(diagnostics), <)

FinishSchemaRetained ==                        \* mutant: none retained means none emitted
    /\ stage = "schema"
    /\ IF entries = <<>>
       THEN Advance("deserialize")
       ELSE /\ stage' = "done"
            /\ result' = [status |-> "InvalidSource", processing_complete |-> TRUE,
                          diagnostics_complete |-> ~truncated, primary |-> {primary},
                          diagnostics |-> InOrder(entries), document |-> FALSE]
    /\ UNCHANGED <<scan, accumulator>>

(* DiagnosticAccumulator::finish *)
FinishSchema ==
    /\ stage = "schema"
    /\ IF emitted = <<>>
       THEN Advance("deserialize")
       ELSE /\ stage' = "done"
            /\ result' = [status |-> "InvalidSource", processing_complete |-> TRUE,
                          diagnostics_complete |-> ~truncated, primary |-> {primary},
                          diagnostics |-> InOrder(entries), document |-> FALSE]
    /\ UNCHANGED <<scan, accumulator>>

Deserialize(typed) ==
    Check("deserialize", "extensions", typed, "InvalidSource", "schema", TRUE)

CheckExtensions(required) ==
    /\ stage = "extensions"
    /\ IF required
       THEN Fail("Unsupported", "unsupported-required-extension", TRUE)
       ELSE /\ stage' = "done"
            /\ result' = [status |-> "Success", processing_complete |-> TRUE,
                          diagnostics_complete |-> TRUE, primary |-> {},
                          diagnostics |-> <<>>, document |-> TRUE]
    /\ UNCHANGED <<scan, accumulator>>

Next ==
    \/ \E b \in BOOLEAN :
        \/ CheckSourceBytes(b) \/ CheckGrammar(b) \/ ScanRawTokens(b)
        \/ CompileSchema(b) \/ Deserialize(b) \/ CheckExtensions(b)
    \/ \E shape \in Shapes :
        \/ ScanRoot(shape) \/ ScanItem(shape)
        \/ \E key \in Keys : ScanMember(key, shape)
    \/ CloseContainer \/ ScanDone \/ ScanFails
    \/ \E d \in {"malformed", "unknown-family", "unknown-revision", "recognized"} :
        RecognizeContract(d)
    \/ \E key \in SchemaErrors : Retain(key)
    \/ FinishSchema

Spec == Init /\ [][Next]_vars

-----------------------------------------------------------------------------
(* Properties *)

WithinBudgets ==
    /\ \A i \in DOMAIN stack : stack[i].kind \in {"array", "object"} /\ stack[i].members \subseteq Keys
    /\ budget \in [json_values : 0..MaxJsonValues, object_members : 0..MaxObjectMembers,
                   array_items : 0..MaxArrayItems]
    /\ root \in {"none", "scalar", "array", "object"}
    /\ Len(emitted) <= MaxSchemaErrors /\ Len(entries) <= limit
    /\ primary \in SchemaErrors \cup {NoPrimary}

(* The three budgets count the same walk: every admitted value has a       *)
(* pointer of its own, so no key repeats in an object, no pointer is       *)
(* deeper than the profile allows, and each value but the root was charged *)
(* as a member or as an item.                                              *)
BudgetsAddUp ==
    /\ budget.json_values = Cardinality(pointers)
    /\ \A p \in pointers : Len(p) < MaxNestingDepth
    /\ pointers # {} => budget.json_values = 1 + budget.object_members + budget.array_items
    /\ \A p \in pointers : p # <<>> => Front(p) \in pointers

(* The reserved primary is the least schema error whatever was retained,   *)
(* the retained ones are the first distinct ones reported, and the result  *)
(* is complete exactly when none was left out (spec/diagnostics/README.md, *)
(* "Determinism and selection").                                           *)
RetentionIsBounded ==
    emitted # <<>> =>
        /\ primary = Min(ToSet(emitted))
        /\ \E n \in 0..Len(emitted) : ToSet(entries) = ToSet(SubSeq(emitted, 1, n))
        /\ Cardinality(ToSet(entries)) = Min({limit, Cardinality(ToSet(emitted))})
        /\ truncated <=> ToSet(entries) # ToSet(emitted)

(* A source with a schema error is never admitted, even when no diagnostic *)
(* can be retained; truncation alone never is a resource limit; and a      *)
(* result says its processing was interrupted exactly when a limit or an   *)
(* internal failure interrupted it.                                        *)
ResultIsCoherent ==
    stage = "done" =>
        /\ result.document <=> result.status = "Success"
        /\ result.document => emitted = <<>> /\ root = "object" /\ stack = <<>>
        /\ result.status = "Success" <=> result.primary = {}
        /\ ~result.diagnostics_complete => result.status = "InvalidSource"
        /\ result.processing_complete <=> result.status \notin {"ResourceLimit", "InternalFailure"}
=============================================================================
