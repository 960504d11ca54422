--------------------------- MODULE AdmissionProofs ---------------------------
(***************************************************************************)
(* The admission of one source, for any keys, limits and schema errors.    *)
(* Two parts keep state.  The scan: an open frame at depth d has a pointer *)
(* of length d-1, and whatever was admitted directly below it is in its    *)
(* members or below its index; that is why a pointer is never admitted     *)
(* twice, and why the budgets count the same walk.  The accumulator: what  *)
(* is retained is a prefix of what was emitted until the limit is reached. *)
(***************************************************************************)
EXTENDS Admission, FiniteSetTheorems, SequenceTheorems, TLAPS

(* What a JSON pointer is made of: member keys and array indices. *)
Parts == Keys \cup Nat

FrameSet == [kind : {"array", "object"}, pointer : Seq(Parts), members : SUBSET Keys, index : Nat]

Before == {"source_bytes", "grammar", "raw_tokens", "scan"}
Recognized == {"compile_schema", "schema", "deserialize", "extensions"}
Stages == Before \cup Recognized \cup {"contract", "done"}

Typed ==
    /\ stage \in Stages /\ stack \in Seq(FrameSet) /\ pointers \subseteq Seq(Parts)
    /\ budget \in [json_values : 0..MaxJsonValues, object_members : 0..MaxObjectMembers,
                   array_items : 0..MaxArrayItems]
    /\ root \in {"none", "scalar", "array", "object"} /\ limit \in DiagnosticLimits
    /\ emitted \in Seq(SchemaErrors) /\ entries \in Seq(SchemaErrors) /\ truncated \in BOOLEAN
    /\ primary \in SchemaErrors \cup {NoPrimary}

(* The part was admitted below this open frame. *)
Seen(frame, part) ==
    IF frame.kind = "object" THEN part \in frame.members ELSE part \in 0..(frame.index - 1)

Walked ==
    /\ \A i \in DOMAIN stack : Len(stack[i].pointer) = i - 1 /\ stack[i].pointer \in pointers
    /\ \A i \in DOMAIN stack : \A p \in pointers :
        p # <<>> /\ Front(p) = stack[i].pointer => Seen(stack[i], Last(p))
    /\ \A p \in pointers : Len(p) < MaxNestingDepth
    /\ \A p \in pointers : p # <<>> => Front(p) \in pointers

Charged ==
    /\ IsFiniteSet(pointers) /\ budget.json_values = Cardinality(pointers)
    /\ budget.object_members + budget.array_items =
            IF pointers = {} THEN 0 ELSE budget.json_values - 1

Retained ==
    /\ Len(emitted) <= MaxSchemaErrors /\ Len(entries) <= limit
    /\ IsFiniteSet(ToSet(emitted)) /\ Cardinality(ToSet(entries)) = Len(entries)
    /\ \E n \in 0..Len(emitted) : ToSet(entries) = ToSet(SubSeq(emitted, 1, n))
    /\ truncated => Len(entries) = limit
    /\ truncated <=> ToSet(entries) # ToSet(emitted)
    /\ IF emitted = <<>> THEN primary = NoPrimary
       ELSE primary \in ToSet(emitted) /\ \A key \in ToSet(emitted) : primary <= key

Staged ==
    /\ stage \notin {"schema", "done"} => emitted = <<>>
    /\ stage \in Recognized \cup {"contract"} => stack = <<>>
    /\ stage \in Recognized => root = "object"

Inv == Typed /\ Walked /\ Charged /\ Retained /\ Staged /\ ResultIsCoherent

-----------------------------------------------------------------------------
(* Pointers. *)

LEMMA Appended ==
    ASSUME NEW p \in Seq(Parts), NEW part \in Parts
    PROVE  /\ Append(p, part) \in Seq(Parts) /\ Append(p, part) # <<>>
           /\ Len(Append(p, part)) = Len(p) + 1
           /\ Front(Append(p, part)) = p /\ Last(Append(p, part)) = part
<1> DEFINE q == Append(p, part)
<1>1. q \in Seq(Parts) /\ q # <<>> /\ Len(q) = Len(p) + 1 /\ q[Len(p) + 1] = part
      /\ \A i \in 1..Len(p) : q[i] = p[i]
    BY AppendProperties
<1>2. Len(p) \in Nat
    OBVIOUS
<1> HIDE DEF q
<1>3. Front(q) = p
    <2>1. Front(q) = SubSeq(q, 1, Len(p))
        BY <1>1, <1>2 DEF Front
    <2>2. \A i \in 1..Len(p) : q[i] \in Parts
        BY <1>1, <1>2
    <2>3. /\ SubSeq(q, 1, Len(p)) \in Seq(Parts)
          /\ Len(SubSeq(q, 1, Len(p))) = IF 1 <= Len(p) THEN Len(p) - 1 + 1 ELSE 0
          /\ \A i \in 1..(Len(p) - 1 + 1) : SubSeq(q, 1, Len(p))[i] = q[1 + i - 1]
        BY <1>2, <2>2, SubSeqProperties
    <2> DEFINE f == SubSeq(q, 1, Len(p))
    <2>4. f \in Seq(Parts) /\ Len(f) = Len(p) /\ \A i \in 1..Len(p) : f[i] = p[i]
        BY <1>1, <1>2, <2>3
    <2> HIDE DEF f
    <2>5. f = p
        BY <2>4, SeqEqual
    <2>6. QED
        BY <2>1, <2>5 DEF f
<1>4. Last(q) = part
    BY <1>1 DEF Last
<1>5. QED
    BY <1>1, <1>3, <1>4 DEF q

LEMMA Fronts ==
    ASSUME NEW S, NEW s \in Seq(S), s # <<>>
    PROVE  /\ Front(s) \in Seq(S) /\ Len(Front(s)) = Len(s) - 1
           /\ \A i \in 1..(Len(s) - 1) : Front(s)[i] = s[i]
           /\ Last(s) \in S /\ Len(s) \in 1..Len(s)
<1>1. Len(s) \in Nat /\ Len(s) # 0
    OBVIOUS
<1> DEFINE n == Len(s) - 1
<1>2. n \in Int /\ 1 \in Int /\ \A i \in 1..n : s[i] \in S
    BY <1>1
<1>3. /\ SubSeq(s, 1, n) \in Seq(S)
      /\ Len(SubSeq(s, 1, n)) = IF 1 <= n THEN n - 1 + 1 ELSE 0
      /\ \A i \in 1..(n - 1 + 1) : SubSeq(s, 1, n)[i] = s[1 + i - 1]
    <2> HIDE DEF n
    <2>1. QED
        BY <1>2, SubSeqProperties
<1>4. Len(Front(s)) = n /\ Front(s) \in Seq(S)
    <2>1. Front(s) = SubSeq(s, 1, n) /\ n \in Nat
        BY <1>1 DEF Front
    <2> HIDE DEF n
    <2>2. QED
        BY <1>3, <2>1
<1>5. ASSUME NEW i \in 1..n PROVE Front(s)[i] = s[i]
    <2>1. i \in 1..(n - 1 + 1) /\ 1 + i - 1 = i
        BY <1>1
    <2>2. QED
        BY <1>3, <2>1 DEF Front
<1>6. Last(s) \in S /\ Len(s) \in 1..Len(s)
    BY <1>1 DEF Last
<1>7. QED
    BY <1>4, <1>5, <1>6

-----------------------------------------------------------------------------
(* Refusals and checks that keep no state. *)

LEMMA Bounds ==
    /\ MaxNestingDepth \in Nat /\ MaxJsonValues \in Nat /\ MaxObjectMembers \in Nat
    /\ MaxArrayItems \in Nat /\ MaxSchemaErrors \in Nat
    /\ DiagnosticLimits \subseteq Nat /\ SchemaErrors \subseteq Nat /\ NoPrimary \notin SchemaErrors
    BY AdmissionAssumption DEF NoPrimary

LEMMA InitialAdmission == Init => Inv
<1> SUFFICES ASSUME Init PROVE Inv
    OBVIOUS
<1>1. Typed
    <2>1. <<>> \in Seq(FrameSet) /\ <<>> \in Seq(SchemaErrors) /\ {} \subseteq Seq(Parts)
        OBVIOUS
    <2>2. budget \in [json_values : 0..MaxJsonValues, object_members : 0..MaxObjectMembers,
                      array_items : 0..MaxArrayItems]
        BY Bounds DEF Init
    <2>3. QED
        BY <2>1, <2>2 DEF Init, Typed, Stages, Before
<1>2. Walked
    BY DEF Init, Walked
<1>3. Charged
    BY FS_EmptySet DEF Init, Charged
<1>4. Retained
    <2>1. ToSet(<<>>) = {}
        <3>1. DOMAIN <<>> = {}
            OBVIOUS
        <3>2. QED
            BY <3>1 DEF ToSet
    <2>2. 0 \in 0..Len(<<>>) /\ SubSeq(<<>>, 1, 0) = <<>> /\ Len(<<>>) = 0
        BY SubSeqEmpty
    <2>3. limit \in Nat
        BY Bounds DEF Init
    <2>4. \E n \in 0..Len(emitted) : ToSet(entries) = ToSet(SubSeq(emitted, 1, n))
        <3>1. ToSet(entries) = ToSet(SubSeq(emitted, 1, 0)) /\ 0 \in 0..Len(emitted)
            BY <2>2 DEF Init
        <3>2. QED
            BY <3>1
    <2>5. /\ Len(emitted) = 0 /\ Len(entries) = 0 /\ ToSet(emitted) = {} /\ ToSet(entries) = {}
          /\ emitted = <<>> /\ primary = NoPrimary /\ truncated = FALSE
        BY <2>1, <2>2 DEF Init
    <2>6. IsFiniteSet(ToSet(emitted)) /\ Cardinality(ToSet(entries)) = Len(entries)
        BY <2>5, FS_EmptySet
    <2>7. Len(emitted) <= MaxSchemaErrors /\ Len(entries) <= limit
        BY <2>3, <2>5, Bounds
    <2>8. (truncated <=> ToSet(entries) # ToSet(emitted)) /\ (truncated => Len(entries) = limit)
        BY <2>5
    <2>9. QED
        BY <2>4, <2>5, <2>6, <2>7, <2>8 DEF Retained
<1>5. Staged /\ ResultIsCoherent
    BY DEF Init, Staged, ResultIsCoherent, Before, Recognized
<1>6. QED
    BY <1>1, <1>2, <1>3, <1>4, <1>5 DEF Inv

Statuses == {"ResourceLimit", "InvalidSource", "Unsupported", "InternalFailure"}

LEMMA FailStep ==
    ASSUME Inv, NEW status \in Statuses, NEW code, NEW complete \in BOOLEAN,
           complete <=> status \notin {"ResourceLimit", "InternalFailure"},
           Fail(status, code, complete), UNCHANGED <<scan, accumulator>>
    PROVE  Inv'
<1>1. stage' = "done" /\ result' = Failed(status, code, complete)
      /\ UNCHANGED <<stack, budget, pointers, root, limit, emitted, entries, truncated, primary>>
    BY DEF Fail, scan, accumulator
<1>2. Typed' /\ Staged'
    BY <1>1 DEF Inv, Typed, Stages, Staged, Recognized
<1>3. Walked' /\ Charged' /\ Retained'
    BY <1>1 DEF Inv, Walked, Charged, Retained, Seen
<1>4. ResultIsCoherent'
    BY <1>1 DEF ResultIsCoherent, Failed, Statuses
<1>5. QED
    BY <1>2, <1>3, <1>4 DEF Inv

LEMMA AdvanceStep ==
    ASSUME Inv, NEW next \in Stages \ {"done"}, Advance(next), UNCHANGED <<scan, accumulator>>,
           next = "schema" \/ emitted = <<>>,
           next \in Recognized \cup {"contract"} => stack = <<>>,
           next \in Recognized => root = "object"
    PROVE  Inv'
<1>1. stage' = next
      /\ UNCHANGED <<stack, budget, pointers, root, limit, emitted, entries, truncated, primary>>
    BY DEF Advance, scan, accumulator
<1>2. Typed' /\ Staged' /\ ResultIsCoherent'
    BY <1>1 DEF Inv, Typed, Stages, Staged, ResultIsCoherent, Recognized
<1>3. Walked' /\ Charged' /\ Retained'
    BY <1>1 DEF Inv, Walked, Charged, Retained, Seen
<1>4. QED
    BY <1>2, <1>3 DEF Inv

LEMMA CheckStep ==
    ASSUME Inv, NEW name \in Stages \ {"schema", "done"}, NEW next \in Stages \ {"contract", "done"},
           NEW passes \in BOOLEAN, NEW status \in Statuses, NEW code, NEW complete \in BOOLEAN,
           complete <=> status \notin {"ResourceLimit", "InternalFailure"},
           next \in Recognized => name \in Recognized,
           Check(name, next, passes, status, code, complete)
    PROVE  Inv'
<1>1. stage = name /\ UNCHANGED <<scan, accumulator>>
      /\ (Advance(next) \/ Fail(status, code, complete))
    BY DEF Check
<1>2. /\ emitted = <<>>
      /\ next \in Recognized => stack = <<>> /\ root = "object"
    BY <1>1 DEF Inv, Staged
<1>3. CASE Advance(next)
    BY <1>1, <1>2, <1>3, AdvanceStep
<1>4. CASE Fail(status, code, complete)
    BY <1>1, <1>4, FailStep
<1>5. QED
    BY <1>1, <1>3, <1>4

LEMMA ChecksStep ==
    ASSUME Inv, NEW b \in BOOLEAN,
           CheckSourceBytes(b) \/ CheckGrammar(b) \/ ScanRawTokens(b) \/ CompileSchema(b)
                \/ Deserialize(b)
    PROVE  Inv'
<1> USE DEF Stages, Before, Recognized, Statuses
<1>1. CASE CheckSourceBytes(b)
    BY <1>1, CheckStep DEF CheckSourceBytes
<1>2. CASE CheckGrammar(b)
    BY <1>2, CheckStep DEF CheckGrammar
<1>3. CASE ScanRawTokens(b)
    BY <1>3, CheckStep DEF ScanRawTokens
<1>4. CASE CompileSchema(b)
    BY <1>4, CheckStep DEF CompileSchema
<1>5. CASE Deserialize(b)
    BY <1>5, CheckStep DEF Deserialize
<1>6. QED
    BY <1>1, <1>2, <1>3, <1>4, <1>5

-----------------------------------------------------------------------------
(* The duplicate/budget scan. *)

(* One value admitted below the top of the stack, or as the root: rest is  *)
(* the stack with its top charged for it.                                  *)
LEMMA EnterStep ==
    ASSUME Inv, stage = "scan", NEW shape \in Shapes, NEW pointer \in Seq(Parts),
           NEW rest \in Seq(FrameSet),
           NEW charged \in [json_values : 0..MaxJsonValues, object_members : 0..MaxObjectMembers,
                            array_items : 0..MaxArrayItems],
           EnterValue(charged, shape, pointer, rest),
           pointer \notin pointers, Len(pointer) = Len(stack),
           pointer # <<>> => Front(pointer) \in pointers,
           Len(rest) = Len(stack), \A i \in DOMAIN stack : rest[i].pointer = stack[i].pointer,
           \A i \in DOMAIN stack : \A part : Seen(stack[i], part) => Seen(rest[i], part),
           \A i \in DOMAIN stack :
                pointer # <<>> /\ Front(pointer) = stack[i].pointer => Seen(rest[i], Last(pointer)),
           charged.json_values = budget.json_values,
           charged.object_members + charged.array_items =
                IF pointers = {} THEN 0 ELSE budget.json_values
    PROVE  Inv'
<1>1. CASE ValueBreaches(charged)
    <2>1. Fail("ResourceLimit", "json-work", FALSE) /\ UNCHANGED <<scan, accumulator>>
        BY <1>1 DEF EnterValue
    <2>2. QED
        BY <2>1, FailStep DEF Statuses
<1>2. CASE ~ValueBreaches(charged)
    <2> DEFINE frame == Frame(shape, pointer)
    <2>1. /\ budget' = [charged EXCEPT !.json_values = @ + 1]
          /\ pointers' = pointers \cup {pointer}
          /\ stack' = IF shape # "scalar" THEN Append(rest, frame) ELSE rest
          /\ root' = IF pointers = {} THEN shape ELSE root
          /\ UNCHANGED <<stage, limit, emitted, entries, truncated, primary, result>>
        BY <1>2 DEF EnterValue, accumulator
    <2>2. /\ stack \in Seq(FrameSet) /\ pointers \subseteq Seq(Parts)
          /\ Len(stack) \in Nat /\ Len(pointer) \in Nat
          /\ DOMAIN stack = 1..Len(stack) /\ DOMAIN rest = 1..Len(stack)
        BY DEF Inv, Typed
    <2>3. charged.json_values < MaxJsonValues /\ Len(pointer) < MaxNestingDepth
        BY <1>2, <2>2, Bounds DEF ValueBreaches, Depth
    <2>4. /\ budget' \in [json_values : 0..MaxJsonValues, object_members : 0..MaxObjectMembers,
                          array_items : 0..MaxArrayItems]
          /\ budget'.json_values = budget.json_values + 1
          /\ budget'.object_members = charged.object_members
          /\ budget'.array_items = charged.array_items
        BY <2>1, <2>3, Bounds
    <2>5. shape # "scalar" => /\ frame \in FrameSet /\ frame.pointer = pointer
                              /\ \A part : ~Seen(frame, part)
        BY DEF Frame, FrameSet, Shapes, Seen
    <2> HIDE DEF frame
    <2>6. stack' \in Seq(FrameSet)
        BY <2>1, <2>5, AppendProperties
    <2>7. Typed'
        <3>1. root' \in {"none", "scalar", "array", "object"}
            BY <2>1 DEF Inv, Typed, Shapes
        <3>2. pointers' \subseteq Seq(Parts)
            BY <2>1, <2>2
        <3>3. QED
            BY <2>1, <2>4, <2>6, <3>1, <3>2 DEF Inv, Typed
    <2>8. /\ DOMAIN stack' = 1..Len(stack')
          /\ Len(stack') = IF shape # "scalar" THEN Len(stack) + 1 ELSE Len(stack)
          /\ \A i \in 1..Len(stack) : stack'[i] = rest[i]
          /\ shape # "scalar" => stack'[Len(stack) + 1] = frame
        BY <2>1, <2>2, <2>5, <2>6, AppendProperties
    <2>9. Walked'
        <3>1. ASSUME NEW i \in DOMAIN stack'
              PROVE  \/ i \in DOMAIN stack /\ stack'[i] = rest[i]
                     \/ shape # "scalar" /\ i = Len(stack) + 1 /\ stack'[i] = frame
            BY <2>2, <2>8
        <3>2. ASSUME NEW i \in DOMAIN stack'
              PROVE  Len(stack'[i].pointer) = i - 1 /\ stack'[i].pointer \in pointers'
            <4>1. CASE i \in DOMAIN stack /\ stack'[i] = rest[i]
                BY <2>1, <4>1 DEF Inv, Walked
            <4>2. CASE shape # "scalar" /\ i = Len(stack) + 1 /\ stack'[i] = frame
                BY <2>1, <2>2, <2>5, <4>2
            <4>3. QED
                BY <3>1, <4>1, <4>2
        <3>3. ASSUME NEW i \in DOMAIN stack', NEW p \in pointers',
                     p # <<>>, Front(p) = stack'[i].pointer
              PROVE  Seen(stack'[i], Last(p))
            <4>1. CASE i \in DOMAIN stack /\ stack'[i] = rest[i]
                <5>1. CASE p = pointer
                    BY <3>3, <4>1, <5>1
                <5>2. CASE p \in pointers
                    <6>1. Front(p) = stack[i].pointer
                        BY <3>3, <4>1
                    <6>2. Seen(stack[i], Last(p))
                        BY <3>3, <4>1, <5>2, <6>1 DEF Inv, Walked
                    <6>3. QED
                        BY <4>1, <6>2
                <5>3. QED
                    BY <2>1, <5>1, <5>2
            <4>2. CASE shape # "scalar" /\ i = Len(stack) + 1 /\ stack'[i] = frame
                <5>1. Front(p) = pointer
                    BY <2>5, <3>3, <4>2
                <5>2. p \in pointers => Front(p) \in pointers
                    BY <3>3 DEF Inv, Walked
                <5>3. p = pointer
                    BY <2>1, <5>1, <5>2
                <5>4. Len(Front(p)) = Len(p) - 1
                    BY <3>3, <5>3, Fronts
                <5>5. QED
                    BY <2>2, <5>1, <5>3, <5>4
            <4>3. QED
                BY <3>1, <4>1, <4>2
        <3>4. \A p \in pointers' : Len(p) < MaxNestingDepth
            BY <2>1, <2>3 DEF Inv, Walked
        <3>5. \A p \in pointers' : p # <<>> => Front(p) \in pointers'
            BY <2>1 DEF Inv, Walked
        <3>6. QED
            BY <3>2, <3>3, <3>4, <3>5 DEF Walked
    <2>10. Charged'
        <3>1. /\ IsFiniteSet(pointers) /\ budget.json_values = Cardinality(pointers)
              /\ Cardinality(pointers) \in Nat
            BY FS_CardinalityType DEF Inv, Charged
        <3>2. IsFiniteSet(pointers') /\ Cardinality(pointers') = Cardinality(pointers) + 1
            BY <2>1, <3>1, FS_AddElement
        <3>3. pointers' # {}
            BY <2>1
        <3>4. pointers = {} => Cardinality(pointers) = 0
            BY FS_EmptySet
        <3>5. budget'.object_members + budget'.array_items = budget'.json_values - 1
            BY <2>4, <3>1, <3>4
        <3>6. QED
            BY <2>4, <3>1, <3>2, <3>3, <3>5 DEF Charged
    <2>11. Retained' /\ Staged' /\ ResultIsCoherent'
        BY <2>1 DEF Inv, Retained, Staged, ResultIsCoherent, Recognized
    <2>12. QED
        BY <2>7, <2>9, <2>10, <2>11 DEF Inv
<1>3. QED
    BY <1>1, <1>2

LEMMA ScanRootStep == ASSUME Inv, NEW shape \in Shapes, ScanRoot(shape) PROVE Inv'
<1>1. /\ stage = "scan" /\ pointers = {} /\ EnterValue(budget, shape, <<>>, stack)
      /\ stack \in Seq(FrameSet) /\ <<>> \in Seq(Parts)
    BY DEF ScanRoot, Scanning, Inv, Typed
<1>2. stack = <<>>
    <2>1. ASSUME stack # <<>> PROVE FALSE
        <3>1. 1 \in DOMAIN stack
            BY <1>1, <2>1
        <3>2. QED
            BY <1>1, <3>1 DEF Inv, Walked
    <2>2. QED
        BY <2>1
<1>3. budget.object_members + budget.array_items = 0
    BY <1>1 DEF Inv, Charged
<1>4. budget \in [json_values : 0..MaxJsonValues, object_members : 0..MaxObjectMembers,
                  array_items : 0..MaxArrayItems]
    BY DEF Inv, Typed
<1>5. Len(stack) = 0 /\ Len(<<>>) = 0 /\ DOMAIN stack = {}
    BY <1>2
<1>6. QED
    BY <1>1, <1>3, <1>4, <1>5, EnterStep

(* The top of the stack, replaced by one that has seen one part more.      *)
LEMMA TopStep ==
    ASSUME Inv, stage = "scan", stack # <<>>, NEW shape \in Shapes, NEW part \in Parts,
           ~Seen(Last(stack), part), NEW top \in FrameSet, top.pointer = Last(stack).pointer,
           Seen(top, part), \A other : Seen(Last(stack), other) => Seen(top, other),
           NEW charged \in [json_values : 0..MaxJsonValues, object_members : 0..MaxObjectMembers,
                            array_items : 0..MaxArrayItems],
           charged.json_values = budget.json_values,
           charged.object_members + charged.array_items =
                budget.object_members + budget.array_items + 1,
           EnterValue(charged, shape, Append(Last(stack).pointer, part), Append(Front(stack), top))
    PROVE  Inv'
<1> DEFINE n == Len(stack)
           pointer == Append(Last(stack).pointer, part)
           rest == Append(Front(stack), top)
<1>1. /\ stack \in Seq(FrameSet) /\ n \in Nat /\ n \in DOMAIN stack /\ DOMAIN stack = 1..n
      /\ Last(stack) = stack[n] /\ Last(stack).pointer \in Seq(Parts)
    <2>1. stack \in Seq(FrameSet) /\ n \in Nat /\ DOMAIN stack = 1..n
        BY DEF Inv, Typed
    <2>2. Last(stack) \in FrameSet /\ n \in 1..n
        BY <2>1, Fronts
    <2>3. QED
        BY <2>1, <2>2 DEF Last, FrameSet
<1>2. /\ Len(Last(stack).pointer) = n - 1 /\ Last(stack).pointer \in pointers
      /\ \A p \in pointers : p # <<>> /\ Front(p) = Last(stack).pointer => Seen(Last(stack), Last(p))
    BY <1>1 DEF Inv, Walked
<1>3. /\ pointer \in Seq(Parts) /\ pointer # <<>> /\ Len(pointer) = n
      /\ Front(pointer) = Last(stack).pointer /\ Last(pointer) = part
    <2> DEFINE above == Last(stack).pointer
    <2>1. above \in Seq(Parts) /\ Len(above) = n - 1 /\ n \in Nat
        BY <1>1, <1>2
    <2> HIDE DEF above, n
    <2>2. /\ Append(above, part) \in Seq(Parts) /\ Append(above, part) # <<>>
          /\ Len(Append(above, part)) = Len(above) + 1
          /\ Front(Append(above, part)) = above /\ Last(Append(above, part)) = part
        BY <2>1, Appended
    <2>3. Len(above) + 1 = n
        BY <2>1
    <2>4. QED
        BY <2>1, <2>2, <2>3 DEF above
<1>4. /\ Front(stack) \in Seq(FrameSet) /\ Len(Front(stack)) = n - 1
      /\ \A i \in 1..(n - 1) : Front(stack)[i] = stack[i]
    BY <1>1, Fronts
<1>5. /\ rest \in Seq(FrameSet) /\ Len(rest) = n /\ rest[n] = top
      /\ \A i \in 1..(n - 1) : rest[i] = stack[i]
    <2> DEFINE front == Front(stack)
    <2>1. /\ front \in Seq(FrameSet) /\ Len(front) = n - 1 /\ n \in Nat
          /\ \A i \in 1..(n - 1) : front[i] = stack[i]
        BY <1>1, <1>4
    <2> HIDE DEF front, n
    <2>2. /\ Append(front, top) \in Seq(FrameSet) /\ Len(Append(front, top)) = Len(front) + 1
          /\ \A i \in 1..Len(front) : Append(front, top)[i] = front[i]
          /\ Append(front, top)[Len(front) + 1] = top
        BY <2>1, AppendProperties
    <2>3. Len(front) + 1 = n
        BY <2>1
    <2>4. QED
        BY <2>1, <2>2, <2>3 DEF front
<1>6. EnterValue(charged, shape, pointer, rest)
    OBVIOUS
<1> HIDE DEF pointer, rest
<1>7. pointer \notin pointers
    BY <1>2, <1>3
<1>8. \A i \in DOMAIN stack : i = n \/ i \in 1..(n - 1)
    BY <1>1
<1>9. \A i \in DOMAIN stack : rest[i].pointer = stack[i].pointer
    BY <1>1, <1>5, <1>8
<1>10. \A i \in DOMAIN stack : \A other : Seen(stack[i], other) => Seen(rest[i], other)
    BY <1>1, <1>5, <1>8
<1>11. \A i \in DOMAIN stack :
            pointer # <<>> /\ Front(pointer) = stack[i].pointer => Seen(rest[i], Last(pointer))
    <2> SUFFICES ASSUME NEW i \in DOMAIN stack, Front(pointer) = stack[i].pointer
                 PROVE  Seen(rest[i], Last(pointer))
        OBVIOUS
    <2>1. Len(stack[i].pointer) = i - 1 /\ i \in Nat
        BY <1>1 DEF Inv, Walked
    <2>2. i - 1 = n - 1 /\ n \in Nat
        BY <1>1, <1>2, <1>3, <2>1
    <2> HIDE DEF n
    <2>3. i = n
        BY <2>1, <2>2
    <2>4. QED
        BY <1>3, <1>5, <2>3
<1>12. charged.object_members + charged.array_items = IF pointers = {} THEN 0 ELSE budget.json_values
    <2>1. pointers # {}
        BY <1>2
    <2>2. budget.object_members + budget.array_items = budget.json_values - 1
        BY <2>1 DEF Inv, Charged
    <2>3. budget.json_values \in Nat
        BY DEF Inv, Typed
    <2>4. QED
        BY <2>1, <2>2, <2>3
<1> HIDE DEF n
<1>13. Front(pointer) \in pointers /\ Len(pointer) = Len(stack) /\ Len(rest) = Len(stack)
    BY <1>2, <1>3, <1>5 DEF n
<1>14. QED
    BY <1>3, <1>5, <1>6, <1>7, <1>9, <1>10, <1>11, <1>12, <1>13, EnterStep

LEMMA TopFrame ==
    ASSUME Inv, stack # <<>>
    PROVE  /\ Last(stack) \in FrameSet /\ Last(stack).kind \in {"array", "object"}
           /\ Last(stack).members \subseteq Keys /\ Last(stack).index \in Nat
    <1>1. Last(stack) \in FrameSet
        BY Fronts DEF Inv, Typed
    <1>2. QED
        BY <1>1 DEF FrameSet

LEMMA Charging ==
    ASSUME Typed
    PROVE  LET Budgets == [json_values : 0..MaxJsonValues, object_members : 0..MaxObjectMembers,
                           array_items : 0..MaxArrayItems]
               item == ItemCharged
               member == MemberCharged
           IN  /\ budget.array_items < MaxArrayItems <=> ~(budget.array_items >= MaxArrayItems)
               /\ budget.array_items < MaxArrayItems => item \in Budgets
               /\ budget.object_members < MaxObjectMembers <=> ~(budget.object_members >= MaxObjectMembers)
               /\ budget.object_members < MaxObjectMembers => member \in Budgets
               /\ item.json_values = budget.json_values
               /\ member.json_values = budget.json_values
               /\ item.object_members + item.array_items =
                    budget.object_members + budget.array_items + 1
               /\ member.object_members + member.array_items =
                    budget.object_members + budget.array_items + 1
<1> DEFINE v == budget.json_values
           m == budget.object_members
           a == budget.array_items
<1>1. budget = [json_values |-> v, object_members |-> m, array_items |-> a]
      /\ v \in 0..MaxJsonValues /\ m \in 0..MaxObjectMembers /\ a \in 0..MaxArrayItems
    BY DEF Typed
<1>2. /\ ItemCharged = [json_values |-> v, object_members |-> m, array_items |-> a + 1]
      /\ MemberCharged = [json_values |-> v, object_members |-> m + 1, array_items |-> a]
    BY <1>1 DEF ItemCharged, MemberCharged
<1> HIDE DEF v, m, a
<1>3. v \in Nat /\ m \in Nat /\ a \in Nat
    BY <1>1, Bounds
<1>4. (a < MaxArrayItems => a + 1 \in 0..MaxArrayItems)
      /\ (m < MaxObjectMembers => m + 1 \in 0..MaxObjectMembers)
      /\ (a < MaxArrayItems <=> ~(a >= MaxArrayItems))
      /\ (m < MaxObjectMembers <=> ~(m >= MaxObjectMembers))
    BY <1>3, Bounds
<1>5. m + (a + 1) = m + a + 1 /\ (m + 1) + a = m + a + 1
    BY <1>3
<1>6. QED
    BY <1>1, <1>2, <1>4, <1>5 DEF v, m, a

LEMMA ScanItemStep == ASSUME Inv, NEW shape \in Shapes, ScanItem(shape) PROVE Inv'
<1> DEFINE last == Last(stack)
           top == [last EXCEPT !.index = @ + 1]
           charged == ItemCharged
<1>1. stage = "scan" /\ stack # <<>> /\ last.kind = "array" /\ last \in FrameSet /\ last.index \in Nat
    BY TopFrame DEF ScanItem, Scanning
<1>2. CASE budget.array_items >= MaxArrayItems
    <2>1. Fail("ResourceLimit", "json-work", FALSE) /\ UNCHANGED <<scan, accumulator>>
        BY <1>2 DEF ScanItem
    <2>2. QED
        BY <2>1, FailStep DEF Statuses
<1>3. CASE ~(budget.array_items >= MaxArrayItems)
    <2>1. EnterValue(charged, shape, Append(last.pointer, last.index), Append(Front(stack), top))
        BY <1>3 DEF ScanItem
    <2>2. /\ charged \in [json_values : 0..MaxJsonValues, object_members : 0..MaxObjectMembers,
                          array_items : 0..MaxArrayItems]
          /\ charged.json_values = budget.json_values
          /\ charged.object_members + charged.array_items =
                budget.object_members + budget.array_items + 1
        BY <1>3, Charging DEF Inv, Typed
    <2> HIDE DEF last, charged
    <2>3. /\ top \in FrameSet /\ top.pointer = last.pointer /\ top.kind = "array"
          /\ top.index = last.index + 1
        BY <1>1 DEF FrameSet
    <2> HIDE DEF top
    <2>4. /\ ~Seen(last, last.index) /\ Seen(top, last.index)
          /\ \A other : Seen(last, other) => Seen(top, other)
        BY <1>1, <2>3 DEF Seen
    <2>5. last.index \in Parts
        BY <1>1 DEF Parts
    <2>6. QED
        BY <1>1, <2>1, <2>2, <2>3, <2>4, <2>5, TopStep DEF last
<1>4. QED
    BY <1>2, <1>3

LEMMA ScanMemberStep ==
    ASSUME Inv, NEW key \in Keys, NEW shape \in Shapes, ScanMember(key, shape) PROVE Inv'
<1> DEFINE last == Last(stack)
           top == [last EXCEPT !.members = @ \cup {key}]
           charged == MemberCharged
<1>1. /\ stage = "scan" /\ stack # <<>> /\ last.kind = "object" /\ last \in FrameSet
      /\ last.members \subseteq Keys
    BY TopFrame DEF ScanMember, Scanning
<1>2. CASE key \in last.members
    <2>1. Fail("InvalidSource", "duplicate-member", TRUE) /\ UNCHANGED <<scan, accumulator>>
        BY <1>2 DEF ScanMember
    <2>2. QED
        BY <2>1, FailStep DEF Statuses
<1>3. CASE key \notin last.members /\ budget.object_members >= MaxObjectMembers
    <2>1. Fail("ResourceLimit", "json-work", FALSE) /\ UNCHANGED <<scan, accumulator>>
        BY <1>3 DEF ScanMember
    <2>2. QED
        BY <2>1, FailStep DEF Statuses
<1>4. CASE key \notin last.members /\ ~(budget.object_members >= MaxObjectMembers)
    <2>1. EnterValue(charged, shape, Append(last.pointer, key), Append(Front(stack), top))
        BY <1>4 DEF ScanMember
    <2>2. /\ charged \in [json_values : 0..MaxJsonValues, object_members : 0..MaxObjectMembers,
                          array_items : 0..MaxArrayItems]
          /\ charged.json_values = budget.json_values
          /\ charged.object_members + charged.array_items =
                budget.object_members + budget.array_items + 1
        BY <1>4, Charging DEF Inv, Typed
    <2> HIDE DEF last, charged
    <2>3. /\ top \in FrameSet /\ top.pointer = last.pointer /\ top.kind = "object"
          /\ top.members = last.members \cup {key}
        BY <1>1 DEF FrameSet
    <2> HIDE DEF top
    <2>4. /\ ~Seen(last, key) /\ Seen(top, key) /\ \A other : Seen(last, other) => Seen(top, other)
        BY <1>1, <1>4, <2>3 DEF Seen
    <2>5. key \in Parts
        BY DEF Parts
    <2>6. QED
        BY <1>1, <2>1, <2>2, <2>3, <2>4, <2>5, TopStep DEF last
<1>5. QED
    BY <1>2, <1>3, <1>4

LEMMA CloseContainerStep == ASSUME Inv, CloseContainer PROVE Inv'
<1>1. /\ stage = "scan" /\ stack # <<>> /\ stack' = Front(stack)
      /\ UNCHANGED <<stage, budget, pointers, root, result>>
      /\ UNCHANGED <<limit, emitted, entries, truncated, primary>>
    BY DEF CloseContainer, Scanning, accumulator
<1>2. stack \in Seq(FrameSet) /\ Len(stack) \in Nat /\ DOMAIN stack = 1..Len(stack)
    BY DEF Inv, Typed
<1>3. /\ stack' \in Seq(FrameSet) /\ Len(stack') = Len(stack) - 1
      /\ \A i \in 1..(Len(stack) - 1) : stack'[i] = stack[i]
    BY <1>1, <1>2, Fronts
<1>4. \A i \in DOMAIN stack' : i \in DOMAIN stack /\ stack'[i] = stack[i]
    <2>1. DOMAIN stack' = 1..(Len(stack) - 1)
        BY <1>3
    <2>2. QED
        BY <1>2, <1>3, <2>1
<1>5. Typed'
    BY <1>1, <1>3 DEF Inv, Typed
<1>6. Walked'
    BY <1>1, <1>4 DEF Inv, Walked
<1>7. Charged' /\ Retained' /\ Staged' /\ ResultIsCoherent'
    BY <1>1 DEF Inv, Charged, Retained, Staged, ResultIsCoherent, Recognized
<1>8. QED
    BY <1>5, <1>6, <1>7 DEF Inv

LEMMA ScanDoneStep == ASSUME Inv, ScanDone PROVE Inv'
<1>1. stage = "scan" /\ stack = <<>> /\ Advance("contract") /\ UNCHANGED <<scan, accumulator>>
    BY DEF ScanDone, Scanning
<1>2. emitted = <<>> /\ "contract" \in Stages \ {"done"} /\ "contract" \notin Recognized
    BY <1>1 DEF Inv, Staged, Stages, Recognized
<1>3. QED
    BY <1>1, <1>2, AdvanceStep

LEMMA ScanFailsStep == ASSUME Inv, ScanFails PROVE Inv'
    BY FailStep DEF ScanFails, Statuses

-----------------------------------------------------------------------------
(* Recognition and the accumulator. *)

LEMMA RecognizeContractStep ==
    ASSUME Inv, NEW discriminator \in {"malformed", "unknown-family", "unknown-revision", "recognized"},
           RecognizeContract(discriminator)
    PROVE  Inv'
<1>1. /\ stage = "contract" /\ UNCHANGED <<scan, accumulator>>
      /\ discriminator # "malformed" => root = "object"
    BY DEF RecognizeContract
<1>2. emitted = <<>> /\ stack = <<>>
    BY <1>1 DEF Inv, Staged
<1>3. CASE discriminator = "malformed"
    BY <1>1, <1>3, FailStep DEF RecognizeContract, Statuses
<1>4. CASE discriminator = "unknown-family"
    BY <1>1, <1>4, FailStep DEF RecognizeContract, Statuses
<1>5. CASE discriminator = "unknown-revision"
    BY <1>1, <1>5, FailStep DEF RecognizeContract, Statuses
<1>6. CASE discriminator = "recognized"
    <2>1. Advance("compile_schema") /\ "compile_schema" \in Stages \ {"done"} /\ root = "object"
        BY <1>1, <1>6 DEF RecognizeContract, Stages, Recognized
    <2>2. QED
        BY <1>1, <1>2, <2>1, AdvanceStep
<1>7. QED
    BY <1>3, <1>4, <1>5, <1>6

(* The elements of a sequence with one appended, and of its prefixes. *)
LEMMA AppendedSet ==
    ASSUME NEW S, NEW s \in Seq(S), NEW x \in S
    PROVE  /\ ToSet(Append(s, x)) = ToSet(s) \cup {x}
           /\ \A n \in 0..Len(s) : ToSet(SubSeq(Append(s, x), 1, n)) = ToSet(SubSeq(s, 1, n))
           /\ SubSeq(Append(s, x), 1, Len(s) + 1) = Append(s, x)
<1> DEFINE t == Append(s, x)
<1>1. /\ t \in Seq(S) /\ Len(t) = Len(s) + 1 /\ Len(s) \in Nat
      /\ \A i \in 1..Len(s) : t[i] = s[i]
      /\ t[Len(s) + 1] = x /\ DOMAIN t = 1..(Len(s) + 1) /\ DOMAIN s = 1..Len(s)
    BY AppendProperties
<1> HIDE DEF t
<1>2. ToSet(t) = ToSet(s) \cup {x}
    <2>1. \A i \in 1..(Len(s) + 1) : i \in 1..Len(s) \/ i = Len(s) + 1
        BY <1>1
    <2>2. \A i \in 1..Len(s) : i \in 1..(Len(s) + 1)
        BY <1>1
    <2>3. Len(s) + 1 \in 1..(Len(s) + 1)
        BY <1>1
    <2>4. QED
        BY <1>1, <2>1, <2>2, <2>3 DEF ToSet
<1>3. ASSUME NEW n \in 0..Len(s) PROVE SubSeq(t, 1, n) = SubSeq(s, 1, n)
    <2>1. /\ n \in Int /\ 1 \in Int
          /\ \A i \in 1..n : i \in 1..Len(s) /\ s[i] \in S /\ t[i] \in S /\ t[i] = s[i]
        BY <1>1
    <2>2. /\ SubSeq(t, 1, n) \in Seq(S) /\ SubSeq(s, 1, n) \in Seq(S)
          /\ Len(SubSeq(t, 1, n)) = Len(SubSeq(s, 1, n))
          /\ Len(SubSeq(s, 1, n)) = IF 1 <= n THEN n - 1 + 1 ELSE 0
          /\ \A i \in 1..(n - 1 + 1) : /\ SubSeq(t, 1, n)[i] = t[1 + i - 1]
                                       /\ SubSeq(s, 1, n)[i] = s[1 + i - 1]
        BY <2>1, SubSeqProperties
    <2> DEFINE a == SubSeq(t, 1, n)
               b == SubSeq(s, 1, n)
    <2>3. n \in Nat
        BY <1>1
    <2>4. a \in Seq(S) /\ b \in Seq(S) /\ Len(a) = n /\ Len(b) = n
          /\ \A i \in 1..n : a[i] = b[i]
        <3>1. Len(b) = n
            BY <2>2, <2>3
        <3>2. \A i \in 1..n : i \in 1..(n - 1 + 1) /\ 1 + i - 1 = i
            BY <2>3
        <3>3. QED
            BY <2>1, <2>2, <3>1, <3>2
    <2> HIDE DEF a, b
    <2>5. a = b
        BY <2>4, SeqEqual
    <2>6. QED
        BY <2>5 DEF a, b
<1>4. SubSeq(t, 1, Len(s) + 1) = t
    BY <1>1, SubSeqFull
<1>5. QED
    BY <1>2, <1>3, <1>4 DEF t

LEMMA PrefixElements ==
    ASSUME NEW S, NEW s \in Seq(S), NEW n \in 0..Len(s)
    PROVE  ToSet(SubSeq(s, 1, n)) \subseteq ToSet(s) /\ ToSet(s) \subseteq S
<1>1. DOMAIN s = 1..Len(s) /\ Len(s) \in Nat
    OBVIOUS
<1>2. \A i \in 1..n : i \in DOMAIN s /\ s[i] \in S
    BY <1>1
<1>3. SubSeq(s, 1, n) \in Seq(S) /\ Len(SubSeq(s, 1, n)) = n
      /\ \A i \in 1..n : SubSeq(s, 1, n)[i] = s[i]
    <2>1. n \in Nat /\ n \in Int /\ 1 \in Int
        BY <1>1
    <2>2. /\ SubSeq(s, 1, n) \in Seq(S) /\ Len(SubSeq(s, 1, n)) = IF 1 <= n THEN n - 1 + 1 ELSE 0
          /\ \A i \in 1..(n - 1 + 1) : SubSeq(s, 1, n)[i] = s[1 + i - 1]
        BY <1>2, <2>1, SubSeqProperties
    <2>3. \A i \in 1..n : i \in 1..(n - 1 + 1) /\ 1 + i - 1 = i
        BY <2>1
    <2>4. Len(SubSeq(s, 1, n)) = n
        BY <2>1, <2>2
    <2>5. QED
        BY <2>2, <2>3, <2>4
<1>4. DOMAIN SubSeq(s, 1, n) = 1..n
    BY <1>3
<1>5. ToSet(s) \subseteq S
    BY <1>1 DEF ToSet
<1>6. ASSUME NEW x \in ToSet(SubSeq(s, 1, n)) PROVE x \in ToSet(s)
    <2>1. PICK i \in 1..n : x = SubSeq(s, 1, n)[i]
        BY <1>4, <1>6 DEF ToSet
    <2>2. i \in DOMAIN s /\ x = s[i]
        BY <1>2, <1>3, <2>1
    <2>3. QED
        BY <2>2 DEF ToSet
<1>7. QED
    BY <1>5, <1>6

LEMMA RetainStep == ASSUME Inv, NEW key \in SchemaErrors, Retain(key) PROVE Inv'
<1>1. /\ stage = "schema" /\ Len(emitted) < MaxSchemaErrors /\ emitted' = Append(emitted, key)
      /\ UNCHANGED <<stage, stack, budget, pointers, root, limit, result>>
    BY DEF Retain, scan
<1>2. /\ emitted \in Seq(SchemaErrors) /\ entries \in Seq(SchemaErrors) /\ key \in Nat
      /\ Len(emitted) \in Nat /\ Len(entries) \in Nat /\ limit \in Nat
      /\ primary \in SchemaErrors \cup {NoPrimary}
    BY Bounds DEF Inv, Typed
<1>3. /\ ToSet(emitted') = ToSet(emitted) \cup {key}
      /\ \A n \in 0..Len(emitted) : ToSet(SubSeq(emitted', 1, n)) = ToSet(SubSeq(emitted, 1, n))
      /\ SubSeq(emitted', 1, Len(emitted) + 1) = emitted'
      /\ Len(emitted') = Len(emitted) + 1 /\ emitted' \in Seq(SchemaErrors) /\ emitted' # <<>>
    BY <1>1, <1>2, AppendedSet, AppendProperties
<1>4. PICK n \in 0..Len(emitted) : ToSet(entries) = ToSet(SubSeq(emitted, 1, n))
    BY DEF Inv, Retained
<1>5. ToSet(entries) \subseteq ToSet(emitted) /\ ToSet(emitted) \subseteq SchemaErrors
    BY <1>2, <1>4, PrefixElements
<1>6. /\ IsFiniteSet(ToSet(emitted)) /\ Cardinality(ToSet(entries)) = Len(entries)
      /\ Len(emitted) <= MaxSchemaErrors /\ Len(entries) <= limit
      /\ truncated => Len(entries) = limit
      /\ truncated <=> ToSet(entries) # ToSet(emitted)
    BY DEF Inv, Retained
<1>7. IsFiniteSet(ToSet(emitted')) /\ Len(emitted') <= MaxSchemaErrors
    <2>1. IsFiniteSet(ToSet(emitted) \cup {key})
        BY <1>6, FS_AddElement
    <2>2. QED
        BY <1>1, <1>2, <1>3, <2>1, Bounds
<1>8. /\ Contains(entries, key) <=> key \in ToSet(entries)
      /\ Staged' /\ Walked' /\ Charged' /\ ResultIsCoherent'
    <2>1. DOMAIN entries = 1..Len(entries)
        BY <1>2
    <2>2. Contains(entries, key) <=> key \in ToSet(entries)
        BY <2>1 DEF Contains, ToSet
    <2>3. Staged' /\ Walked' /\ Charged' /\ ResultIsCoherent'
        BY <1>1 DEF Inv, Staged, Walked, Seen, Charged, ResultIsCoherent, Recognized
    <2>4. QED
        BY <2>2, <2>3
(* The reserved primary stays the least of all that was emitted. *)
<1>9. ASSUME primary' = IF primary = NoPrimary \/ key < primary THEN key ELSE primary
      PROVE  /\ primary' \in SchemaErrors /\ primary' \in ToSet(emitted')
             /\ \A k \in ToSet(emitted') : primary' <= k
    <2>1. CASE emitted = <<>>
        <3>1. ToSet(emitted) = {} /\ primary = NoPrimary
            BY <2>1 DEF Inv, Retained, ToSet
        <3>2. QED
            BY <1>2, <1>3, <1>9, <3>1
    <2>2. CASE emitted # <<>>
        <3>1. primary \in ToSet(emitted) /\ \A k \in ToSet(emitted) : primary <= k
            BY <2>2 DEF Inv, Retained
        <3>2. ToSet(emitted) \subseteq Nat /\ primary # NoPrimary
            BY <1>5, <3>1, Bounds
        <3>3. QED
            BY <1>2, <1>3, <1>5, <1>9, <3>1, <3>2
    <2>3. QED
        BY <2>1, <2>2
<1>10. CASE Contains(entries, key)
    <2>1. UNCHANGED <<entries, truncated, primary>> /\ key \in ToSet(entries)
        BY <1>8, <1>10 DEF Retain
    <2>2. Typed'
        BY <1>1, <1>3, <2>1 DEF Inv, Typed
    <2>3. ToSet(emitted') = ToSet(emitted) /\ emitted # <<>>
        <3>1. ToSet(emitted') = ToSet(emitted) /\ key \in ToSet(emitted)
            BY <1>3, <1>5, <2>1
        <3>2. ToSet(<<>>) = {}
            <4>1. DOMAIN <<>> = {}
                OBVIOUS
            <4>2. QED
                BY <4>1 DEF ToSet
        <3>3. QED
            BY <3>1, <3>2
    <2>4. primary' \in ToSet(emitted') /\ \A k \in ToSet(emitted') : primary' <= k
        BY <2>1, <2>3 DEF Inv, Retained
    <2>5. \E m \in 0..Len(emitted') : ToSet(entries') = ToSet(SubSeq(emitted', 1, m))
        <3>1. n \in 0..Len(emitted') /\ ToSet(entries') = ToSet(SubSeq(emitted', 1, n))
            BY <1>2, <1>3, <1>4, <2>1
        <3>2. QED
            BY <3>1
    <2>6. Retained'
        BY <1>1, <1>3, <1>6, <1>7, <2>1, <2>3, <2>4, <2>5 DEF Retained
    <2>7. QED
        BY <1>8, <2>2, <2>6 DEF Inv
<1>11. CASE ~Contains(entries, key) /\ Len(entries) < limit
    <2>1. /\ entries' = Append(entries, key) /\ truncated' = truncated /\ key \notin ToSet(entries)
          /\ primary' = IF primary = NoPrimary \/ key < primary THEN key ELSE primary
        BY <1>8, <1>11 DEF Retain
    <2>2. /\ primary' \in SchemaErrors /\ primary' \in ToSet(emitted')
          /\ \A k \in ToSet(emitted') : primary' <= k
        BY <1>9, <2>1
    <2>3. ~truncated /\ ToSet(entries) = ToSet(emitted)
        BY <1>2, <1>6, <1>11
    <2>4. /\ ToSet(entries') = ToSet(entries) \cup {key} /\ Len(entries') = Len(entries) + 1
          /\ entries' \in Seq(SchemaErrors)
        BY <1>2, <2>1, AppendedSet, AppendProperties
    <2>5. ToSet(entries') = ToSet(emitted')
        BY <1>3, <2>3, <2>4
    <2>6. Cardinality(ToSet(entries')) = Len(entries')
        BY <1>6, <2>1, <2>3, <2>4, FS_AddElement
    <2>7. \E m \in 0..Len(emitted') : ToSet(entries') = ToSet(SubSeq(emitted', 1, m))
        <3>1. Len(emitted) + 1 \in 0..Len(emitted')
            BY <1>2, <1>3
        <3>2. QED
            BY <1>3, <2>5, <3>1
    <2>8. Typed'
        BY <1>1, <1>3, <2>1, <2>2, <2>4 DEF Inv, Typed
    <2>9. Len(entries') <= limit' /\ (truncated' => Len(entries') = limit')
        BY <1>1, <1>2, <1>11, <2>1, <2>3, <2>4
    <2>10. Retained'
        BY <1>3, <1>7, <1>1, <2>1, <2>2, <2>3, <2>5, <2>6, <2>7, <2>9 DEF Retained
    <2>11. QED
        BY <1>8, <2>8, <2>10 DEF Inv
<1>12. CASE ~Contains(entries, key) /\ ~(Len(entries) < limit)
    <2>1. /\ entries' = entries /\ truncated' = TRUE /\ key \notin ToSet(entries)
          /\ primary' = IF primary = NoPrimary \/ key < primary THEN key ELSE primary
        BY <1>8, <1>12 DEF Retain
    <2>2. /\ primary' \in SchemaErrors /\ primary' \in ToSet(emitted')
          /\ \A k \in ToSet(emitted') : primary' <= k
        BY <1>9, <2>1
    <2>3. ToSet(entries') # ToSet(emitted')
        BY <1>3, <2>1
    <2>4. Len(entries') = limit' /\ Len(entries') <= limit'
        BY <1>1, <1>2, <1>6, <1>12, <2>1
    <2>5. \E m \in 0..Len(emitted') : ToSet(entries') = ToSet(SubSeq(emitted', 1, m))
        <3>1. n \in 0..Len(emitted') /\ ToSet(entries') = ToSet(SubSeq(emitted', 1, n))
            BY <1>2, <1>3, <1>4, <2>1
        <3>2. QED
            BY <3>1
    <2>6. Typed'
        BY <1>1, <1>3, <2>1, <2>2 DEF Inv, Typed
    <2>7. Retained'
        BY <1>3, <1>6, <1>7, <1>1, <2>1, <2>2, <2>3, <2>4, <2>5 DEF Retained
    <2>8. QED
        BY <1>8, <2>6, <2>7 DEF Inv
<1>13. QED
    BY <1>10, <1>11, <1>12

LEMMA FinishSchemaStep == ASSUME Inv, FinishSchema PROVE Inv'
<1>1. stage = "schema" /\ UNCHANGED <<scan, accumulator>> /\ stack = <<>> /\ root = "object"
    BY DEF FinishSchema, Inv, Staged, Recognized
<1>2. CASE emitted = <<>>
    <2>1. Advance("deserialize") /\ "deserialize" \in Stages \ {"done"}
        BY <1>2 DEF FinishSchema, Stages, Recognized
    <2>2. QED
        BY <1>1, <1>2, <2>1, AdvanceStep
<1>3. CASE emitted # <<>>
    <2>1. /\ stage' = "done" /\ result'.status = "InvalidSource" /\ result'.processing_complete = TRUE
          /\ result'.primary = {primary} /\ result'.document = FALSE
          /\ result'.diagnostics_complete = ~truncated
          /\ UNCHANGED <<stack, budget, pointers, root, limit, emitted, entries, truncated, primary>>
        BY <1>1, <1>3 DEF FinishSchema, scan, accumulator
    <2>2. Typed' /\ Staged'
        BY <2>1 DEF Inv, Typed, Stages, Staged, Recognized
    <2>3. Walked' /\ Charged' /\ Retained'
        BY <2>1 DEF Inv, Walked, Charged, Retained, Seen
    <2>4. ResultIsCoherent'
        BY <2>1 DEF ResultIsCoherent
    <2>5. QED
        BY <2>2, <2>3, <2>4 DEF Inv
<1>4. QED
    BY <1>2, <1>3

LEMMA CheckExtensionsStep ==
    ASSUME Inv, NEW required \in BOOLEAN, CheckExtensions(required) PROVE Inv'
<1>1. /\ stage = "extensions" /\ UNCHANGED <<scan, accumulator>>
      /\ stack = <<>> /\ root = "object" /\ emitted = <<>>
    BY DEF CheckExtensions, Inv, Staged, Recognized
<1>2. CASE required
    <2>1. Fail("Unsupported", "unsupported-required-extension", TRUE)
        BY <1>2 DEF CheckExtensions
    <2>2. QED
        BY <1>1, <2>1, FailStep DEF Statuses
<1>3. CASE ~required
    <2>1. /\ stage' = "done" /\ result'.status = "Success" /\ result'.processing_complete = TRUE
          /\ result'.primary = {} /\ result'.document = TRUE /\ result'.diagnostics_complete = TRUE
          /\ UNCHANGED <<stack, budget, pointers, root, limit, emitted, entries, truncated, primary>>
        BY <1>1, <1>3 DEF CheckExtensions, scan, accumulator
    <2>2. Typed' /\ Staged'
        BY <2>1 DEF Inv, Typed, Stages, Staged, Recognized
    <2>3. Walked' /\ Charged' /\ Retained'
        BY <2>1 DEF Inv, Walked, Charged, Retained, Seen
    <2>4. ResultIsCoherent'
        BY <1>1, <2>1 DEF ResultIsCoherent
    <2>5. QED
        BY <2>2, <2>3, <2>4 DEF Inv
<1>4. QED
    BY <1>2, <1>3

-----------------------------------------------------------------------------
LEMMA Inductive == ASSUME Inv, [Next]_vars PROVE Inv'
<1>1. CASE \E b \in BOOLEAN :
        \/ CheckSourceBytes(b) \/ CheckGrammar(b) \/ ScanRawTokens(b)
        \/ CompileSchema(b) \/ Deserialize(b) \/ CheckExtensions(b)
    BY <1>1, ChecksStep, CheckExtensionsStep
<1>2. CASE \E shape \in Shapes :
        \/ ScanRoot(shape) \/ ScanItem(shape)
        \/ \E key \in Keys : ScanMember(key, shape)
    BY <1>2, ScanRootStep, ScanItemStep, ScanMemberStep
<1>3. CASE CloseContainer \/ ScanDone \/ ScanFails
    BY <1>3, CloseContainerStep, ScanDoneStep, ScanFailsStep
<1>4. CASE \E d \in {"malformed", "unknown-family", "unknown-revision", "recognized"} :
        RecognizeContract(d)
    BY <1>4, RecognizeContractStep
<1>5. CASE (\E key \in SchemaErrors : Retain(key)) \/ FinishSchema
    BY <1>5, RetainStep, FinishSchemaStep
<1>6. CASE UNCHANGED vars
    <2>1. UNCHANGED <<stage, stack, budget, pointers, root, limit, emitted, entries, truncated,
                      primary, result>>
        BY <1>6 DEF vars, scan, accumulator
    <2>2. QED
        BY <2>1 DEF Inv, Typed, Walked, Seen, Charged, Retained, Staged, ResultIsCoherent
<1>7. QED
    BY <1>1, <1>2, <1>3, <1>4, <1>5, <1>6 DEF Next

LEMMA Invariance == Spec => []Inv
<1>1. Inv /\ [Next]_vars => Inv'
    BY Inductive
<1>2. QED
    BY InitialAdmission, <1>1, PTL DEF Spec

(* The state of an admission is typed: frames of the scan are arrays or    *)
(* objects over known keys, no budget of JsonBudget and no capacity of the *)
(* accumulator is ever exceeded.                                           *)
THEOREM AdmissionTypes == Spec => []WithinBudgets
<1>1. Inv => WithinBudgets
    <2> SUFFICES ASSUME Inv PROVE WithinBudgets
        OBVIOUS
    <2>1. stack \in Seq(FrameSet)
        BY DEF Inv, Typed
    <2>2. \A i \in DOMAIN stack : stack[i].kind \in {"array", "object"} /\ stack[i].members \subseteq Keys
        <3>1. \A i \in DOMAIN stack : stack[i] \in FrameSet
            BY <2>1
        <3>2. \A f \in FrameSet : f.kind \in {"array", "object"} /\ f.members \subseteq Keys
            BY DEF FrameSet
        <3>3. QED
            BY <3>1, <3>2
    <2>3. QED
        BY <2>2 DEF Inv, Typed, Retained, WithinBudgets
<1>2. QED
    BY Invariance, <1>1, PTL

(* For any document the scan may meet, however its objects and arrays are  *)
(* nested, DuplicateVisitor admits no pointer twice, and the counters of   *)
(* JsonBudget add up to the number of values admitted.                     *)
THEOREM BudgetsAlwaysAddUp == Spec => []BudgetsAddUp
<1>1. Inv => BudgetsAddUp
    <2> SUFFICES ASSUME Inv PROVE BudgetsAddUp
        OBVIOUS
    <2>1. budget.json_values = Cardinality(pointers)
        BY DEF Inv, Charged
    <2>2. \A p \in pointers : Len(p) < MaxNestingDepth
        BY DEF Inv, Walked
    <2>3. pointers # {} => budget.json_values = 1 + budget.object_members + budget.array_items
        <3>1. pointers # {} => budget.object_members + budget.array_items = budget.json_values - 1
            BY DEF Inv, Charged
        <3>2. budget.json_values \in Nat /\ budget.object_members \in Nat /\ budget.array_items \in Nat
            BY Bounds DEF Inv, Typed
        <3>3. QED
            BY <3>1, <3>2
    <2>4. \A p \in pointers : p # <<>> => Front(p) \in pointers
        BY DEF Inv, Walked
    <2>5. QED
        BY <2>1, <2>2, <2>3, <2>4 DEF BudgetsAddUp
<1>2. QED
    BY Invariance, <1>1, PTL

LEMMA LeastOf ==
    ASSUME NEW S \in SUBSET Nat, NEW least \in S, \A x \in S : least <= x
    PROVE  Min(S) = least
<1>1. \A y \in S : (\A x \in S : y <= x) => y = least
    BY DEF Min
<1>2. Min(S) \in S /\ \A x \in S : Min(S) <= x
    BY DEF Min
<1>3. QED
    BY <1>1, <1>2

(* Whatever order the schema validator reports its errors in and whatever  *)
(* the limit is, DiagnosticAccumulator keeps the least of all as primary,  *)
(* retains the first distinct ones, and says truncated exactly when one    *)
(* was left out.                                                           *)
THEOREM RetentionIsAlwaysBounded == Spec => []RetentionIsBounded
<1>1. Inv => RetentionIsBounded
    <2> SUFFICES ASSUME Inv, emitted # <<>> PROVE RetentionIsBounded
        BY DEF RetentionIsBounded
    <2>1. /\ emitted \in Seq(SchemaErrors) /\ limit \in Nat /\ Len(entries) \in Nat
        BY Bounds DEF Inv, Typed
    <2>2. /\ IsFiniteSet(ToSet(emitted)) /\ Cardinality(ToSet(entries)) = Len(entries)
          /\ Len(entries) <= limit
          /\ truncated => Len(entries) = limit
          /\ truncated <=> ToSet(entries) # ToSet(emitted)
          /\ \E n \in 0..Len(emitted) : ToSet(entries) = ToSet(SubSeq(emitted, 1, n))
          /\ primary \in ToSet(emitted) /\ \A key \in ToSet(emitted) : primary <= key
        BY DEF Inv, Retained
    <2>3. ToSet(entries) \subseteq ToSet(emitted) /\ ToSet(emitted) \subseteq Nat
        BY <2>1, <2>2, PrefixElements, Bounds
    <2>4. primary = Min(ToSet(emitted))
        BY <2>2, <2>3, LeastOf
    <2>5. Cardinality(ToSet(entries)) = Min({limit, Cardinality(ToSet(emitted))})
        <3>1. Cardinality(ToSet(emitted)) \in Nat /\ Len(entries) <= Cardinality(ToSet(emitted))
            BY <2>2, <2>3, FS_Subset, FS_CardinalityType
        <3>2. Len(entries) \in {limit, Cardinality(ToSet(emitted))}
            BY <2>2
        <3>3. {limit, Cardinality(ToSet(emitted))} \in SUBSET Nat
            BY <2>1, <3>1
        <3>4. QED
            BY <2>2, <3>1, <3>2, <3>3, LeastOf
    <2>6. QED
        BY <2>2, <2>4, <2>5 DEF RetentionIsBounded
<1>2. QED
    BY Invariance, <1>1, PTL

(* A result of admit_impl is coherent for every order of refusals: no      *)
(* source with a schema error is admitted, truncation alone is never a     *)
(* resource limit, and only a limit or an internal failure interrupts.     *)
THEOREM ResultIsAlwaysCoherent == Spec => []ResultIsCoherent
<1>1. Inv => ResultIsCoherent
    BY DEF Inv
<1>2. QED
    BY Invariance, <1>1, PTL
=============================================================================
