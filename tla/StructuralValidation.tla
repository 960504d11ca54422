------------------------- MODULE StructuralValidation -------------------------
(***************************************************************************)
(* structural_validation.rs: Validator::run over one body document.  Each  *)
(* pass is an action, in the order run() calls them; a pass reads the maps *)
(* that earlier passes filled and adds to the diagnostics.  Diagnostics    *)
(* are a set of codes and addresses: run() sorts and dedups the vector     *)
(* before anybody sees it.  The containment walk of check_parts is modelled*)
(* step by step, because it is a loop over caller-supplied links that may  *)
(* form a cycle.  build_graph is StructuralBodyGraph::from_validated, whose*)
(* expect() panics when the index rejects what the passes accepted.        *)
(***************************************************************************)
EXTENDS BodyDocuments

CONSTANT Documents   \* the documents handed to the validator

ASSUME DocumentsAssumption == Documents \subseteq BodyDocument

VARIABLES
    doc,          \* the document under validation
    pc,           \* the pass that runs next
    diagnostics,  \* Validator.diagnostics
    identities,   \* keys of Validator.identities
    partKeys,     \* keys of Validator.parts
    socketKeys,   \* keys of Validator.sockets
    framesSeen,   \* Validator.frames_seen
    walk,         \* check_parts' loop: keys to walk, start, current, seen
    graph         \* the StructuralValidationResult's graph

vars == <<doc, pc, diagnostics, identities, partKeys, socketKeys, framesSeen, walk, graph>>

maps == <<identities, partKeys, socketKeys, framesSeen>>

Passes == <<"check_source_namespace", "collect_modules", "collect_identity_addresses",
            "collect_owner_records", "check_modules", "check_parts", "walk_parts",
            "check_joints", "check_sockets", "check_attachments",
            "check_owned_references", "build_graph", "done">>

Diagnostic == [code : STRING, at : Address \cup {NoAddress}]

Diag(code, a) == [code |-> code, at |-> a]
Unlocated(code) == Diag(code, NoAddress)
When(condition, diagnostic) == IF condition THEN {diagnostic} ELSE {}

-----------------------------------------------------------------------------
(* Reference checks.  Each require_x is a set of diagnostics and, when it  *)
(* returns Some(key), the predicate XResolves.                             *)

IdentityResolves(a) == IsKey(a) /\ a \in identities

RequireIdentity(a) ==
    IF ~IsKey(a) THEN {Unlocated("reference-address-invalid")}
    ELSE When(a.namespace # doc.source.namespace, Diag("reference-namespace-not-owned", a))
            \cup When(a \notin identities, Diag("reference-dangling", a))

KeyResolves(a, kind, keys) == IdentityResolves(a) /\ a.kind = kind /\ a \in keys

RequireKey(a, kind, keys) ==
    RequireIdentity(a) \cup
    IF ~IdentityResolves(a) THEN {}
    ELSE IF a.kind # kind THEN {Diag("reference-kind-mismatch", a)}
    ELSE When(a \notin keys, Diag("reference-dangling", a))

PartResolves(a) == KeyResolves(a, "part", partKeys)
RequirePart(a) == RequireKey(a, "part", partKeys)

SocketResolves(a) == KeyResolves(a, "socket", socketKeys)
RequireSocket(a) == RequireKey(a, "socket", socketKeys)

RequireFrame(f) ==
    RequireIdentity(f.owner) \cup
    IF ~IdentityResolves(f.owner) THEN {}
    ELSE IF ~IsOwnerRoleKey(f) THEN {Diag("frame-reference-invalid", f.owner)}
    ELSE When(OwnerRoleOf(f) \notin framesSeen, Diag("frame-reference-dangling", f.owner))

-----------------------------------------------------------------------------
(* Collecting passes *)

DependencyDiags(d) ==
    When(d.document \notin Identifiers, Unlocated("dependency-document-invalid"))
    \cup When(d.namespace \notin Identifiers, Unlocated("dependency-namespace-invalid"))
    \cup When(d.content_sha256 \notin Digests, Unlocated("dependency-content-sha256-invalid"))
    \cup When(d.namespace = doc.source.namespace, Unlocated("dependency-namespace-collision"))

DependencyNamespaces ==
    [i \in DOMAIN doc.source.dependencies |-> doc.source.dependencies[i].namespace]

SourceDiags ==
    When(doc.source.document \notin Identifiers, Unlocated("source-document-invalid"))
    \cup When(doc.source.namespace \notin Identifiers, Unlocated("source-namespace-invalid"))
    \cup (UNION {DependencyDiags(d) : d \in Range(doc.source.dependencies)})
    \cup When(Repeated(DependencyNamespaces) # {}, Unlocated("dependency-namespace-duplicate"))

Declarations == [i \in DOMAIN doc.modules |-> doc.modules[i].declaration]

DeclarationDiags ==
    When(~(Range(Declarations) \subseteq Identifiers), Unlocated("module-declaration-invalid"))
    \cup When(Repeated(Declarations) \cap Identifiers # {}, Unlocated("module-declaration-duplicate"))

(* The identity-bearing collections in the order they are collected, each  *)
(* with the kind its addresses must carry.                                 *)
Collections == <<<<doc.parts, "part">>, <<doc.joints, "joint">>, <<doc.sockets, "socket">>,
                 <<doc.attachments, "attachment">>, <<doc.regions, "region">>,
                 <<doc.capabilities, "capability">>, <<doc.fields, "field">>>>

Addresses(records) == [i \in DOMAIN records |-> records[i].address]

KeysOf(records) == {a \in Range(Addresses(records)) : IsKey(a)}

AllAddresses ==
    Addresses(doc.parts) \o Addresses(doc.joints) \o Addresses(doc.sockets)
    \o Addresses(doc.attachments) \o Addresses(doc.regions)
    \o Addresses(doc.capabilities) \o Addresses(doc.fields)

AllKeys == {a \in Range(AllAddresses) : IsKey(a)}

KindDiags(n) ==
    {Diag("address-kind-mismatch", a) :
        a \in {k \in KeysOf(Collections[n][1]) : k.kind # Collections[n][2]}}

IdentityDiags ==
    When(Range(AllAddresses) # AllKeys, Unlocated("address-invalid"))
    \cup {Diag("address-namespace-not-owned", a) :
            a \in {k \in AllKeys : k.namespace # doc.source.namespace}}
    \cup (UNION {KindDiags(n) : n \in 1..7})
    \cup {Diag("address-duplicate", a) : a \in {k \in Repeated(AllAddresses) : IsKey(k)}}

OwnerRoles(records) == [i \in DOMAIN records |-> OwnerRoleOf(records[i])]

RoleKeys(records) == {r \in Range(OwnerRoles(records)) : IsOwnerRoleKey(r)}

RoleDiagsInvalidOnly(records, invalid, duplicate) ==            \* mutant: insert unchecked
    When(Range(OwnerRoles(records)) # RoleKeys(records), Unlocated(invalid))

RoleDiags(records, invalid, duplicate) ==
    When(Range(OwnerRoles(records)) # RoleKeys(records), Unlocated(invalid))
    \cup {Diag(duplicate, r.owner) :
            r \in {k \in Repeated(OwnerRoles(records)) : IsOwnerRoleKey(k)}}

OwnerDiags ==
    RoleDiags(doc.frames, "frame-owner-invalid", "frame-duplicate")
    \cup RoleDiags(doc.landmarks, "landmark-owner-invalid", "landmark-duplicate")
    \cup RoleDiags(doc.dimensions, "dimension-owner-invalid", "dimension-duplicate")
    \cup When(\E f \in Range(doc.fields) : ~IsKey(f.owner), Unlocated("field-owner-invalid"))

-----------------------------------------------------------------------------
(* Checking passes *)

AddressOrNone(a) == IF a # NoAddress /\ IsKey(a) THEN a ELSE NoAddress

ModuleDiagsOf(m) ==
    When(m.fields \notin Identifiers, Unlocated("module-field-invalid")) \cup
    CASE m.presence = "absent" /\ m.root # NoAddress ->
            {Diag("absent-module-has-root", AddressOrNone(m.root))}
      [] m.presence = "absent" /\ m.root = NoAddress ->
            When(~m.optional, Unlocated("absent-module-flags"))
      [] m.presence = "present" /\ m.root = NoAddress -> {Unlocated("present-module-missing-root")}
      [] m.presence = "present" /\ m.root # NoAddress -> RequirePart(m.root)

ModuleDiags == UNION {ModuleDiagsOf(m) : m \in Range(doc.modules)}

Roots == {i \in DOMAIN doc.parts : doc.parts[i].containment = "root"}

PartDiags ==
    When(Cardinality(Roots) # 1, Unlocated("part-root-count"))
    \cup {Diag("part-root-false", p.address) :
            p \in {q \in Range(doc.parts) : q.containment = "unrooted" /\ IsKey(q.address)}}
    \cup (UNION {RequirePart(p.parent) :
            p \in {q \in Range(doc.parts) : Parented(q) /\ IsKey(q.address)}})

WalkParentUnresolved == ParentMap(doc.parts, DOMAIN doc.parts)  \* mutant: no require_part

(* check_parts' `parent`: the links whose two ends resolve. *)
WalkParent == ParentMap(doc.parts,
    {i \in DOMAIN doc.parts : /\ Parented(doc.parts[i]) /\ IsKey(doc.parts[i].address)
                              /\ PartResolves(doc.parts[i].parent)})

IsSoleRoot(a) == \E i \in Roots : doc.parts[i].address = a

Keyed(records) == {r \in Range(records) : IsKey(r.address)}

(* The first record with the address. *)
PartRecord(a) == doc.parts[Min({i \in DOMAIN doc.parts : doc.parts[i].address = a})]

JointDiagsOf(j) ==
    RequirePart(j.proximal)
    \cup (IF PartResolves(j.proximal) THEN RequirePart(j.distal) ELSE {})
    \cup When(/\ PartResolves(j.proximal) /\ PartResolves(j.distal)
              /\ j.proximal = j.distal,
              Diag("joint-self-relation", j.address))
    \cup When(/\ PartResolves(j.proximal) /\ PartResolves(j.distal)
              /\ ~(Parented(PartRecord(j.distal)) /\ PartRecord(j.distal).parent = j.proximal),
              Diag("joint-not-immediate-child", j.address))

JointDiags == UNION {JointDiagsOf(j) : j \in Keyed(doc.joints)}

SocketDiagsOf(s) ==
    RequirePart(s.owner) \cup When(s.owner.kind # "part", Diag("socket-owner-kind", s.address))

SocketDiags == UNION {SocketDiagsOf(s) : s \in Keyed(doc.sockets)}

(* check_attachments *)

HostResolves(n) == IsKey(doc.attachments[n].address) /\ SocketResolves(doc.attachments[n].host)

ValidAttachments ==
    {n \in DOMAIN doc.attachments : HostResolves(n) /\ SocketResolves(doc.attachments[n].mating)}

EndpointSocket(e) ==
    IF e[2] = "host" THEN doc.attachments[e[1]].host ELSE doc.attachments[e[1]].mating

EndpointsOn(s) == {e \in ValidAttachments \X {"host", "mating"} : EndpointSocket(e) = s}

PairKeys(n) ==
    {doc.attachments[k].address : k \in {i \in ValidAttachments :
        /\ doc.attachments[i].host = doc.attachments[n].host
        /\ doc.attachments[i].mating = doc.attachments[n].mating}}

SocketReferenceDiags(n) ==
    RequireSocket(doc.attachments[n].host)
    \cup (IF HostResolves(n) THEN RequireSocket(doc.attachments[n].mating) ELSE {})

EndpointDiags ==
    (UNION {SocketReferenceDiags(n) :
            n \in {k \in DOMAIN doc.attachments : IsKey(doc.attachments[k].address)}})
    \cup {Diag("attachment-same-endpoint", doc.attachments[n].address) :
            n \in {k \in ValidAttachments : doc.attachments[k].host = doc.attachments[k].mating}}
    \* reported at the least key of the pair; which one is least is not modelled
    \cup {Diag("attachment-endpoint-pair-duplicate", CHOOSE k \in PairKeys(n) : TRUE) :
            n \in {k \in ValidAttachments : Cardinality(PairKeys(k)) > 1}}
    \cup {Diag("socket-capacity-exceeded", s) :
            s \in {k \in socketKeys : Cardinality(EndpointsOn(k)) > 1}}

ContainmentParent == ParentMap(doc.parts,
    {i \in DOMAIN doc.parts : /\ Parented(doc.parts[i]) /\ IsKey(doc.parts[i].address)
                              /\ IsKey(doc.parts[i].parent)})

SocketOwner == OwnerMap(doc.sockets)

(* The modules both loops over module roots look at. *)
RequiredModules ==
    {m \in DOMAIN doc.modules :
        /\ doc.modules[m].presence = "present" /\ doc.modules[m].attachment_required
        /\ AddressOrNone(doc.modules[m].root) # NoAddress}

MatesInto(n, root) ==
    /\ doc.attachments[n].mating \in DOMAIN SocketOwner
    /\ InContainmentSubtree(SocketOwner[doc.attachments[n].mating], root, ContainmentParent)

HostedByParent(n, root) ==
    /\ root \in DOMAIN ContainmentParent
    /\ doc.attachments[n].host \in DOMAIN SocketOwner
    /\ SocketOwner[doc.attachments[n].host] = ContainmentParent[root]

MatchesSubtree(n, m) == MatesInto(n, doc.modules[m].root)       \* mutant: host not compared

Matches(n, m) == HostedByParent(n, doc.modules[m].root) /\ MatesInto(n, doc.modules[m].root)

ModuleRootDiags(m) ==
    LET root == doc.modules[m].root
        candidates == {n \in ValidAttachments : MatesInto(n, root)}
        matching == {n \in ValidAttachments : Matches(n, m)}
    IN IF Cardinality(matching) = 1 THEN {}
       ELSE IF Cardinality(candidates) # 1
       THEN {Diag("module-root-incoming-attachment-count", root)}
       ELSE When(\A n \in candidates : ~HostedByParent(n, root),
                 Diag("module-root-host-owner-mismatch", root))

ModuleAttachmentDiags == UNION {ModuleRootDiags(m) : m \in RequiredModules}

UnmatchedDiagsNone ==                                           \* mutant: at most one match
    {Diag("attachment-module-root-mismatch", doc.attachments[n].address) :
        n \in {k \in ValidAttachments : Cardinality({m \in RequiredModules : Matches(k, m)}) > 1}}

UnmatchedDiags ==
    {Diag("attachment-module-root-mismatch", doc.attachments[n].address) :
        n \in {k \in ValidAttachments : Cardinality({m \in RequiredModules : Matches(k, m)}) # 1}}

AttachmentDiags == EndpointDiags \cup ModuleAttachmentDiags \cup UnmatchedDiags

(* check_owned_references *)

OwnedRecords == Range(OwnerRoles(doc.landmarks)) \cup Range(OwnerRoles(doc.dimensions))
                    \cup Range(OwnerRoles(doc.frames))

ReferenceDiags ==
    (UNION {RequirePart(a) : a \in UNION {r.parts : r \in Keyed(doc.regions)}})
    \cup (UNION {RequireIdentity(a) : a \in UNION {c.subjects : c \in Keyed(doc.capabilities)}})
    \cup (UNION {RequireIdentity(r.owner) : r \in {o \in OwnedRecords : IsKey(o.owner)}})
    \cup (UNION {RequireFrame(l.frame) : l \in {r \in Range(doc.landmarks) : IsKey(r.owner)}})
    \cup (UNION {RequireIdentity(f.owner) \cup RequireFrame(f.frame) : f \in Keyed(doc.fields)})

-----------------------------------------------------------------------------
(* StructuralBodyGraph::from_admitted: every insert must be the first for  *)
(* its key, in its own collection.                                         *)

IndexesOnce(keys) == Repeated(keys) = {}

IndexAccepts ==
    /\ IndexesOnce([i \in DOMAIN doc.modules |-> doc.modules[i].declaration])
    /\ \A m \in Range(doc.modules) : m.declaration \in Identifiers
    /\ \A n \in 1..7 : LET records == Collections[n][1]
                       IN KeysOf(records) = Range(Addresses(records)) /\ IndexesOnce(Addresses(records))
    /\ \A records \in {doc.landmarks, doc.dimensions, doc.frames} :
            RoleKeys(records) = Range(OwnerRoles(records)) /\ IndexesOnce(OwnerRoles(records))

-----------------------------------------------------------------------------
NotWalking == [todo |-> {}, start |-> NoAddress, current |-> NoAddress, seen |-> {}]

Init ==
    /\ doc \in Documents
    /\ pc = "check_source_namespace"
    /\ diagnostics = {}
    /\ identities = {} /\ partKeys = {} /\ socketKeys = {} /\ framesSeen = {}
    /\ walk = NotWalking
    /\ graph = "none"

Report(found) == diagnostics' = diagnostics \cup found

(* A pass that only reports. *)
Pass(name, next, found) ==
    /\ pc = name
    /\ pc' = next
    /\ Report(found)
    /\ UNCHANGED <<doc, walk, graph>>

CheckSourceNamespace ==
    Pass("check_source_namespace", "collect_modules", SourceDiags) /\ UNCHANGED maps

CollectModules ==
    Pass("collect_modules", "collect_identity_addresses", DeclarationDiags) /\ UNCHANGED maps

CollectIdentityAddresses ==
    /\ Pass("collect_identity_addresses", "collect_owner_records", IdentityDiags)
    /\ identities' = AllKeys
    /\ partKeys' = KeysOf(doc.parts)
    /\ socketKeys' = KeysOf(doc.sockets)
    /\ UNCHANGED framesSeen

CollectOwnerRecords ==
    /\ Pass("collect_owner_records", "check_modules", OwnerDiags)
    /\ framesSeen' = RoleKeys(doc.frames)
    /\ UNCHANGED <<identities, partKeys, socketKeys>>

CheckModules == Pass("check_modules", "check_parts", ModuleDiags) /\ UNCHANGED maps

CheckParts ==
    /\ pc = "check_parts"
    /\ pc' = "walk_parts"
    /\ Report(PartDiags)
    /\ walk' = [NotWalking EXCEPT !.todo = IF Cardinality(Roots) = 1 THEN partKeys ELSE {}]
    /\ UNCHANGED <<doc, graph, maps>>

Walking == pc = "walk_parts" /\ walk.start # NoAddress

(* The next key of part_keys, in whatever order the map gives them. *)
BeginWalk ==
    /\ pc = "walk_parts" /\ walk.start = NoAddress
    /\ \E k \in walk.todo :
        walk' = [todo |-> walk.todo \ {k}, start |-> k, current |-> k, seen |-> {}]
    /\ UNCHANGED <<doc, pc, diagnostics, graph, maps>>

EndWalk(found) ==
    /\ Report(found)
    /\ walk' = [NotWalking EXCEPT !.todo = walk.todo]
    /\ UNCHANGED <<doc, pc, graph, maps>>

MeetCycleAtStart ==                                             \* mutant: only the start is seen
    /\ Walking
    /\ walk.current = walk.start /\ walk.seen # {}
    /\ EndWalk({Diag("part-containment-cycle", walk.start)})

MeetCycle ==
    /\ Walking
    /\ walk.current \in walk.seen
    /\ EndWalk({Diag("part-containment-cycle", walk.start)})

ClimbToParent ==
    /\ Walking
    /\ walk.current \notin walk.seen
    /\ walk.current \in DOMAIN WalkParent
    /\ walk' = [walk EXCEPT !.current = WalkParent[walk.current],
                            !.seen = walk.seen \cup {walk.current}]
    /\ UNCHANGED <<doc, pc, diagnostics, graph, maps>>

ReachTop ==
    /\ Walking
    /\ walk.current \notin walk.seen
    /\ walk.current \notin DOMAIN WalkParent
    /\ EndWalk(When(~IsSoleRoot(walk.current), Diag("part-disconnected", walk.start)))

WalksDone ==
    /\ walk = NotWalking
    /\ Pass("walk_parts", "check_joints", {})
    /\ UNCHANGED maps

CheckJoints == Pass("check_joints", "check_sockets", JointDiags) /\ UNCHANGED maps

CheckSockets == Pass("check_sockets", "check_attachments", SocketDiags) /\ UNCHANGED maps

CheckAttachments ==
    Pass("check_attachments", "check_owned_references", AttachmentDiags) /\ UNCHANGED maps

CheckOwnedReferences ==
    Pass("check_owned_references", "build_graph", ReferenceDiags) /\ UNCHANGED maps

BuildGraph ==
    /\ pc = "build_graph"
    /\ pc' = "done"
    /\ graph' = IF diagnostics # {} THEN "none" ELSE IF IndexAccepts THEN "graph" ELSE "panic"
    /\ UNCHANGED <<doc, diagnostics, walk, maps>>

Next ==
    \/ CheckSourceNamespace \/ CollectModules \/ CollectIdentityAddresses
    \/ CollectOwnerRecords \/ CheckModules \/ CheckParts
    \/ BeginWalk \/ MeetCycle \/ ClimbToParent \/ ReachTop \/ WalksDone
    \/ CheckJoints \/ CheckSockets \/ CheckAttachments \/ CheckOwnedReferences
    \/ BuildGraph

Spec == Init /\ [][Next]_vars /\ WF_vars(Next)

-----------------------------------------------------------------------------
(* Properties *)

(* The maps hold keys of the document and the walk stays on part keys. *)
TypeOK ==
    /\ pc \in Range(Passes)
    /\ \A d \in diagnostics : d.at \in Address \cup {NoAddress}
    /\ identities \subseteq Address /\ framesSeen \subseteq OwnerRole
    /\ partKeys \subseteq identities /\ socketKeys \subseteq identities
    /\ walk.todo \subseteq partKeys /\ walk.seen \subseteq partKeys
    /\ walk.start \in partKeys \cup {NoAddress}
    /\ walk.current \in partKeys \cup {NoAddress}
    /\ graph \in {"none", "graph", "panic"}

(* from_validated's expect() never fires: what the passes let through, the *)
(* graph index can hold (body_graph.rs, "structural validation must        *)
(* precede graph indexing").                                               *)
IndexNeverPanics == graph # "panic"

Contract == INSTANCE BodyGraphContract WITH
    document <- doc,
    verdict <- IF pc # "done" THEN "pending"
               ELSE IF graph = "graph" THEN "accepted" ELSE "rejected"

(* What the passes let through is a well-formed document: one tree of      *)
(* Parts, attachments and required modules paired off, every reference     *)
(* resolved (spec/body-graph/README.md, "Minimum Stage 1 graph             *)
(* invariants").                                                           *)
AcceptedIsWellFormed == graph = "graph" => Contract!WellFormed(doc)

(* No accepted document has an attachment cycle, although no pass looks    *)
(* for one: each attachment leads from its host's owner to a Part strictly *)
(* below it (spec/body-graph/README.md:172, "Attachment cycles").          *)
AttachmentsDescend ==
    graph = "graph" => \A a \in Range(doc.attachments), h, b \in Contract!PartAddresses(doc) :
        Contract!SocketOwnedBy(doc, a.host, h) /\ Contract!SocketOwnedBy(doc, a.mating, b)
            => b \in Contract!Below(doc, h) \ {h}

(* The validator implements the contract: it reaches one verdict for every *)
(* document, cyclic ones included, and accepts exactly the well-formed     *)
(* ones.                                                                   *)
DecidesWellFormedness == Contract!Spec
=============================================================================
