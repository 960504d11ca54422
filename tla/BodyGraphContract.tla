-------------------------- MODULE BodyGraphContract --------------------------
(***************************************************************************)
(* What a body document must be for a structural graph to exist, stated    *)
(* about the document alone, with no pass, map or traversal order: the     *)
(* reference the validator is compared with.  The abstract specification   *)
(* at the end is the validator's promise: it looks at one document and     *)
(* gives it one verdict, the right one.                                    *)
(***************************************************************************)
EXTENDS BodyDocuments

VARIABLES document, verdict

-----------------------------------------------------------------------------
(* Identity *)

IdentityAddresses(d) ==
    [i \in DOMAIN d.parts |-> d.parts[i].address] \o
    [i \in DOMAIN d.joints |-> d.joints[i].address] \o
    [i \in DOMAIN d.sockets |-> d.sockets[i].address] \o
    [i \in DOMAIN d.attachments |-> d.attachments[i].address] \o
    [i \in DOMAIN d.regions |-> d.regions[i].address] \o
    [i \in DOMAIN d.capabilities |-> d.capabilities[i].address] \o
    [i \in DOMAIN d.fields |-> d.fields[i].address]

Distinct(keys) == \A i, j \in DOMAIN keys : keys[i] = keys[j] => i = j

OfKind(records, kind) == \A r \in Range(records) : r.address.kind = kind

OwnedBy(d, a) == IsKey(a) /\ a.namespace = d.source.namespace

IdentitySound(d) ==
    /\ Distinct(IdentityAddresses(d))
    /\ \A a \in Range(IdentityAddresses(d)) : OwnedBy(d, a)
    /\ OfKind(d.parts, "part") /\ OfKind(d.joints, "joint")
    /\ OfKind(d.sockets, "socket") /\ OfKind(d.attachments, "attachment")
    /\ OfKind(d.regions, "region") /\ OfKind(d.capabilities, "capability")
    /\ OfKind(d.fields, "field")

SourceSound(d) ==
    LET deps == d.source.dependencies
    IN /\ {d.source.document, d.source.namespace} \subseteq Identifiers
       /\ \A dep \in Range(deps) :
            /\ {dep.document, dep.namespace} \subseteq Identifiers
            /\ dep.content_sha256 \in Digests
            /\ dep.namespace # d.source.namespace
       /\ Distinct([i \in DOMAIN deps |-> deps[i].namespace])

-----------------------------------------------------------------------------
(* Containment: one root, and every Part below it. *)

PartAddresses(d) == {p.address : p \in Range(d.parts)}

IsRoot(d, a) == \E p \in Range(d.parts) : p.address = a /\ p.containment = "root"

IsParent(d, q, a) == \E p \in Range(d.parts) : p.address = a /\ Parented(p) /\ p.parent = q

(* Below(d, r): the least set with r that holds the children of its members. *)
Below(d, r) ==
    LET closed == {S \in SUBSET PartAddresses(d) :
                    /\ r \in S
                    /\ \A a \in PartAddresses(d), q \in S : IsParent(d, q, a) => a \in S}
    IN {a \in PartAddresses(d) : \A S \in closed : a \in S}

ContainmentSound(d) ==
    /\ \A p \in Range(d.parts) : p.containment # "unrooted"
    /\ \A p \in Range(d.parts) : Parented(p) => p.parent \in PartAddresses(d)
    /\ \E r \in PartAddresses(d) :
        /\ \A a \in PartAddresses(d) : IsRoot(d, a) <=> a = r
        /\ Below(d, r) = PartAddresses(d)

-----------------------------------------------------------------------------
(* Typed relations *)

JointsSound(d) == \A j \in Range(d.joints) :
    /\ {j.proximal, j.distal} \subseteq PartAddresses(d)
    /\ j.proximal # j.distal
    /\ IsParent(d, j.proximal, j.distal)

SocketsSound(d) == \A s \in Range(d.sockets) : s.owner \in PartAddresses(d)

SocketOwnedBy(d, s, p) == \E r \in Range(d.sockets) : r.address = s /\ r.owner = p

RequiredModules(d) ==
    {i \in DOMAIN d.modules : d.modules[i].presence = "present" /\ d.modules[i].attachment_required}

(* Attachment n joins the containment parent of module m's root to a Part  *)
(* at or below that root.                                                  *)
Joins(d, n, m) ==
    LET att == d.attachments[n] root == d.modules[m].root
    IN /\ \E q \in PartAddresses(d) : IsParent(d, q, root) /\ SocketOwnedBy(d, att.host, q)
       /\ \E b \in Below(d, root) : SocketOwnedBy(d, att.mating, b)

Endpoints(d) == (DOMAIN d.attachments) \X {"host", "mating"}

EndpointSocket(d, e) ==
    IF e[2] = "host" THEN d.attachments[e[1]].host ELSE d.attachments[e[1]].mating

(* Every Socket carries at most one endpoint, and Joins pairs the          *)
(* attachments off with the present attachment-required modules.           *)
AttachmentsSound(d) ==
    /\ \A e \in Endpoints(d) : \E s \in Range(d.sockets) : s.address = EndpointSocket(d, e)
    /\ \A e, f \in Endpoints(d) : EndpointSocket(d, e) = EndpointSocket(d, f) => e = f
    /\ \A m \in RequiredModules(d) : \E n \in DOMAIN d.attachments :
            \A k \in DOMAIN d.attachments : Joins(d, k, m) <=> k = n
    /\ \A n \in DOMAIN d.attachments : \E m \in RequiredModules(d) :
            \A k \in RequiredModules(d) : Joins(d, n, k) <=> k = m

ModulesSound(d) ==
    /\ Distinct([i \in DOMAIN d.modules |-> d.modules[i].declaration])
    /\ \A m \in Range(d.modules) :
        /\ {m.declaration, m.fields} \subseteq Identifiers
        /\ m.presence = "present" => m.root \in PartAddresses(d)
        /\ m.presence = "absent" => m.root = NoAddress /\ m.optional

-----------------------------------------------------------------------------
(* References *)

Identity(d, a) == a \in Range(IdentityAddresses(d))

FrameExists(d, f) == OwnerRoleOf(f) \in Range(d.frames)

OwnerRecordsSound(d, records) ==
    /\ Distinct([i \in DOMAIN records |-> OwnerRoleOf(records[i])])
    /\ \A r \in Range(records) : IsOwnerRoleKey(r) /\ Identity(d, r.owner)

ReferencesSound(d) ==
    /\ OwnerRecordsSound(d, d.landmarks)
    /\ OwnerRecordsSound(d, d.dimensions)
    /\ OwnerRecordsSound(d, d.frames)
    /\ \A r \in Range(d.landmarks) \cup Range(d.fields) : FrameExists(d, r.frame)
    /\ \A f \in Range(d.fields) : Identity(d, f.owner)
    /\ \A r \in Range(d.regions) : r.parts \subseteq PartAddresses(d)
    /\ \A c \in Range(d.capabilities) : \A a \in c.subjects : Identity(d, a)

WellFormed(d) ==
    /\ SourceSound(d)
    /\ IdentitySound(d)
    /\ ModulesSound(d)
    /\ ContainmentSound(d)
    /\ JointsSound(d)
    /\ SocketsSound(d)
    /\ AttachmentsSound(d)
    /\ ReferencesSound(d)

-----------------------------------------------------------------------------
(* The promise: one verdict, and the right one. *)

(* The document is the input: any one. *)
Init == verdict = "pending"

Decide ==
    /\ verdict = "pending"
    /\ verdict' = IF WellFormed(document) THEN "accepted" ELSE "rejected"
    /\ UNCHANGED document

Next == Decide

Spec == Init /\ [][Next]_<<document, verdict>> /\ WF_<<document, verdict>>(Next)
=============================================================================
