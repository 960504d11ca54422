---------------------------- MODULE BodyDocuments ----------------------------
(***************************************************************************)
(* The admitted body document as the structural validator reads it: the    *)
(* wire records of body_document.rs, the address and owner/role keys of    *)
(* semantic_address.rs and body_graph.rs, and the containment walks over   *)
(* them.  Transforms, numbers and the spelling of identifiers are left     *)
(* out: an identifier is a value of Names or Namespaces, and the members   *)
(* of Identifiers are those is_identifier accepts.                         *)
(***************************************************************************)
EXTENDS Integers, Sequences, FiniteSets, FiniteSetsExt, Functions

CONSTANTS
    Names,        \* spellings of anchors-plus-role, roles, declarations, digests
    Namespaces,   \* spellings of namespaces
    Identifiers,  \* the spellings that are restricted identifiers
    Digests,      \* the spellings that are sha256 references
    NoAddress     \* Option::None where an address is optional

ASSUME IdentifiersAssumption == Identifiers \subseteq Names \cup Namespaces

Kinds == {"part", "joint", "socket", "attachment", "region", "capability", "field"}

Address == [namespace : Namespaces, kind : Kinds, name : Names]

ASSUME NoAddressAssumption == NoAddress \notin Address

(* AddressKey::try_from succeeds; the key keeps every component, so two    *)
(* addresses have the same key exactly when they are equal.                *)
IsKey(a) == a.namespace \in Identifiers /\ a.name \in Identifiers

OwnerRole == [owner : Address, role : Names]

(* OwnerRoleKey::from_wire succeeds. *)
IsOwnerRoleKey(r) == r.role \in Identifiers /\ IsKey(r.owner)

OwnerRoleOf(r) == [owner |-> r.owner, role |-> r.role]

-----------------------------------------------------------------------------
(* The records of the source.  Containment::Root{true} is "root",          *)
(* Root{false} is "unrooted" and Parent{parent} is "parent".               *)

Dependency == [document : Names, namespace : Namespaces, content_sha256 : Names]
Source == [document : Names, namespace : Namespaces, dependencies : Seq(Dependency)]

(* The declaration's four components are one spelling, and so are the      *)
(* module, root_role and instance_anchor fields.                           *)
Module == [declaration : Names, fields : Names, presence : {"present", "absent"},
           optional : BOOLEAN, attachment_required : BOOLEAN,
           root : Address \cup {NoAddress}]
Part == {p \in [address : Address, containment : {"root", "unrooted", "parent"},
                parent : Address \cup {NoAddress}] :
            p.containment = "parent" <=> p.parent # NoAddress}
Joint == [address : Address, proximal : Address, distal : Address]
Socket == [address : Address, owner : Address]
Attachment == [address : Address, host : Address, mating : Address]
Region == [address : Address, parts : SUBSET Address]
Capability == [address : Address, subjects : SUBSET Address]
Field == [address : Address, owner : Address, frame : OwnerRole]
Landmark == [owner : Address, role : Names, frame : OwnerRole]

BodyDocument ==
    [source : Source, modules : Seq(Module), parts : Seq(Part), joints : Seq(Joint),
     sockets : Seq(Socket), attachments : Seq(Attachment), regions : Seq(Region),
     capabilities : Seq(Capability), fields : Seq(Field), landmarks : Seq(Landmark),
     dimensions : Seq(OwnerRole), frames : Seq(OwnerRole)]

Parented(p) == p.containment = "parent"

-----------------------------------------------------------------------------
(* Maps built by inserting records in order: a later record with the same  *)
(* key replaces the earlier one (BTreeMap::insert).                        *)

(* Containment parents by child key, from the part records in `from`. *)
ParentMap(parts, from) ==
    LET kept == {i \in from : Parented(parts[i])}
    IN [k \in {parts[i].address : i \in kept} |->
            parts[Max({i \in kept : parts[i].address = k})].parent]

(* Socket owners by socket key. *)
OwnerMap(sockets) ==
    LET kept == {i \in DOMAIN sockets : IsKey(sockets[i].address) /\ IsKey(sockets[i].owner)}
    IN [k \in {sockets[i].address : i \in kept} |->
            sockets[Max({i \in kept : sockets[i].address = k})].owner]

(* Keys that occur a second time in a sequence of keys. *)
Repeated(keys) == {keys[i] : i \in {i \in DOMAIN keys : \E j \in 1..(i - 1) : keys[j] = keys[i]}}

(* A set that contains the parent of each of its members. *)
UpwardClosed(S, parent) == \A k \in S \cap DOMAIN parent : parent[k] \in S

(* is_part_in_containment_subtree: the walk from the candidate towards its *)
(* containment parents, cut at the first key met twice, meets the root:    *)
(* the root is in the least upward-closed set that holds the candidate.    *)
InContainmentSubtree(candidate, root, parent) ==
    LET chain == DOMAIN parent \cup Range(parent) \cup {candidate}
    IN \A S \in SUBSET chain : candidate \in S /\ UpwardClosed(S, parent) => root \in S
=============================================================================
