---------------------- MODULE StructuralValidationProofs ----------------------
(***************************************************************************)
(* The validator of structural_validation.rs and the index of              *)
(* body_graph.rs, for every document.                                      *)
(***************************************************************************)
EXTENDS StructuralValidation, FiniteSetTheorems, SequenceTheorems, TLAPS

-----------------------------------------------------------------------------
(* What the ordered maps and the repetition checks of the validator return.*)

(* A bounded set of naturals that is not empty has a greatest member. *)
LEMMA MaxIsMember ==
    ASSUME NEW S \in SUBSET Nat, S # {}, NEW n \in Nat, \A s \in S : s <= n
    PROVE  Max(S) \in S
<1> DEFINE less == {ss \in Nat \X Nat : ss[1] < ss[2]}
           gaps == {n - s : s \in S}
<1>1. IsWellFoundedOn(less, Nat)
    BY NatLessThanWellFounded DEF OpToRel
<1>2. \A s \in S : s \in Nat /\ n - s \in Nat
    OBVIOUS
<1>3. gaps \subseteq Nat /\ gaps # {}
    BY <1>2
<1> HIDE DEF less, gaps
<1>4. PICK g \in gaps : \A h \in gaps : ~(<<h, g>> \in less)
    BY <1>1, <1>3, WFMin
<1>5. PICK x \in S : g = n - x
    BY DEF gaps
<1>6. ASSUME NEW y \in S PROVE x >= y
    <2>1. n - y \in gaps /\ n - x \in gaps
        BY <1>5 DEF gaps
    <2>2. ~(<<n - y, n - x>> \in less)
        BY <1>4, <1>5, <2>1
    <2>3. ~(n - y < n - x)
        BY <1>2, <2>2 DEF less
    <2>4. QED
        BY <1>2, <2>3
<1>7. QED
    BY <1>6 DEF Max

LEMMA MaxOfSingleton == ASSUME NEW n \in Nat PROVE Max({n}) = n
    BY DEF Max

LEMMA MinOfSingleton == ASSUME NEW n \in Nat PROVE Min({n}) = n
    BY DEF Min

(* A map built by inserting parts holds, for each key, the link of one of  *)
(* the inserted records.                                                   *)
LEMMA ParentMapHoldsALink ==
    ASSUME NEW parts \in Seq(Part), NEW from \in SUBSET DOMAIN parts,
           NEW k \in DOMAIN ParentMap(parts, from)
    PROVE  \E i \in from : /\ Parented(parts[i]) /\ parts[i].address = k
                           /\ ParentMap(parts, from)[k] = parts[i].parent
<1> DEFINE same == {i \in {j \in from : Parented(parts[j])} : parts[i].address = k}
<1>1. same # {} /\ ParentMap(parts, from)[k] = parts[Max(same)].parent
    BY DEF ParentMap
<1>2. same \in SUBSET Nat /\ Len(parts) \in Nat /\ \A i \in same : i <= Len(parts)
    OBVIOUS
<1>3. Max(same) \in same
    <2> HIDE DEF same
    <2>1. QED
        BY <1>1, <1>2, MaxIsMember
<1>4. QED
    BY <1>1, <1>3

LEMMA ParentMapDomain ==
    ASSUME NEW parts, NEW from, NEW i \in from, Parented(parts[i])
    PROVE  parts[i].address \in DOMAIN ParentMap(parts, from)
    BY DEF ParentMap

(* Where no two parts share an address the map is exactly the links.       *)
LEMMA ParentMapIsLinks ==
    ASSUME NEW parts \in Seq(Part), NEW from \in SUBSET DOMAIN parts,
           NEW i \in from, Parented(parts[i]),
           \A m, n \in DOMAIN parts : parts[m].address = parts[n].address => m = n
    PROVE  /\ parts[i].address \in DOMAIN ParentMap(parts, from)
           /\ ParentMap(parts, from)[parts[i].address] = parts[i].parent
<1>1. parts[i].address \in DOMAIN ParentMap(parts, from)
    BY ParentMapDomain
<1>2. PICK j \in from : /\ parts[j].address = parts[i].address
                        /\ ParentMap(parts, from)[parts[i].address] = parts[j].parent
    BY <1>1, ParentMapHoldsALink
<1>3. QED
    BY <1>1, <1>2

LEMMA OwnerMapHoldsAnOwner ==
    ASSUME NEW sockets \in Seq(Socket), NEW k \in DOMAIN OwnerMap(sockets)
    PROVE  \E i \in DOMAIN sockets : /\ sockets[i].address = k
                                     /\ OwnerMap(sockets)[k] = sockets[i].owner
<1> DEFINE kept == {i \in DOMAIN sockets : IsKey(sockets[i].address) /\ IsKey(sockets[i].owner)}
           same == {i \in kept : sockets[i].address = k}
<1>1. same # {} /\ OwnerMap(sockets)[k] = sockets[Max(same)].owner
    BY DEF OwnerMap
<1>2. same \in SUBSET Nat /\ Len(sockets) \in Nat /\ \A i \in same : i <= Len(sockets)
    OBVIOUS
<1>3. Max(same) \in same
    <2> HIDE DEF same
    <2>1. QED
        BY <1>1, <1>2, MaxIsMember
<1>4. QED
    BY <1>1, <1>3

LEMMA OwnerMapIsOwners ==
    ASSUME NEW sockets \in Seq(Socket), NEW i \in DOMAIN sockets,
           IsKey(sockets[i].address), IsKey(sockets[i].owner),
           \A m, n \in DOMAIN sockets : sockets[m].address = sockets[n].address => m = n
    PROVE  /\ sockets[i].address \in DOMAIN OwnerMap(sockets)
           /\ OwnerMap(sockets)[sockets[i].address] = sockets[i].owner
<1>1. sockets[i].address \in DOMAIN OwnerMap(sockets)
    BY DEF OwnerMap
<1>2. PICK j \in DOMAIN sockets : /\ sockets[j].address = sockets[i].address
                                  /\ OwnerMap(sockets)[sockets[i].address] = sockets[j].owner
    BY <1>1, OwnerMapHoldsAnOwner
<1>3. QED
    BY <1>1, <1>2

(* Nothing repeated means pairwise distinct. *)
LEMMA NothingRepeated ==
    ASSUME NEW keys, NEW n \in Nat, DOMAIN keys = 1..n, Repeated(keys) = {},
           NEW i \in DOMAIN keys, NEW j \in DOMAIN keys, keys[i] = keys[j]
    PROVE  i = j
<1>1. ASSUME NEW a \in 1..n, NEW b \in 1..n, a < b, keys[a] = keys[b] PROVE FALSE
    <2>1. a \in 1..(b - 1)
        BY <1>1
    <2>2. keys[b] \in Repeated(keys)
        BY <1>1, <2>1 DEF Repeated
    <2>3. QED
        BY <2>2
<1>2. i < j \/ j < i \/ i = j
    OBVIOUS
<1>3. QED
    BY <1>1, <1>2

-----------------------------------------------------------------------------
(* Types *)

Located(found) == \A d \in found : d.at \in Address \cup {NoAddress}

(* The maps are empty until the identity pass fills them. *)
Early == {"check_source_namespace", "collect_modules", "collect_identity_addresses"}

TypeInv ==
    /\ doc \in BodyDocument
    /\ TypeOK
    /\ pc \in Early => partKeys = {} /\ socketKeys = {} /\ identities = {} /\ framesSeen = {}
    /\ walk \in [todo : SUBSET Address, start : Address \cup {NoAddress},
                 current : Address \cup {NoAddress}, seen : SUBSET Address]

LEMMA RangeOfRecords ==
    ASSUME NEW T, NEW s \in Seq(T) PROVE Range(s) \subseteq T
    BY DEF Range

LEMMA KeyedRecords ==
    ASSUME NEW T, NEW s \in Seq(T) PROVE Keyed(s) \subseteq T
    BY RangeOfRecords DEF Keyed

LEMMA PassNames ==
    Range(Passes) = {"check_source_namespace", "collect_modules", "collect_identity_addresses",
                     "collect_owner_records", "check_modules", "check_parts", "walk_parts",
                     "check_joints", "check_sockets", "check_attachments",
                     "check_owned_references", "build_graph", "done"}
    BY DEF Passes, Range

LEMMA RequireLocated ==
    ASSUME NEW a \in Address, NEW kind, NEW keys
    PROVE  Located(RequireIdentity(a)) /\ Located(RequireKey(a, kind, keys))
    BY DEF Located, RequireIdentity, RequireKey, When, Unlocated, Diag

LEMMA RequireFrameLocated ==
    ASSUME NEW f, f.owner \in Address PROVE Located(RequireFrame(f))
    BY RequireLocated DEF Located, RequireFrame, When, Diag

LEMMA LocatedWhen ==
    ASSUME NEW code, NEW a \in Address \cup {NoAddress}, NEW c
    PROVE  Located(When(c, Diag(code, a)))
    BY DEF Located, When, Diag

LEMMA LocatedUnlocated ==
    ASSUME NEW code, NEW c PROVE Located(When(c, Unlocated(code)))
    BY DEF Located, When, Unlocated, Diag

LEMMA LocatedCup ==
    ASSUME NEW A, NEW B, Located(A), Located(B) PROVE Located(A \cup B)
    BY DEF Located

LEMMA LocatedUnion ==
    ASSUME NEW U, \A A \in U : Located(A) PROVE Located(UNION U)
    BY DEF Located

LEMMA DocumentTypes ==
    ASSUME doc \in BodyDocument
    PROVE  /\ doc.modules \in Seq(Module) /\ doc.parts \in Seq(Part) /\ doc.joints \in Seq(Joint)
           /\ doc.sockets \in Seq(Socket) /\ doc.attachments \in Seq(Attachment)
           /\ doc.regions \in Seq(Region) /\ doc.capabilities \in Seq(Capability)
           /\ doc.fields \in Seq(Field) /\ doc.landmarks \in Seq(Landmark)
           /\ doc.dimensions \in Seq(OwnerRole) /\ doc.frames \in Seq(OwnerRole)
           /\ doc.source \in Source
    BY DEF BodyDocument

LEMMA AddressesOf ==
    ASSUME NEW T, \A r \in T : r.address \in Address, NEW s \in Seq(T)
    PROVE  Addresses(s) \in Seq(Address)
    BY DEF Addresses

LEMMA CollectionAddresses ==
    ASSUME doc \in BodyDocument
    PROVE  /\ Addresses(doc.parts) \in Seq(Address) /\ Addresses(doc.joints) \in Seq(Address)
           /\ Addresses(doc.sockets) \in Seq(Address) /\ Addresses(doc.attachments) \in Seq(Address)
           /\ Addresses(doc.regions) \in Seq(Address) /\ Addresses(doc.capabilities) \in Seq(Address)
           /\ Addresses(doc.fields) \in Seq(Address)
<1>1. /\ \A r \in Part : r.address \in Address
      /\ \A r \in Joint : r.address \in Address
      /\ \A r \in Socket : r.address \in Address
      /\ \A r \in Attachment : r.address \in Address
      /\ \A r \in Region : r.address \in Address
      /\ \A r \in Capability : r.address \in Address
      /\ \A r \in Field : r.address \in Address
    BY DEF Part, Joint, Socket, Attachment, Region, Capability, Field
<1>2. QED
    BY <1>1, DocumentTypes, AddressesOf

LEMMA AllAddressesRange ==
    ASSUME doc \in BodyDocument
    PROVE  Range(AllAddresses) = Range(Addresses(doc.parts)) \cup Range(Addresses(doc.joints))
                \cup Range(Addresses(doc.sockets)) \cup Range(Addresses(doc.attachments))
                \cup Range(Addresses(doc.regions)) \cup Range(Addresses(doc.capabilities))
                \cup Range(Addresses(doc.fields))
<1> DEFINE one == Addresses(doc.parts) \o Addresses(doc.joints)
           two == one \o Addresses(doc.sockets)
           three == two \o Addresses(doc.attachments)
           four == three \o Addresses(doc.regions)
           five == four \o Addresses(doc.capabilities)
<1>1. /\ one \in Seq(Address)
      /\ Range(one) = Range(Addresses(doc.parts)) \cup Range(Addresses(doc.joints))
    BY CollectionAddresses, RangeConcatenation, ConcatProperties
<1> HIDE DEF one
<1>2. two \in Seq(Address) /\ Range(two) = Range(one) \cup Range(Addresses(doc.sockets))
    BY <1>1, CollectionAddresses, RangeConcatenation, ConcatProperties
<1> HIDE DEF two
<1>3. three \in Seq(Address) /\ Range(three) = Range(two) \cup Range(Addresses(doc.attachments))
    BY <1>2, CollectionAddresses, RangeConcatenation, ConcatProperties
<1> HIDE DEF three
<1>4. four \in Seq(Address) /\ Range(four) = Range(three) \cup Range(Addresses(doc.regions))
    BY <1>3, CollectionAddresses, RangeConcatenation, ConcatProperties
<1> HIDE DEF four
<1>5. five \in Seq(Address) /\ Range(five) = Range(four) \cup Range(Addresses(doc.capabilities))
    BY <1>4, CollectionAddresses, RangeConcatenation, ConcatProperties
<1> HIDE DEF five
<1>6. Range(five \o Addresses(doc.fields)) = Range(five) \cup Range(Addresses(doc.fields))
    BY <1>5, CollectionAddresses, RangeConcatenation
<1>7. AllAddresses = five \o Addresses(doc.fields)
    BY DEF AllAddresses, one, two, three, four, five
<1>8. QED
    BY <1>1, <1>2, <1>3, <1>4, <1>5, <1>6, <1>7

LEMMA KeysAreAddresses ==
    ASSUME doc \in BodyDocument
    PROVE  /\ AllAddresses \in Seq(Address)
           /\ AllKeys \subseteq Address
           /\ KeysOf(doc.parts) \subseteq AllKeys /\ KeysOf(doc.sockets) \subseteq AllKeys
<1>1. AllAddresses \in Seq(Address)
    BY CollectionAddresses DEF AllAddresses
<1>2. AllKeys \subseteq Address
    BY <1>1, RangeOfRecords DEF AllKeys
<1>3. QED
    BY <1>1, <1>2, AllAddressesRange DEF AllKeys, KeysOf

LEMMA SourceLocated == Located(SourceDiags)
<1> DEFINE dependencies == {DependencyDiags(d) : d \in Range(doc.source.dependencies)}
<1>1. \A d : Located(DependencyDiags(d))
    BY LocatedUnlocated, LocatedCup, Zenon DEF DependencyDiags
<1>2. Located(UNION dependencies)
    BY <1>1, LocatedUnion, Zenon
<1>3. QED
    BY <1>2, LocatedUnlocated, LocatedCup, Zenon DEF SourceDiags

LEMMA DeclarationLocated == Located(DeclarationDiags)
    BY LocatedUnlocated, LocatedCup, Zenon DEF DeclarationDiags

LEMMA IdentityLocated == ASSUME doc \in BodyDocument PROVE Located(IdentityDiags)
<1> DEFINE kinds == {KindDiags(n) : n \in 1..7}
           foreign == {Diag("address-namespace-not-owned", a) :
                          a \in {k \in AllKeys : k.namespace # doc.source.namespace}}
           twice == {Diag("address-duplicate", a) : a \in {k \in Repeated(AllAddresses) : IsKey(k)}}
<1>1. \A n \in 1..7 : KeysOf(Collections[n][1]) \subseteq Address
    BY CollectionAddresses, RangeOfRecords DEF Collections, KeysOf
<1>2. \A n \in 1..7 : Located(KindDiags(n))
    BY <1>1 DEF Located, KindDiags, Diag
<1>3. Located(UNION kinds)
    BY <1>2, LocatedUnion, Zenon
<1>4. Located(foreign)
    BY KeysAreAddresses DEF Located, Diag
<1>5. Located(twice)
    BY KeysAreAddresses DEF Located, Diag, Repeated
<1>6. QED
    BY <1>3, <1>4, <1>5, LocatedUnlocated, LocatedCup, Zenon DEF IdentityDiags

LEMMA RoleDiagsLocated ==
    ASSUME NEW T, \A r \in T : r.owner \in Address, NEW records \in Seq(T),
           NEW invalid, NEW duplicate
    PROVE  Located(RoleDiags(records, invalid, duplicate))
<1> DEFINE twice == {Diag(duplicate, r.owner) :
                        r \in {k \in Repeated(OwnerRoles(records)) : IsOwnerRoleKey(k)}}
<1>1. \A i \in DOMAIN records : OwnerRoles(records)[i].owner \in Address
    BY DEF OwnerRoles, OwnerRoleOf
<1>2. \A r \in Repeated(OwnerRoles(records)) : r.owner \in Address
    BY <1>1 DEF Repeated, OwnerRoles
<1>3. Located(twice)
    BY <1>2 DEF Located, Diag
<1>4. QED
    BY <1>3, LocatedUnlocated, LocatedCup, Zenon DEF RoleDiags

LEMMA OwnerLocated == ASSUME doc \in BodyDocument PROVE Located(OwnerDiags)
<1>1. /\ \A r \in Landmark : r.owner \in Address
      /\ \A r \in OwnerRole : r.owner \in Address
    BY DEF Landmark, OwnerRole
<1>2. /\ Located(RoleDiags(doc.frames, "frame-owner-invalid", "frame-duplicate"))
      /\ Located(RoleDiags(doc.landmarks, "landmark-owner-invalid", "landmark-duplicate"))
      /\ Located(RoleDiags(doc.dimensions, "dimension-owner-invalid", "dimension-duplicate"))
    BY <1>1, DocumentTypes, RoleDiagsLocated
<1>3. QED
    BY <1>2, LocatedUnlocated, LocatedCup, Zenon DEF OwnerDiags

LEMMA ModuleLocated == ASSUME doc \in BodyDocument PROVE Located(ModuleDiags)
<1> DEFINE each == {ModuleDiagsOf(m) : m \in Range(doc.modules)}
<1>1. ASSUME NEW m \in Range(doc.modules) PROVE Located(ModuleDiagsOf(m))
    <2>1. m.presence \in {"present", "absent"} /\ m.root \in Address \cup {NoAddress}
        <3>1. m \in Module
            BY DocumentTypes, RangeOfRecords
        <3>2. QED
            BY <3>1 DEF Module
    <2>2. AddressOrNone(m.root) \in Address \cup {NoAddress}
        BY <2>1 DEF AddressOrNone
    <2>3. m.root # NoAddress => Located(RequirePart(m.root))
        BY <2>1, RequireLocated DEF RequirePart
    <2> DEFINE presence ==
            CASE m.presence = "absent" /\ m.root # NoAddress ->
                    {Diag("absent-module-has-root", AddressOrNone(m.root))}
              [] m.presence = "absent" /\ m.root = NoAddress ->
                    When(~m.optional, Unlocated("absent-module-flags"))
              [] m.presence = "present" /\ m.root = NoAddress ->
                    {Unlocated("present-module-missing-root")}
              [] m.presence = "present" /\ m.root # NoAddress -> RequirePart(m.root)
    <2>4. Located(presence)
        <3>1. CASE m.presence = "absent" /\ m.root # NoAddress
            BY <2>2, <3>1 DEF Located, Diag
        <3>2. CASE m.presence = "absent" /\ m.root = NoAddress
            BY <3>2, LocatedUnlocated
        <3>3. CASE m.presence = "present" /\ m.root = NoAddress
            BY <3>3 DEF Located, Diag, Unlocated
        <3>4. CASE m.presence = "present" /\ m.root # NoAddress
            BY <2>3, <3>4
        <3>5. QED
            BY <2>1, <3>1, <3>2, <3>3, <3>4
    <2>5. QED
        BY <2>4, LocatedUnlocated, LocatedCup, Zenon DEF ModuleDiagsOf
<1>2. QED
    BY <1>1, LocatedUnion, Zenon DEF ModuleDiags

LEMMA PartLocated == ASSUME doc \in BodyDocument PROVE Located(PartDiags)
<1> DEFINE false == {Diag("part-root-false", p.address) :
                        p \in {q \in Range(doc.parts) : q.containment = "unrooted" /\ IsKey(q.address)}}
           links == {RequirePart(p.parent) :
                        p \in {q \in Range(doc.parts) : Parented(q) /\ IsKey(q.address)}}
<1>1. \A p \in Range(doc.parts) : p.address \in Address /\ (Parented(p) => p.parent \in Address)
    BY DocumentTypes, RangeOfRecords DEF Part, Parented
<1>2. Located(false)
    BY <1>1 DEF Located, Diag
<1>3. \A p \in Range(doc.parts) : Parented(p) => Located(RequirePart(p.parent))
    BY <1>1, RequireLocated DEF RequirePart
<1>4. Located(UNION links)
    BY <1>3, LocatedUnion
<1>5. QED
    BY <1>2, <1>4, LocatedUnlocated, LocatedCup, Zenon DEF PartDiags

LEMMA JointLocated == ASSUME doc \in BodyDocument PROVE Located(JointDiags)
<1>1. ASSUME NEW j \in Keyed(doc.joints) PROVE Located(JointDiagsOf(j))
    <2>1. j.address \in Address /\ j.proximal \in Address /\ j.distal \in Address
        <3>1. j \in Joint
            BY DocumentTypes, KeyedRecords
        <3>2. QED
            BY <3>1 DEF Joint
    <2>2. Located(RequirePart(j.proximal)) /\ Located(RequirePart(j.distal)) /\ Located({})
        BY <2>1, RequireLocated DEF RequirePart, Located
    <2>3. Located(IF PartResolves(j.proximal) THEN RequirePart(j.distal) ELSE {})
        BY <2>2
    <2>4. \A c, code : Located(When(c, Diag(code, j.address)))
        BY <2>1 DEF Located, When, Diag
    <2>5. QED
        BY <2>2, <2>3, <2>4, LocatedCup, Zenon DEF JointDiagsOf
<1>2. QED
    BY <1>1, LocatedUnion, Zenon DEF JointDiags

LEMMA SocketLocated == ASSUME doc \in BodyDocument PROVE Located(SocketDiags)
<1>1. ASSUME NEW s \in Keyed(doc.sockets) PROVE Located(SocketDiagsOf(s))
    <2>1. s.address \in Address /\ s.owner \in Address
        <3>1. s \in Socket
            BY DocumentTypes, KeyedRecords
        <3>2. QED
            BY <3>1 DEF Socket
    <2>2. Located(RequirePart(s.owner))
        BY <2>1, RequireLocated DEF RequirePart
    <2>3. QED
        BY <2>1, <2>2 DEF SocketDiagsOf, Located, When, Diag
<1>2. QED
    BY <1>1, LocatedUnion, Zenon DEF SocketDiags

LEMMA AttachmentTypes ==
    ASSUME doc \in BodyDocument, NEW n \in DOMAIN doc.attachments
    PROVE  /\ doc.attachments[n].address \in Address
           /\ doc.attachments[n].host \in Address /\ doc.attachments[n].mating \in Address
<1>1. doc.attachments[n] \in Attachment
    BY DocumentTypes
<1>2. QED
    BY <1>1 DEF Attachment

LEMMA EndpointLocated ==
    ASSUME doc \in BodyDocument, socketKeys \subseteq Address PROVE Located(EndpointDiags)
<1> DEFINE references == {SocketReferenceDiags(n) :
               n \in {k \in DOMAIN doc.attachments : IsKey(doc.attachments[k].address)}}
           same == {Diag("attachment-same-endpoint", doc.attachments[n].address) :
               n \in {k \in ValidAttachments : doc.attachments[k].host = doc.attachments[k].mating}}
           pairs == {Diag("attachment-endpoint-pair-duplicate", CHOOSE k \in PairKeys(n) : TRUE) :
               n \in {k \in ValidAttachments : Cardinality(PairKeys(k)) > 1}}
           crowded == {Diag("socket-capacity-exceeded", s) :
               s \in {k \in socketKeys : Cardinality(EndpointsOn(k)) > 1}}
<1>1. ASSUME NEW n \in DOMAIN doc.attachments PROVE Located(SocketReferenceDiags(n))
    <2>1. /\ Located(RequireSocket(doc.attachments[n].host))
          /\ Located(RequireSocket(doc.attachments[n].mating)) /\ Located({})
        BY AttachmentTypes, RequireLocated DEF RequireSocket, Located
    <2>2. Located(IF HostResolves(n) THEN RequireSocket(doc.attachments[n].mating) ELSE {})
        BY <2>1
    <2>3. QED
        BY <2>1, <2>2, LocatedCup, Zenon DEF SocketReferenceDiags
<1>2. Located(UNION references)
    BY <1>1, LocatedUnion
<1>3. Located(same)
    BY AttachmentTypes DEF Located, Diag, ValidAttachments
<1>4. ASSUME NEW n \in ValidAttachments PROVE (CHOOSE k \in PairKeys(n) : TRUE) \in Address
    <2>1. PairKeys(n) \subseteq Address
        BY AttachmentTypes DEF PairKeys, ValidAttachments
    <2>2. doc.attachments[n].address \in PairKeys(n)
        BY DEF PairKeys
    <2>3. QED
        BY <2>1, <2>2
<1>5. Located(pairs)
    BY <1>4 DEF Located, Diag
<1>6. Located(crowded)
    BY DEF Located, Diag
<1>7. QED
    BY <1>2, <1>3, <1>5, <1>6, LocatedCup, Zenon DEF EndpointDiags

LEMMA AttachmentLocated ==
    ASSUME doc \in BodyDocument, socketKeys \subseteq Address PROVE Located(AttachmentDiags)
<1>1. ASSUME NEW m \in RequiredModules PROVE Located(ModuleRootDiags(m))
    <2> DEFINE root == doc.modules[m].root
               candidates == {n \in ValidAttachments : MatesInto(n, root)}
               matching == {n \in ValidAttachments : Matches(n, m)}
               found == IF Cardinality(matching) = 1 THEN {}
                        ELSE IF Cardinality(candidates) # 1
                        THEN {Diag("module-root-incoming-attachment-count", root)}
                        ELSE When(\A n \in candidates : ~HostedByParent(n, root),
                                  Diag("module-root-host-owner-mismatch", root))
    <2>1. root \in Address \cup {NoAddress}
        <3>1. doc.modules[m] \in Module
            BY DocumentTypes DEF RequiredModules
        <3>2. QED
            BY <3>1 DEF Module
    <2>2. ModuleRootDiags(m) = found
        BY Zenon DEF ModuleRootDiags
    <2> HIDE DEF root, candidates, matching
    <2>3. Located(found)
        BY <2>1 DEF Located, Diag, When
    <2>4. QED
        BY <2>2, <2>3
<1>2. Located(ModuleAttachmentDiags)
    BY <1>1, LocatedUnion, Zenon DEF ModuleAttachmentDiags
<1>3. Located(UnmatchedDiags)
    <2>1. \A n \in ValidAttachments : doc.attachments[n].address \in Address
        BY AttachmentTypes DEF ValidAttachments
    <2>2. \A d \in UnmatchedDiags : \E n \in ValidAttachments :
                d = Diag("attachment-module-root-mismatch", doc.attachments[n].address)
        BY Zenon DEF UnmatchedDiags
    <2>3. QED
        BY <2>1, <2>2 DEF Located, Diag
<1>4. QED
    BY <1>2, <1>3, EndpointLocated, LocatedCup, Zenon DEF AttachmentDiags

LEMMA ReferenceLocated == ASSUME doc \in BodyDocument PROVE Located(ReferenceDiags)
<1> DEFINE parts == UNION {r.parts : r \in Keyed(doc.regions)}
           subjects == UNION {c.subjects : c \in Keyed(doc.capabilities)}
           owned == {o \in OwnedRecords : IsKey(o.owner)}
           anchored == {r \in Range(doc.landmarks) : IsKey(r.owner)}
<1>1. parts \subseteq Address
    <2>1. \A r \in Keyed(doc.regions) : r \in Region
        BY DocumentTypes, KeyedRecords
    <2>2. QED
        BY <2>1 DEF Region
<1>2. subjects \subseteq Address
    <2>1. \A c \in Keyed(doc.capabilities) : c \in Capability
        BY DocumentTypes, KeyedRecords
    <2>2. QED
        BY <2>1 DEF Capability
<1>3. \A r \in owned : r.owner \in Address
    <2>1. \A r \in Range(doc.landmarks) : r \in Landmark
        BY DocumentTypes, RangeOfRecords
    <2>2. \A r \in Range(doc.dimensions) \cup Range(doc.frames) : r \in OwnerRole
        BY DocumentTypes, RangeOfRecords
    <2>3. \A i \in DOMAIN doc.landmarks : OwnerRoles(doc.landmarks)[i].owner \in Address
        BY <2>1 DEF OwnerRoles, OwnerRoleOf, Landmark, Range
    <2>4. \A i \in DOMAIN doc.dimensions : OwnerRoles(doc.dimensions)[i].owner \in Address
        BY <2>2 DEF OwnerRoles, OwnerRoleOf, OwnerRole, Range
    <2>5. \A i \in DOMAIN doc.frames : OwnerRoles(doc.frames)[i].owner \in Address
        BY <2>2 DEF OwnerRoles, OwnerRoleOf, OwnerRole, Range
    <2>6. QED
        BY <2>3, <2>4, <2>5 DEF OwnedRecords, OwnerRoles, Range
<1>4. \A l \in anchored : l.frame.owner \in Address
    <2>1. \A l \in anchored : l \in Landmark
        BY DocumentTypes, RangeOfRecords
    <2>2. QED
        BY <2>1 DEF Landmark, OwnerRole
<1>5. \A f \in Keyed(doc.fields) : f.owner \in Address /\ f.frame.owner \in Address
    <2>1. \A f \in Keyed(doc.fields) : f \in Field
        BY DocumentTypes, KeyedRecords
    <2>2. QED
        BY <2>1 DEF Field, OwnerRole
<1> HIDE DEF parts, subjects, owned, anchored
<1>6. Located(UNION {RequirePart(a) : a \in parts})
    <2>1. \A a \in parts : Located(RequirePart(a))
        BY <1>1, RequireLocated DEF RequirePart
    <2>2. QED
        BY <2>1, LocatedUnion
<1>7. Located(UNION {RequireIdentity(a) : a \in subjects})
    BY <1>2, RequireLocated, LocatedUnion
<1>8. Located(UNION {RequireIdentity(r.owner) : r \in owned})
    BY <1>3, RequireLocated, LocatedUnion
<1>9. Located(UNION {RequireFrame(l.frame) : l \in anchored})
    BY <1>4, RequireFrameLocated, LocatedUnion
<1>10. Located(UNION {RequireIdentity(f.owner) \cup RequireFrame(f.frame) : f \in Keyed(doc.fields)})
    <2>1. \A f \in Keyed(doc.fields) : Located(RequireIdentity(f.owner) \cup RequireFrame(f.frame))
        BY <1>5, RequireLocated, RequireFrameLocated, LocatedCup
    <2>2. QED
        BY <2>1, LocatedUnion
<1>11. QED
    BY <1>6, <1>7, <1>8, <1>9, <1>10, LocatedCup, Zenon
       DEF ReferenceDiags, parts, subjects, owned, anchored

-----------------------------------------------------------------------------
(* Types are kept *)

LEMMA InitialTypes == Init => TypeInv
    BY DocumentsAssumption, PassNames DEF Init, TypeInv, TypeOK, NotWalking, Early

(* A pass that fills no map and moves on. *)
LEMMA PassTypes ==
    ASSUME TypeInv, NEW name, NEW next \in Range(Passes), NEW found, Located(found),
           Pass(name, next, found), UNCHANGED maps, next \in Early => name \in Early
    PROVE  TypeInv'
    BY DEF TypeInv, TypeOK, Pass, Report, Located, maps

LEMMA CheckSourceNamespaceTypes == ASSUME TypeInv, CheckSourceNamespace PROVE TypeInv'
    BY PassTypes, SourceLocated, PassNames DEF CheckSourceNamespace, Early

LEMMA CollectModulesTypes == ASSUME TypeInv, CollectModules PROVE TypeInv'
    BY PassTypes, DeclarationLocated, PassNames DEF CollectModules, Early

LEMMA CheckModulesTypes == ASSUME TypeInv, CheckModules PROVE TypeInv'
    BY PassTypes, ModuleLocated, PassNames DEF CheckModules, Early, TypeInv

LEMMA CheckJointsTypes == ASSUME TypeInv, CheckJoints PROVE TypeInv'
    BY PassTypes, JointLocated, PassNames DEF CheckJoints, Early, TypeInv

LEMMA CheckSocketsTypes == ASSUME TypeInv, CheckSockets PROVE TypeInv'
    BY PassTypes, SocketLocated, PassNames DEF CheckSockets, Early, TypeInv

LEMMA CheckAttachmentsTypes == ASSUME TypeInv, CheckAttachments PROVE TypeInv'
<1>1. socketKeys \subseteq Address /\ doc \in BodyDocument
    BY DEF TypeInv, TypeOK
<1>2. QED
    BY <1>1, PassTypes, AttachmentLocated, PassNames DEF CheckAttachments, Early

LEMMA CheckOwnedReferencesTypes == ASSUME TypeInv, CheckOwnedReferences PROVE TypeInv'
    BY PassTypes, ReferenceLocated, PassNames DEF CheckOwnedReferences, Early, TypeInv

LEMMA WalksDoneTypes == ASSUME TypeInv, WalksDone PROVE TypeInv'
<1>1. Located({})
    BY DEF Located
<1>2. QED
    BY <1>1, PassTypes, PassNames DEF WalksDone, Early

LEMMA CollectIdentityAddressesTypes == ASSUME TypeInv, CollectIdentityAddresses PROVE TypeInv'
<1>1. /\ pc = "collect_identity_addresses" /\ pc' = "collect_owner_records"
      /\ diagnostics' = diagnostics \cup IdentityDiags /\ identities' = AllKeys
      /\ partKeys' = KeysOf(doc.parts) /\ socketKeys' = KeysOf(doc.sockets)
      /\ doc' = doc /\ walk' = walk /\ graph' = graph /\ framesSeen' = framesSeen
    BY DEF CollectIdentityAddresses, Pass, Report
<1>2. doc \in BodyDocument /\ partKeys = {} /\ pc \in Early
    BY <1>1 DEF TypeInv, Early
<1>3. /\ AllKeys \subseteq Address /\ KeysOf(doc.parts) \subseteq AllKeys
      /\ KeysOf(doc.sockets) \subseteq AllKeys /\ Located(IdentityDiags)
    BY <1>2, KeysAreAddresses, IdentityLocated
<1>4. /\ walk.todo = {} /\ walk.seen = {} /\ walk.start = NoAddress /\ walk.current = NoAddress
    BY <1>2 DEF TypeInv, TypeOK
<1>5. QED
    BY <1>1, <1>3, <1>4, PassNames DEF TypeInv, TypeOK, Located, Early

LEMMA CollectOwnerRecordsTypes == ASSUME TypeInv, CollectOwnerRecords PROVE TypeInv'
<1>1. RoleKeys(doc.frames) \subseteq OwnerRole
    <2>1. \A r \in OwnerRole : OwnerRoleOf(r) \in OwnerRole
        BY DEF OwnerRole, OwnerRoleOf
    <2>2. \A i \in DOMAIN doc.frames : doc.frames[i] \in OwnerRole
        BY DocumentTypes DEF TypeInv
    <2>3. QED
        BY <2>1, <2>2 DEF RoleKeys, OwnerRoles, Range
<1>2. Located(OwnerDiags)
    BY OwnerLocated DEF TypeInv
<1>3. QED
    BY <1>1, <1>2, PassNames DEF TypeInv, TypeOK, CollectOwnerRecords, Pass, Report, Located, Early

LEMMA CheckPartsTypes == ASSUME TypeInv, CheckParts PROVE TypeInv'
<1>1. Located(PartDiags)
    BY PartLocated DEF TypeInv
<1>2. partKeys \subseteq Address
    BY DEF TypeInv, TypeOK
<1>3. walk' \in [todo : SUBSET partKeys, start : {NoAddress}, current : {NoAddress}, seen : {{}}]
    BY DEF CheckParts, NotWalking
<1>4. /\ pc' = "walk_parts" /\ diagnostics' = diagnostics \cup PartDiags
      /\ UNCHANGED <<doc, graph, identities, partKeys, socketKeys, framesSeen>>
    BY DEF CheckParts, Report, maps
<1>5. QED
    BY <1>1, <1>2, <1>3, <1>4, PassNames DEF TypeInv, TypeOK, Located, Early

LEMMA BeginWalkTypes == ASSUME TypeInv, BeginWalk PROVE TypeInv'
<1>1. PICK k \in walk.todo :
        walk' = [todo |-> walk.todo \ {k}, start |-> k, current |-> k, seen |-> {}]
    BY DEF BeginWalk
<1>2. UNCHANGED <<doc, pc, diagnostics, graph, identities, partKeys, socketKeys, framesSeen>>
    BY DEF BeginWalk, maps
<1>3. walk.todo \subseteq partKeys /\ partKeys \subseteq Address
    BY DEF TypeInv, TypeOK
<1>4. QED
    BY <1>1, <1>2, <1>3 DEF TypeInv, TypeOK

LEMMA EndWalkTypes ==
    ASSUME TypeInv, NEW found, Located(found), EndWalk(found) PROVE TypeInv'
<1>1. walk' = [todo |-> walk.todo, start |-> NoAddress, current |-> NoAddress, seen |-> {}]
    BY DEF EndWalk, NotWalking
<1>2. /\ diagnostics' = diagnostics \cup found
      /\ UNCHANGED <<doc, pc, graph, identities, partKeys, socketKeys, framesSeen>>
    BY DEF EndWalk, Report, maps
<1>3. QED
    BY <1>1, <1>2 DEF TypeInv, TypeOK, Located

(* The loop only climbs to parts: the links it follows passed require_part. *)
LEMMA WalkParentIsPart ==
    ASSUME doc \in BodyDocument, NEW k \in DOMAIN WalkParent
    PROVE  /\ WalkParent[k] \in partKeys
           /\ \E i \in DOMAIN doc.parts : /\ Parented(doc.parts[i]) /\ doc.parts[i].address = k
                                          /\ doc.parts[i].parent = WalkParent[k]
<1> DEFINE from == {i \in DOMAIN doc.parts : /\ Parented(doc.parts[i]) /\ IsKey(doc.parts[i].address)
                                             /\ PartResolves(doc.parts[i].parent)}
<1>1. WalkParent = ParentMap(doc.parts, from)
    BY DEF WalkParent
<1>2. doc.parts \in Seq(Part) /\ from \in SUBSET DOMAIN doc.parts
    BY DocumentTypes
<1>3. PICK i \in from : /\ Parented(doc.parts[i]) /\ doc.parts[i].address = k
                        /\ WalkParent[k] = doc.parts[i].parent
    BY <1>1, <1>2, ParentMapHoldsALink
<1>4. QED
    BY <1>3 DEF PartResolves, KeyResolves

LEMMA ClimbToParentTypes == ASSUME TypeInv, ClimbToParent PROVE TypeInv'
<1>1. /\ walk' = [walk EXCEPT !.current = WalkParent[walk.current],
                              !.seen = walk.seen \cup {walk.current}]
      /\ walk.current \in DOMAIN WalkParent
      /\ UNCHANGED <<doc, pc, diagnostics, graph, identities, partKeys, socketKeys, framesSeen>>
    BY DEF ClimbToParent, maps
<1>2. WalkParent[walk.current] \in partKeys
    BY <1>1, WalkParentIsPart DEF TypeInv
<1>3. walk.current \in partKeys /\ partKeys \subseteq Address
    <2>1. walk.current \in Address
        <3>1. PICK i \in DOMAIN doc.parts : doc.parts[i].address = walk.current
            BY <1>1, WalkParentIsPart DEF TypeInv
        <3>2. doc.parts[i] \in Part
            BY DocumentTypes DEF TypeInv
        <3>3. QED
            BY <3>1, <3>2 DEF Part
    <2>2. QED
        BY <2>1, NoAddressAssumption DEF TypeInv, TypeOK
<1>4. /\ walk'.current = WalkParent[walk.current] /\ walk'.seen = walk.seen \cup {walk.current}
      /\ walk'.todo = walk.todo /\ walk'.start = walk.start
      /\ walk' \in [todo : SUBSET Address, start : Address \cup {NoAddress},
                    current : Address \cup {NoAddress}, seen : SUBSET Address]
    BY <1>1, <1>2, <1>3 DEF TypeInv
<1>5. QED
    BY <1>1, <1>2, <1>3, <1>4 DEF TypeInv, TypeOK

LEMMA WalkTypes == ASSUME TypeInv, MeetCycle \/ ReachTop PROVE TypeInv'
<1>1. walk.start \in Address \cup {NoAddress}
    BY DEF TypeInv
<1>2. /\ Located({Diag("part-containment-cycle", walk.start)})
      /\ \A c : Located(When(c, Diag("part-disconnected", walk.start)))
    BY <1>1 DEF Located, When, Diag
<1>3. CASE MeetCycle
    BY <1>2, <1>3, EndWalkTypes DEF MeetCycle
<1>4. CASE ReachTop
    BY <1>2, <1>4, EndWalkTypes, Zenon DEF ReachTop
<1>5. QED
    BY <1>3, <1>4

LEMMA BuildGraphTypes == ASSUME TypeInv, BuildGraph PROVE TypeInv'
    BY PassNames DEF TypeInv, TypeOK, BuildGraph, maps, Early

LEMMA TypesAreKept == TypeInv /\ [Next]_vars => TypeInv'
<1> SUFFICES ASSUME TypeInv, [Next]_vars PROVE TypeInv'
    OBVIOUS
<1>1. CASE Next
    BY <1>1, CheckSourceNamespaceTypes, CollectModulesTypes, CollectIdentityAddressesTypes,
       CollectOwnerRecordsTypes, CheckModulesTypes, CheckPartsTypes, BeginWalkTypes,
       ClimbToParentTypes, WalkTypes, WalksDoneTypes, CheckJointsTypes, CheckSocketsTypes,
       CheckAttachmentsTypes, CheckOwnedReferencesTypes, BuildGraphTypes DEF Next
<1>2. CASE UNCHANGED vars
    BY <1>2 DEF vars, TypeInv, TypeOK
<1>3. QED
    BY <1>1, <1>2

(* The validator's maps and its walk stay well typed for every document.   *)
THEOREM ValidatorTypes == Spec => []TypeOK
<1>1. TypeInv => TypeOK
    BY DEF TypeInv
<1>2. QED
    BY <1>1, InitialTypes, TypesAreKept, PTL DEF Spec

-----------------------------------------------------------------------------
(* What structural_validation.rs accepts, the index of body_graph.rs holds,*)
(* for every document.  While no diagnostic was reported, each collecting  *)
(* pass that ran has established its conjunct of the contract; the later   *)
(* passes only add diagnostics, so at the end an empty report carries all  *)
(* of them, and they are what the index needs.                             *)

(* What a silent reference check says. *)

LEMMA IdentityRequired ==
    ASSUME NEW a, RequireIdentity(a) = {} PROVE IdentityResolves(a)
    BY DEF RequireIdentity, IdentityResolves, When

LEMMA KeyRequired ==
    ASSUME NEW a, NEW kind, NEW keys, RequireKey(a, kind, keys) = {}
    PROVE  IdentityResolves(a) /\ a.kind = kind /\ a \in keys
<1>1. RequireIdentity(a) = {}
    BY DEF RequireKey
<1>2. IdentityResolves(a)
    BY <1>1, IdentityRequired
<1>3. QED
    BY <1>2 DEF RequireKey, When

LEMMA PartRequired ==
    ASSUME NEW a, RequirePart(a) = {} PROVE PartResolves(a) /\ a \in partKeys
    BY KeyRequired DEF RequirePart, PartResolves, KeyResolves

LEMMA SocketRequired ==
    ASSUME NEW a, RequireSocket(a) = {} PROVE SocketResolves(a) /\ a \in socketKeys
    BY KeyRequired DEF RequireSocket, SocketResolves, KeyResolves

LEMMA FrameRequired ==
    ASSUME NEW f, RequireFrame(f) = {} PROVE OwnerRoleOf(f) \in framesSeen
<1>1. RequireIdentity(f.owner) = {}
    BY DEF RequireFrame
<1>2. QED
    BY <1>1, IdentityRequired DEF RequireFrame, When

LEMMA WhenSilent ==
    ASSUME NEW c \in BOOLEAN, NEW d, When(c, d) = {} PROVE ~c
    BY DEF When

-----------------------------------------------------------------------------
(* The contract's copies of the document operators are the validator's.    *)
LEMMA SameVocabulary ==
    /\ \A s : Contract!Range(s) = Range(s)
    /\ \A a : Contract!IsKey(a) = IsKey(a)
    /\ \A p : Contract!Parented(p) = Parented(p)
    /\ \A r : Contract!OwnerRoleOf(r) = OwnerRoleOf(r)
    /\ \A r : Contract!IsOwnerRoleKey(r) = IsOwnerRoleKey(r)
    BY DEF Contract!Range, Range, Contract!IsKey, IsKey, Contract!Parented, Parented,
           Contract!OwnerRoleOf, OwnerRoleOf, Contract!IsOwnerRoleKey, IsOwnerRoleKey

-----------------------------------------------------------------------------
(* Source, declarations and identities *)

LEMMA SourcePass ==
    ASSUME doc \in BodyDocument, SourceDiags = {} PROVE Contract!SourceSound(doc)
<1> DEFINE deps == doc.source.dependencies
           each == {DependencyDiags(d) : d \in Range(deps)}
<1>1. /\ When(doc.source.document \notin Identifiers, Unlocated("source-document-invalid")) = {}
      /\ When(doc.source.namespace \notin Identifiers, Unlocated("source-namespace-invalid")) = {}
      /\ UNION each = {}
      /\ When(Repeated(DependencyNamespaces) # {}, Unlocated("dependency-namespace-duplicate")) = {}
    BY Zenon DEF SourceDiags
<1>2. {doc.source.document, doc.source.namespace} \subseteq Identifiers
    BY <1>1, WhenSilent
<1>3. ASSUME NEW d \in Range(deps)
      PROVE  /\ {d.document, d.namespace} \subseteq Identifiers /\ d.content_sha256 \in Digests
             /\ d.namespace # doc.source.namespace
    <2>1. DependencyDiags(d) = {}
        BY <1>1
    <2>2. QED
        BY <2>1 DEF DependencyDiags, When
<1>4. Contract!Distinct(DependencyNamespaces)
    <2>1. Repeated(DependencyNamespaces) = {}
        BY <1>1, WhenSilent
    <2>2. deps \in Seq(Dependency)
        BY DocumentTypes DEF Source
    <2>3. DOMAIN DependencyNamespaces = 1..Len(deps) /\ Len(deps) \in Nat
        BY <2>2 DEF DependencyNamespaces
    <2>4. QED
        BY <2>1, <2>3, NothingRepeated DEF Contract!Distinct
<1>5. Contract!Distinct([i \in DOMAIN deps |-> deps[i].namespace])
    BY <1>4 DEF DependencyNamespaces
<1>6. QED
    BY <1>2, <1>3, <1>5, SameVocabulary, Zenon DEF Contract!SourceSound

DeclarationsSound(d) ==
    /\ Contract!Distinct([i \in DOMAIN d.modules |-> d.modules[i].declaration])
    /\ \A m \in Range(d.modules) : m.declaration \in Identifiers

LEMMA DeclarationPass ==
    ASSUME doc \in BodyDocument, DeclarationDiags = {} PROVE DeclarationsSound(doc)
<1>1. /\ When(~(Range(Declarations) \subseteq Identifiers), Unlocated("module-declaration-invalid")) = {}
      /\ When(Repeated(Declarations) \cap Identifiers # {}, Unlocated("module-declaration-duplicate")) = {}
    BY Zenon DEF DeclarationDiags
<1>2. Range(Declarations) \subseteq Identifiers /\ Repeated(Declarations) \cap Identifiers = {}
    BY <1>1, WhenSilent
<1>3. Repeated(Declarations) \subseteq Range(Declarations)
    BY DEF Repeated, Range
<1>4. doc.modules \in Seq(Module)
    BY DocumentTypes
<1>5. DOMAIN Declarations = 1..Len(doc.modules) /\ Len(doc.modules) \in Nat
    BY <1>4 DEF Declarations
<1>6. Contract!Distinct(Declarations)
    BY <1>2, <1>3, <1>5, NothingRepeated DEF Contract!Distinct
<1>7. \A m \in Range(doc.modules) : m.declaration \in Identifiers
    BY <1>2 DEF Declarations, Range
<1>8. QED
    BY <1>6, <1>7 DEF DeclarationsSound, Declarations

(* The addresses all collections hold, in the order of the contract.       *)
LEMMA SameAddresses == AllAddresses = Contract!IdentityAddresses(doc)
    BY Zenon DEF AllAddresses, Addresses, Contract!IdentityAddresses

LEMMA IdentityPass ==
    ASSUME doc \in BodyDocument, IdentityDiags = {}
    PROVE  Contract!IdentitySound(doc) /\ AllKeys = Range(AllAddresses)
<1> DEFINE kinds == {KindDiags(n) : n \in 1..7}
           foreign == {Diag("address-namespace-not-owned", a) :
                          a \in {k \in AllKeys : k.namespace # doc.source.namespace}}
           twice == {Diag("address-duplicate", a) : a \in {k \in Repeated(AllAddresses) : IsKey(k)}}
<1>1. /\ When(Range(AllAddresses) # AllKeys, Unlocated("address-invalid")) = {}
      /\ foreign = {} /\ UNION kinds = {} /\ twice = {}
    BY Zenon DEF IdentityDiags
<1>2. AllKeys = Range(AllAddresses)
    BY <1>1, WhenSilent
<1>3. \A a \in Range(AllAddresses) : Contract!OwnedBy(doc, a)
    BY <1>1, <1>2, SameVocabulary DEF Contract!OwnedBy, AllKeys
<1>4. Contract!Distinct(AllAddresses)
    <2>1. Repeated(AllAddresses) \subseteq AllKeys
        BY <1>2 DEF Repeated, Range
    <2>2. Repeated(AllAddresses) = {}
        BY <1>1, <2>1 DEF AllKeys
    <2>3. DOMAIN AllAddresses = 1..Len(AllAddresses) /\ Len(AllAddresses) \in Nat
        BY KeysAreAddresses
    <2>4. QED
        BY <2>2, <2>3, NothingRepeated DEF Contract!Distinct
<1>5. \A n \in 1..7 : \A k \in KeysOf(Collections[n][1]) : k.kind = Collections[n][2]
    BY <1>1 DEF KindDiags
<1>6. ASSUME NEW records, NEW kind, Range(Addresses(records)) \subseteq Range(AllAddresses),
             \A k \in KeysOf(records) : k.kind = kind
      PROVE  Contract!OfKind(records, kind)
    <2>1. \A r \in Range(records) : r.address \in Range(Addresses(records))
        BY DEF Addresses, Range
    <2>2. \A r \in Range(records) : r.address \in KeysOf(records)
        BY <1>2, <1>6, <2>1 DEF KeysOf, AllKeys
    <2>3. QED
        BY <1>6, <2>2 DEF Contract!OfKind, Contract!Range, Range
<1>7. /\ \A k \in KeysOf(doc.parts) : k.kind = "part"
      /\ \A k \in KeysOf(doc.joints) : k.kind = "joint"
      /\ \A k \in KeysOf(doc.sockets) : k.kind = "socket"
      /\ \A k \in KeysOf(doc.attachments) : k.kind = "attachment"
      /\ \A k \in KeysOf(doc.regions) : k.kind = "region"
      /\ \A k \in KeysOf(doc.capabilities) : k.kind = "capability"
      /\ \A k \in KeysOf(doc.fields) : k.kind = "field"
    BY <1>5 DEF Collections
<1>8. /\ Contract!OfKind(doc.parts, "part") /\ Contract!OfKind(doc.joints, "joint")
      /\ Contract!OfKind(doc.sockets, "socket") /\ Contract!OfKind(doc.attachments, "attachment")
      /\ Contract!OfKind(doc.regions, "region") /\ Contract!OfKind(doc.capabilities, "capability")
      /\ Contract!OfKind(doc.fields, "field")
    <2>1. /\ Range(Addresses(doc.parts)) \subseteq Range(AllAddresses)
          /\ Range(Addresses(doc.joints)) \subseteq Range(AllAddresses)
          /\ Range(Addresses(doc.sockets)) \subseteq Range(AllAddresses)
          /\ Range(Addresses(doc.attachments)) \subseteq Range(AllAddresses)
          /\ Range(Addresses(doc.regions)) \subseteq Range(AllAddresses)
          /\ Range(Addresses(doc.capabilities)) \subseteq Range(AllAddresses)
          /\ Range(Addresses(doc.fields)) \subseteq Range(AllAddresses)
        BY AllAddressesRange
    <2>2. QED
        BY <1>6, <1>7, <2>1, Zenon
<1>9. QED
    BY <1>2, <1>3, <1>4, <1>8, SameAddresses, SameVocabulary, Zenon DEF Contract!IdentitySound

(* Owner and role records: keys, and no two records with the same key.     *)
RolesSound(records) ==
    /\ Contract!Distinct(OwnerRoles(records))
    /\ RoleKeys(records) = Range(OwnerRoles(records))

OwnersSound == RolesSound(doc.landmarks) /\ RolesSound(doc.dimensions) /\ RolesSound(doc.frames)

LEMMA RolePass ==
    ASSUME NEW T, NEW records \in Seq(T), NEW invalid, NEW duplicate,
           RoleDiags(records, invalid, duplicate) = {}
    PROVE  RolesSound(records)
<1> DEFINE twice == {Diag(duplicate, r.owner) :
                        r \in {k \in Repeated(OwnerRoles(records)) : IsOwnerRoleKey(k)}}
<1>1. /\ When(Range(OwnerRoles(records)) # RoleKeys(records), Unlocated(invalid)) = {}
      /\ twice = {}
    BY Zenon DEF RoleDiags
<1>2. RoleKeys(records) = Range(OwnerRoles(records))
    BY <1>1, WhenSilent
<1>3. Repeated(OwnerRoles(records)) \subseteq RoleKeys(records)
    BY <1>2 DEF Repeated, Range
<1>4. Repeated(OwnerRoles(records)) = {}
    BY <1>1, <1>3 DEF RoleKeys
<1>5. DOMAIN OwnerRoles(records) = 1..Len(records) /\ Len(records) \in Nat
    BY DEF OwnerRoles
<1>6. Contract!Distinct(OwnerRoles(records))
    BY <1>4, <1>5, NothingRepeated DEF Contract!Distinct
<1>7. QED
    BY <1>2, <1>6 DEF RolesSound

LEMMA OwnerPass == ASSUME doc \in BodyDocument, OwnerDiags = {} PROVE OwnersSound
<1>1. /\ RoleDiags(doc.frames, "frame-owner-invalid", "frame-duplicate") = {}
      /\ RoleDiags(doc.landmarks, "landmark-owner-invalid", "landmark-duplicate") = {}
      /\ RoleDiags(doc.dimensions, "dimension-owner-invalid", "dimension-duplicate") = {}
    BY Zenon DEF OwnerDiags
<1>2. /\ doc.frames \in Seq(OwnerRole) /\ doc.dimensions \in Seq(OwnerRole)
      /\ doc.landmarks \in Seq(Landmark)
    BY DocumentTypes
<1>3. QED
    BY <1>1, <1>2, RolePass, Zenon DEF OwnersSound

-----------------------------------------------------------------------------
(* While nothing was reported, each pass that ran established its part of  *)
(* the contract.                                                           *)

Unreported ==
    /\ pc # "check_source_namespace" => Contract!SourceSound(doc)
    /\ pc \notin {"check_source_namespace", "collect_modules"} => DeclarationsSound(doc)
    /\ pc \notin Early => Contract!IdentitySound(doc)
    /\ pc \notin Early \cup {"collect_owner_records"} => OwnersSound

Settled ==
    /\ diagnostics = {} => Unreported
    /\ graph # "none" => pc = "done" /\ diagnostics = {}
    /\ graph # "panic"

(* A step after the collecting passes keeps what they established. *)
LEMMA LaterStep ==
    ASSUME Settled, doc' = doc, graph' = graph, diagnostics \subseteq diagnostics',
           pc \notin Early \cup {"collect_owner_records", "done"}
    PROVE  Settled'
<1>1. graph' = "none"
    BY DEF Settled
<1>2. ASSUME diagnostics' = {} PROVE Unreported'
    <2>1. Unreported
        BY <1>2 DEF Settled
    <2>2. OwnersSound /\ Contract!IdentitySound(doc) /\ DeclarationsSound(doc) /\ Contract!SourceSound(doc)
        BY <2>1 DEF Unreported, Early
    <2>3. OwnersSound' = OwnersSound
        BY Zenon DEF OwnersSound
    <2>4. QED
        BY <2>2, <2>3, Zenon DEF Unreported
<1>3. QED
    BY <1>1, <1>2 DEF Settled

LEMMA CollectingSettles ==
    ASSUME TypeInv, Settled,
           CheckSourceNamespace \/ CollectModules \/ CollectIdentityAddresses \/ CollectOwnerRecords
    PROVE  Settled'
<1>1. doc \in BodyDocument /\ doc' = doc /\ graph' = graph /\ pc # "done"
    BY DEF TypeInv, CheckSourceNamespace, CollectModules, CollectIdentityAddresses,
           CollectOwnerRecords, Pass
<1>2. graph' = "none"
    BY <1>1 DEF Settled
<1>3. CASE CheckSourceNamespace
    <2>1. pc' = "collect_modules" /\ diagnostics' = diagnostics \cup SourceDiags
        BY <1>3 DEF CheckSourceNamespace, Pass, Report
    <2>2. diagnostics' = {} => Contract!SourceSound(doc)
        BY <1>1, <2>1, SourcePass
    <2>3. QED
        BY <1>1, <1>2, <2>1, <2>2 DEF Settled, Unreported, Early
<1>4. CASE CollectModules
    <2>1. /\ pc = "collect_modules" /\ pc' = "collect_identity_addresses"
          /\ diagnostics' = diagnostics \cup DeclarationDiags
        BY <1>4 DEF CollectModules, Pass, Report
    <2>2. diagnostics' = {} => Contract!SourceSound(doc) /\ DeclarationsSound(doc)
        BY <1>1, <2>1, DeclarationPass DEF Settled, Unreported
    <2>3. QED
        BY <1>1, <1>2, <2>1, <2>2 DEF Settled, Unreported, Early
<1>5. CASE CollectIdentityAddresses
    <2>1. /\ pc = "collect_identity_addresses" /\ pc' = "collect_owner_records"
          /\ diagnostics' = diagnostics \cup IdentityDiags
        BY <1>5 DEF CollectIdentityAddresses, Pass, Report
    <2>2. diagnostics' = {} => /\ Contract!SourceSound(doc) /\ DeclarationsSound(doc)
                               /\ Contract!IdentitySound(doc)
        BY <1>1, <2>1, IdentityPass DEF Settled, Unreported
    <2>3. QED
        BY <1>1, <1>2, <2>1, <2>2 DEF Settled, Unreported, Early
<1>6. CASE CollectOwnerRecords
    <2>1. /\ pc = "collect_owner_records" /\ pc' = "check_modules"
          /\ diagnostics' = diagnostics \cup OwnerDiags
        BY <1>6 DEF CollectOwnerRecords, Pass, Report
    <2>2. diagnostics' = {} => /\ Contract!SourceSound(doc) /\ DeclarationsSound(doc)
                               /\ Contract!IdentitySound(doc) /\ OwnersSound
        BY <1>1, <2>1, OwnerPass DEF Settled, Unreported, Early
    <2>3. OwnersSound' = OwnersSound
        BY <1>1, Zenon DEF OwnersSound
    <2>4. QED
        BY <1>1, <1>2, <2>1, <2>2, <2>3 DEF Settled, Unreported, Early
<1>7. QED
    BY <1>3, <1>4, <1>5, <1>6

-----------------------------------------------------------------------------
(* The index *)

(* A stretch of a sequence without repetition has none. *)
LEMMA PartsOfDistinct ==
    ASSUME NEW s \in Seq(Address), NEW t \in Seq(Address), Contract!Distinct(s \o t)
    PROVE  Contract!Distinct(s) /\ Contract!Distinct(t)
<1>1. \A i \in DOMAIN s : i \in DOMAIN (s \o t) /\ (s \o t)[i] = s[i]
    OBVIOUS
<1>2. \A i \in DOMAIN t : Len(s) + i \in DOMAIN (s \o t) /\ (s \o t)[Len(s) + i] = t[i]
    OBVIOUS
<1>3. Contract!Distinct(s)
    BY <1>1 DEF Contract!Distinct
<1>4. Contract!Distinct(t)
    <2>1. ASSUME NEW i \in DOMAIN t, NEW j \in DOMAIN t, t[i] = t[j] PROVE i = j
        <3>1. Len(s) + i = Len(s) + j
            BY <1>2, <2>1 DEF Contract!Distinct
        <3>2. QED
            BY <3>1
    <2>2. QED
        BY <2>1 DEF Contract!Distinct
<1>5. QED
    BY <1>3, <1>4

LEMMA DistinctIndexesOnce ==
    ASSUME NEW keys, NEW n \in Nat, DOMAIN keys = 1..n, Contract!Distinct(keys)
    PROVE  IndexesOnce(keys)
    BY DEF IndexesOnce, Repeated, Contract!Distinct

LEMMA EachCollectionDistinct ==
    ASSUME doc \in BodyDocument, Contract!Distinct(AllAddresses)
    PROVE  /\ Contract!Distinct(Addresses(doc.parts)) /\ Contract!Distinct(Addresses(doc.joints))
           /\ Contract!Distinct(Addresses(doc.sockets)) /\ Contract!Distinct(Addresses(doc.attachments))
           /\ Contract!Distinct(Addresses(doc.regions)) /\ Contract!Distinct(Addresses(doc.capabilities))
           /\ Contract!Distinct(Addresses(doc.fields))
<1> DEFINE one == Addresses(doc.parts)
           two == one \o Addresses(doc.joints)
           three == two \o Addresses(doc.sockets)
           four == three \o Addresses(doc.attachments)
           five == four \o Addresses(doc.regions)
           six == five \o Addresses(doc.capabilities)
<1>1. /\ one \in Seq(Address) /\ Addresses(doc.joints) \in Seq(Address)
      /\ Addresses(doc.sockets) \in Seq(Address) /\ Addresses(doc.attachments) \in Seq(Address)
      /\ Addresses(doc.regions) \in Seq(Address) /\ Addresses(doc.capabilities) \in Seq(Address)
      /\ Addresses(doc.fields) \in Seq(Address)
    BY CollectionAddresses
<1>2. /\ two \in Seq(Address) /\ three \in Seq(Address) /\ four \in Seq(Address)
      /\ five \in Seq(Address) /\ six \in Seq(Address)
    BY <1>1
<1>3. Contract!Distinct(six \o Addresses(doc.fields))
    BY DEF AllAddresses
<1> HIDE DEF one, two, three, four, five, six
<1>4. Contract!Distinct(six) /\ Contract!Distinct(Addresses(doc.fields))
    BY <1>1, <1>2, <1>3, PartsOfDistinct
<1>5. Contract!Distinct(five) /\ Contract!Distinct(Addresses(doc.capabilities))
    BY <1>1, <1>2, <1>4, PartsOfDistinct DEF six
<1>6. Contract!Distinct(four) /\ Contract!Distinct(Addresses(doc.regions))
    BY <1>1, <1>2, <1>5, PartsOfDistinct DEF five
<1>7. Contract!Distinct(three) /\ Contract!Distinct(Addresses(doc.attachments))
    BY <1>1, <1>2, <1>6, PartsOfDistinct DEF four
<1>8. Contract!Distinct(two) /\ Contract!Distinct(Addresses(doc.sockets))
    BY <1>1, <1>2, <1>7, PartsOfDistinct DEF three
<1>9. Contract!Distinct(one) /\ Contract!Distinct(Addresses(doc.joints))
    BY <1>1, <1>2, <1>8, PartsOfDistinct DEF two
<1>10. QED
    BY <1>4, <1>5, <1>6, <1>7, <1>8, <1>9 DEF one

LEMMA EachCollectionIndexes ==
    ASSUME doc \in BodyDocument, Contract!IdentitySound(doc), NEW n \in 1..7
    PROVE  LET records == Collections[n][1]
           IN KeysOf(records) = Range(Addresses(records)) /\ IndexesOnce(Addresses(records))
<1> DEFINE records == Collections[n][1]
<1>1. Contract!Distinct(AllAddresses) /\ \A a \in Range(AllAddresses) : IsKey(a)
    BY SameAddresses, SameVocabulary DEF Contract!IdentitySound, Contract!OwnedBy
<1>2. records \in {doc.parts, doc.joints, doc.sockets, doc.attachments, doc.regions,
                   doc.capabilities, doc.fields}
    BY DEF Collections
<1> HIDE DEF records
<1>3. Range(Addresses(records)) \subseteq Range(AllAddresses)
    BY <1>2, AllAddressesRange
<1>4. Contract!Distinct(Addresses(records))
    BY <1>1, <1>2, EachCollectionDistinct
<1>5. KeysOf(records) = Range(Addresses(records))
    BY <1>1, <1>3 DEF KeysOf
<1>6. Addresses(records) \in Seq(Address)
    BY <1>2, CollectionAddresses
<1>7. IndexesOnce(Addresses(records))
    BY <1>4, <1>6, DistinctIndexesOnce
<1>8. QED
    BY <1>5, <1>7 DEF records

LEMMA RolesIndex ==
    ASSUME NEW T, NEW records \in Seq(T), RolesSound(records)
    PROVE  RoleKeys(records) = Range(OwnerRoles(records)) /\ IndexesOnce(OwnerRoles(records))
<1>1. DOMAIN OwnerRoles(records) = 1..Len(records) /\ Len(records) \in Nat
    BY DEF OwnerRoles
<1>2. QED
    BY <1>1, DistinctIndexesOnce DEF RolesSound

LEMMA SoundDocumentsIndex ==
    ASSUME doc \in BodyDocument, DeclarationsSound(doc), Contract!IdentitySound(doc), OwnersSound
    PROVE  IndexAccepts
<1> DEFINE declared == [i \in DOMAIN doc.modules |-> doc.modules[i].declaration]
<1>1. IndexesOnce(declared)
    <2>1. doc.modules \in Seq(Module)
        BY DocumentTypes
    <2>2. DOMAIN declared = 1..Len(doc.modules) /\ Len(doc.modules) \in Nat
        BY <2>1
    <2>3. Contract!Distinct(declared)
        BY DEF DeclarationsSound
    <2> HIDE DEF declared
    <2>4. QED
        BY <2>2, <2>3, DistinctIndexesOnce
<1>2. \A m \in Range(doc.modules) : m.declaration \in Identifiers
    BY DEF DeclarationsSound
<1>3. /\ doc.frames \in Seq(OwnerRole) /\ doc.dimensions \in Seq(OwnerRole)
      /\ doc.landmarks \in Seq(Landmark)
    BY DocumentTypes
<1>4. \A records \in {doc.landmarks, doc.dimensions, doc.frames} :
            RoleKeys(records) = Range(OwnerRoles(records)) /\ IndexesOnce(OwnerRoles(records))
    BY <1>3, RolesIndex DEF OwnersSound
<1> HIDE DEF declared
<1>5. QED
    BY <1>1, <1>2, <1>4, EachCollectionIndexes, Zenon DEF IndexAccepts, declared

LEMMA BuildGraphSettles == ASSUME TypeInv, Settled, BuildGraph PROVE Settled'
<1>1. /\ pc = "build_graph" /\ pc' = "done" /\ doc' = doc /\ diagnostics' = diagnostics
      /\ graph' = IF diagnostics # {} THEN "none" ELSE IF IndexAccepts THEN "graph" ELSE "panic"
    BY DEF BuildGraph
<1>2. doc \in BodyDocument
    BY DEF TypeInv
<1>3. diagnostics = {} => /\ Contract!SourceSound(doc) /\ DeclarationsSound(doc)
                          /\ Contract!IdentitySound(doc) /\ OwnersSound
    BY <1>1 DEF Settled, Unreported, Early
<1>4. diagnostics = {} => IndexAccepts
    BY <1>2, <1>3, SoundDocumentsIndex
<1>5. OwnersSound' = OwnersSound
    BY <1>1, Zenon DEF OwnersSound
<1>6. QED
    BY <1>1, <1>3, <1>4, <1>5 DEF Settled, Unreported

LEMMA InitiallySettled == Init => Settled
    BY DEF Init, Settled, Unreported, Early

LEMMA SettledIsKept == TypeInv /\ Settled /\ [Next]_vars => Settled'
<1> SUFFICES ASSUME TypeInv, Settled, [Next]_vars PROVE Settled'
    OBVIOUS
<1>1. CASE CheckSourceNamespace \/ CollectModules \/ CollectIdentityAddresses \/ CollectOwnerRecords
    BY <1>1, CollectingSettles
<1>2. CASE \/ CheckModules \/ CheckJoints \/ CheckSockets \/ CheckAttachments
           \/ CheckOwnedReferences \/ WalksDone
    BY <1>2, LaterStep DEF CheckModules, CheckJoints, CheckSockets, CheckAttachments,
       CheckOwnedReferences, WalksDone, Pass, Report, Early
<1>3. CASE CheckParts \/ BeginWalk \/ ClimbToParent
    BY <1>3, LaterStep DEF CheckParts, BeginWalk, ClimbToParent, Walking, Report, Early
<1>4. CASE MeetCycle
    BY <1>4, LaterStep DEF MeetCycle, Walking, EndWalk, Report, Early
<1>5. CASE ReachTop
    BY <1>5, LaterStep DEF ReachTop, Walking, EndWalk, Report, Early
<1>6. CASE BuildGraph
    BY <1>6, BuildGraphSettles
<1>7. CASE UNCHANGED vars
    <2>1. UNCHANGED <<doc, pc, diagnostics, graph>>
        BY <1>7 DEF vars
    <2>2. OwnersSound' = OwnersSound
        BY <2>1, Zenon DEF OwnersSound
    <2>3. QED
        BY <2>1, <2>2, Zenon DEF Settled, Unreported
<1>8. QED
    BY <1>1, <1>2, <1>3, <1>4, <1>5, <1>6, <1>7 DEF Next

(* The index never meets a key twice in a document that passed: the        *)
(* expect() of StructuralBodyGraph::from_validated cannot fire.            *)
THEOREM AcceptedDocumentsIndex == Spec => []IndexNeverPanics
<1>1. Settled => IndexNeverPanics
    BY DEF Settled, IndexNeverPanics
<1>2. QED
    BY <1>1, InitialTypes, TypesAreKept, InitiallySettled, SettledIsKept, PTL DEF Spec

-----------------------------------------------------------------------------
(* What lies below a Part of a document, whatever the passes do.           *)

LEMMA BelowIsLeast ==
    ASSUME NEW d, NEW r \in Contract!PartAddresses(d), NEW T, r \in T,
           \A a \in Contract!PartAddresses(d), q \in T : Contract!IsParent(d, q, a) => a \in T
    PROVE  Contract!Below(d, r) \subseteq T
<1> DEFINE S == T \cap Contract!PartAddresses(d)
<1>1. /\ S \in SUBSET Contract!PartAddresses(d) /\ r \in S
      /\ \A a \in Contract!PartAddresses(d), q \in S : Contract!IsParent(d, q, a) => a \in S
    OBVIOUS
<1>2. Contract!Below(d, r) \subseteq S
    <2> HIDE DEF S
    <2>1. QED
        BY <1>1, Zenon DEF Contract!Below
<1>3. QED
    BY <1>2

LEMMA BelowItself ==
    ASSUME NEW d, NEW r \in Contract!PartAddresses(d) PROVE r \in Contract!Below(d, r)
    BY DEF Contract!Below

LEMMA BelowDescends ==
    ASSUME NEW d, NEW r, NEW q \in Contract!Below(d, r), NEW a \in Contract!PartAddresses(d),
           Contract!IsParent(d, q, a)
    PROVE  a \in Contract!Below(d, r)
    BY Zenon DEF Contract!Below

LEMMA BelowArePartAddresses ==
    ASSUME NEW d, NEW r PROVE Contract!Below(d, r) \subseteq Contract!PartAddresses(d)
    BY DEF Contract!Below

LEMMA BelowNests ==
    ASSUME NEW d, NEW r, NEW q \in Contract!Below(d, r)
    PROVE  Contract!Below(d, q) \subseteq Contract!Below(d, r)
<1>1. q \in Contract!PartAddresses(d)
    BY BelowArePartAddresses
<1>2. \A a \in Contract!PartAddresses(d), p \in Contract!Below(d, r) :
            Contract!IsParent(d, p, a) => a \in Contract!Below(d, r)
    BY BelowDescends
<1>3. QED
    BY <1>1, <1>2, BelowIsLeast

(* Whatever lies strictly below a Part hangs on something below it.        *)
LEMMA BelowHangs ==
    ASSUME NEW d, NEW r \in Contract!PartAddresses(d), NEW x \in Contract!Below(d, r), x # r
    PROVE  \E p \in Contract!Below(d, r) : Contract!IsParent(d, p, x)
<1> DEFINE T == {a \in Contract!Below(d, r) :
                    a = r \/ \E p \in Contract!Below(d, r) : Contract!IsParent(d, p, a)}
<1>1. r \in T
    BY BelowItself
<1>2. ASSUME NEW a \in Contract!PartAddresses(d), NEW q \in T, Contract!IsParent(d, q, a)
      PROVE  a \in T
    BY <1>2, BelowDescends
<1>3. Contract!Below(d, r) \subseteq T
    <2> HIDE DEF T
    <2>1. QED
        BY <1>1, <1>2, BelowIsLeast
<1>4. QED
    BY <1>3

(* Each Part has one parent, and a root has none. *)
OneParent(d) ==
    /\ \A a, p, q : Contract!IsParent(d, p, a) /\ Contract!IsParent(d, q, a) => p = q
    /\ \A a, p : Contract!IsRoot(d, a) => ~Contract!IsParent(d, p, a)

(* Where everything lies below one root, no Part lies below its child.     *)
LEMMA ParentIsNotBelow ==
    ASSUME NEW d, OneParent(d), Contract!ContainmentSound(d),
           NEW r \in Contract!PartAddresses(d), NEW h, Contract!IsParent(d, h, r)
    PROVE  h \notin Contract!Below(d, r)
<1> SUFFICES ASSUME h \in Contract!Below(d, r) PROVE FALSE
    OBVIOUS
<1> DEFINE cycle == {x \in Contract!Below(d, r) : h \in Contract!Below(d, x)}
           T == Contract!PartAddresses(d) \ cycle
<1>1. PICK top \in Contract!PartAddresses(d) :
            /\ Contract!IsRoot(d, top)
            /\ Contract!Below(d, top) = Contract!PartAddresses(d)
    BY DEF Contract!ContainmentSound
<1>2. r \in cycle
    BY BelowItself
<1>3. top \notin cycle
    <2>1. ~ \E p : Contract!IsParent(d, p, top)
        BY <1>1 DEF OneParent
    <2>2. top # r
        BY <2>1
    <2>3. top \notin Contract!Below(d, r)
        BY <2>1, <2>2, BelowHangs
    <2>4. QED
        BY <2>3
<1>4. ASSUME NEW a \in Contract!PartAddresses(d), NEW q \in T, Contract!IsParent(d, q, a),
             a \in cycle
      PROVE  FALSE
    <2>1. CASE a = r
        <3>1. q = h
            BY <1>4, <2>1 DEF OneParent
        <3>2. h \in cycle
            BY BelowItself, BelowArePartAddresses
        <3>3. QED
            BY <3>1, <3>2
    <2>2. CASE a # r
        <3>1. PICK p \in Contract!Below(d, r) : Contract!IsParent(d, p, a)
            BY <1>4, <2>2, BelowHangs
        <3>2. q = p
            BY <1>4, <3>1 DEF OneParent
        <3>3. a \in Contract!Below(d, q)
            BY <1>4, BelowItself, BelowDescends
        <3>4. h \in Contract!Below(d, q)
            BY <1>4, <3>3, BelowNests
        <3>5. QED
            BY <3>1, <3>2, <3>4
    <2>3. QED
        BY <2>1, <2>2
<1>5. top \in T
    BY <1>3
<1>6. \A a \in Contract!PartAddresses(d), q \in T : Contract!IsParent(d, q, a) => a \in T
    BY <1>4
<1>7. Contract!Below(d, top) \subseteq T
    <2> HIDE DEF T
    <2>1. QED
        BY <1>5, <1>6, BelowIsLeast
<1>8. QED
    BY <1>1, <1>2, <1>7

-----------------------------------------------------------------------------
(* The contract's words, by the positions of the records in the document.  *)

LEMMA PartWords ==
    ASSUME doc \in BodyDocument
    PROVE  /\ Contract!PartAddresses(doc) = Range(Addresses(doc.parts))
           /\ \A a : a \in Contract!PartAddresses(doc)
                        <=> \E i \in DOMAIN doc.parts : doc.parts[i].address = a
           /\ \A a : Contract!IsRoot(doc, a)
                        <=> \E i \in DOMAIN doc.parts : /\ doc.parts[i].address = a
                                                        /\ doc.parts[i].containment = "root"
           /\ \A q, a : Contract!IsParent(doc, q, a)
                        <=> \E i \in DOMAIN doc.parts : /\ doc.parts[i].address = a
                                                        /\ Parented(doc.parts[i])
                                                        /\ doc.parts[i].parent = q
<1>1. \A p : p \in Contract!Range(doc.parts) <=> \E i \in DOMAIN doc.parts : doc.parts[i] = p
    BY DEF Contract!Range
<1>2. \A a : a \in Contract!PartAddresses(doc)
                <=> \E i \in DOMAIN doc.parts : doc.parts[i].address = a
    BY <1>1 DEF Contract!PartAddresses
<1>3. \A a : a \in Range(Addresses(doc.parts))
                <=> \E i \in DOMAIN doc.parts : doc.parts[i].address = a
    BY DEF Range, Addresses
<1>4. QED
    BY <1>1, <1>2, <1>3, SameVocabulary DEF Contract!IsRoot, Contract!IsParent

LEMMA SocketWords ==
    ASSUME doc \in BodyDocument
    PROVE  \A s, p : Contract!SocketOwnedBy(doc, s, p)
                <=> \E i \in DOMAIN doc.sockets : /\ doc.sockets[i].address = s
                                                  /\ doc.sockets[i].owner = p
    BY DEF Contract!SocketOwnedBy, Contract!Range

(* Sound identities: an address is a key and names one record.             *)
LEMMA SoundIdentities ==
    ASSUME doc \in BodyDocument, Contract!IdentitySound(doc)
    PROVE  /\ \A a \in Range(AllAddresses) : IsKey(a) /\ a.namespace = doc.source.namespace
           /\ AllKeys = Range(AllAddresses)
           /\ \A i, j \in DOMAIN doc.parts : doc.parts[i].address = doc.parts[j].address => i = j
           /\ \A i, j \in DOMAIN doc.sockets :
                    doc.sockets[i].address = doc.sockets[j].address => i = j
           /\ \A i, j \in DOMAIN doc.attachments :
                    doc.attachments[i].address = doc.attachments[j].address => i = j
<1>1. Contract!Distinct(AllAddresses)
    BY SameAddresses DEF Contract!IdentitySound
<1>2. \A a \in Range(AllAddresses) : IsKey(a) /\ a.namespace = doc.source.namespace
    BY SameAddresses, SameVocabulary DEF Contract!IdentitySound, Contract!OwnedBy
<1>3. ASSUME NEW records, Contract!Distinct(Addresses(records))
      PROVE  \A i, j \in DOMAIN records : records[i].address = records[j].address => i = j
    BY <1>3 DEF Contract!Distinct, Addresses
<1>4. QED
    BY <1>1, <1>2, <1>3, EachCollectionDistinct DEF AllKeys

(* Every record of a collection has a key, and the map of a collection is  *)
(* all of its addresses.                                                   *)
LEMMA SoundCollections ==
    ASSUME doc \in BodyDocument, Contract!IdentitySound(doc)
    PROVE  /\ KeysOf(doc.parts) = Contract!PartAddresses(doc)
           /\ KeysOf(doc.sockets) = Range(Addresses(doc.sockets))
           /\ \A records \in {doc.parts, doc.joints, doc.sockets, doc.attachments, doc.regions,
                              doc.capabilities, doc.fields} :
                /\ Keyed(records) = Range(records)
                /\ \A r \in Range(records) : IsKey(r.address)
<1>1. ASSUME NEW records \in {doc.parts, doc.joints, doc.sockets, doc.attachments, doc.regions,
                              doc.capabilities, doc.fields}
      PROVE  /\ \A r \in Range(records) : IsKey(r.address)
             /\ KeysOf(records) = Range(Addresses(records))
    <2>1. Range(Addresses(records)) \subseteq Range(AllAddresses)
        BY AllAddressesRange
    <2>2. \A a \in Range(Addresses(records)) : IsKey(a)
        BY <2>1, SoundIdentities
    <2>3. \A r \in Range(records) : r.address \in Range(Addresses(records))
        BY DEF Range, Addresses
    <2>4. QED
        BY <2>2, <2>3 DEF KeysOf
<1>2. QED
    BY <1>1, PartWords DEF Keyed

LEMMA SoundPartsHaveOneParent ==
    ASSUME doc \in BodyDocument, Contract!IdentitySound(doc) PROVE OneParent(doc)
<1>1. ASSUME NEW a, NEW p, NEW q, Contract!IsParent(doc, p, a), Contract!IsParent(doc, q, a)
      PROVE  p = q
    <2>1. PICK i \in DOMAIN doc.parts : doc.parts[i].address = a /\ doc.parts[i].parent = p
        BY <1>1, PartWords
    <2>2. PICK j \in DOMAIN doc.parts : doc.parts[j].address = a /\ doc.parts[j].parent = q
        BY <1>1, PartWords
    <2>3. i = j
        BY <2>1, <2>2, SoundIdentities
    <2>4. QED
        BY <2>1, <2>2, <2>3
<1>2. ASSUME NEW a, NEW p, Contract!IsRoot(doc, a), Contract!IsParent(doc, p, a)
      PROVE  FALSE
    <2>1. PICK i \in DOMAIN doc.parts :
                doc.parts[i].address = a /\ doc.parts[i].containment = "root"
        BY <1>2, PartWords
    <2>2. PICK j \in DOMAIN doc.parts : doc.parts[j].address = a /\ Parented(doc.parts[j])
        BY <1>2, PartWords
    <2>3. i = j
        BY <2>1, <2>2, SoundIdentities
    <2>4. QED
        BY <2>1, <2>2, <2>3 DEF Parented
<1>3. QED
    BY <1>1, <1>2, Zenon DEF OneParent

LEMMA SoundSocketsHaveOneOwner ==
    ASSUME doc \in BodyDocument, Contract!IdentitySound(doc),
           NEW s, NEW p, NEW q, Contract!SocketOwnedBy(doc, s, p), Contract!SocketOwnedBy(doc, s, q)
    PROVE  p = q
<1>1. PICK i \in DOMAIN doc.sockets : doc.sockets[i].address = s /\ doc.sockets[i].owner = p
    BY SocketWords
<1>2. PICK j \in DOMAIN doc.sockets : doc.sockets[j].address = s /\ doc.sockets[j].owner = q
    BY SocketWords
<1>3. i = j
    BY <1>1, <1>2, SoundIdentities
<1>4. QED
    BY <1>1, <1>2, <1>3

-----------------------------------------------------------------------------
(* check_attachments' two maps, where addresses are sound.                 *)

LEMMA ContainmentParentIsParent ==
    ASSUME doc \in BodyDocument, Contract!IdentitySound(doc), Contract!ContainmentSound(doc)
    PROVE  \A a, q : (a \in DOMAIN ContainmentParent /\ ContainmentParent[a] = q)
                        <=> Contract!IsParent(doc, q, a)
<1> DEFINE from == {i \in DOMAIN doc.parts :
                      /\ Parented(doc.parts[i]) /\ IsKey(doc.parts[i].address)
                      /\ IsKey(doc.parts[i].parent)}
<1>1. ContainmentParent = ParentMap(doc.parts, from)
    BY DEF ContainmentParent
<1>2. doc.parts \in Seq(Part) /\ from \in SUBSET DOMAIN doc.parts
    BY DocumentTypes
<1>3. \A m, n \in DOMAIN doc.parts : doc.parts[m].address = doc.parts[n].address => m = n
    BY SoundIdentities
<1>4. ASSUME NEW i \in DOMAIN doc.parts, Parented(doc.parts[i]) PROVE i \in from
    <2>1. doc.parts[i] \in Range(doc.parts) /\ doc.parts[i] \in Contract!Range(doc.parts)
        BY DEF Range, Contract!Range
    <2>2. doc.parts[i].parent \in Contract!PartAddresses(doc)
        BY <1>4, <2>1, SameVocabulary DEF Contract!ContainmentSound
    <2>3. doc.parts[i].parent \in Range(AllAddresses)
        BY <2>2, PartWords, AllAddressesRange
    <2>4. IsKey(doc.parts[i].parent) /\ IsKey(doc.parts[i].address)
        BY <2>1, <2>3, SoundIdentities, SoundCollections
    <2>5. QED
        BY <1>4, <2>4
<1> HIDE DEF from
<1>5. ASSUME NEW a \in DOMAIN ContainmentParent
      PROVE  Contract!IsParent(doc, ContainmentParent[a], a)
    <2>1. PICK i \in from : /\ Parented(doc.parts[i]) /\ doc.parts[i].address = a
                            /\ ContainmentParent[a] = doc.parts[i].parent
        BY <1>1, <1>2, ParentMapHoldsALink
    <2>2. QED
        BY <1>2, <2>1, PartWords
<1>6. ASSUME NEW a, NEW q, Contract!IsParent(doc, q, a)
      PROVE  a \in DOMAIN ContainmentParent /\ ContainmentParent[a] = q
    <2>1. PICK i \in DOMAIN doc.parts : /\ doc.parts[i].address = a /\ Parented(doc.parts[i])
                                        /\ doc.parts[i].parent = q
        BY <1>6, PartWords
    <2>2. QED
        BY <1>1, <1>2, <1>3, <1>4, <2>1, ParentMapIsLinks
<1>7. QED
    BY <1>5, <1>6

LEMMA SocketOwnerIsOwner ==
    ASSUME doc \in BodyDocument, Contract!IdentitySound(doc), Contract!SocketsSound(doc)
    PROVE  \A s, p : (s \in DOMAIN SocketOwner /\ SocketOwner[s] = p)
                        <=> Contract!SocketOwnedBy(doc, s, p)
<1>1. doc.sockets \in Seq(Socket)
    BY DocumentTypes
<1>2. \A m, n \in DOMAIN doc.sockets : doc.sockets[m].address = doc.sockets[n].address => m = n
    BY SoundIdentities
<1>3. ASSUME NEW i \in DOMAIN doc.sockets
      PROVE  IsKey(doc.sockets[i].address) /\ IsKey(doc.sockets[i].owner)
    <2>1. doc.sockets[i] \in Range(doc.sockets) /\ doc.sockets[i] \in Contract!Range(doc.sockets)
        BY DEF Range, Contract!Range
    <2>2. doc.sockets[i].owner \in Range(AllAddresses)
        BY <2>1, PartWords, AllAddressesRange DEF Contract!SocketsSound
    <2>3. QED
        BY <2>1, <2>2, SoundIdentities, SoundCollections
<1>4. ASSUME NEW s \in DOMAIN SocketOwner PROVE Contract!SocketOwnedBy(doc, s, SocketOwner[s])
    BY <1>1, OwnerMapHoldsAnOwner, SocketWords DEF SocketOwner
<1>5. ASSUME NEW s, NEW p, Contract!SocketOwnedBy(doc, s, p)
      PROVE  s \in DOMAIN SocketOwner /\ SocketOwner[s] = p
    <2>1. PICK i \in DOMAIN doc.sockets : doc.sockets[i].address = s /\ doc.sockets[i].owner = p
        BY <1>5, SocketWords
    <2>2. QED
        BY <1>1, <1>2, <1>3, <2>1, OwnerMapIsOwners DEF SocketOwner
<1>6. QED
    BY <1>4, <1>5

(* is_part_in_containment_subtree answers whether the candidate lies at or *)
(* below the root: what the climb never leaves and what the tree never     *)
(* leaves are complements.                                                 *)
LEMMA SubtreeIsBelow ==
    ASSUME doc \in BodyDocument, Contract!IdentitySound(doc), Contract!ContainmentSound(doc),
           NEW root \in Contract!PartAddresses(doc), NEW b \in Contract!PartAddresses(doc)
    PROVE  InContainmentSubtree(b, root, ContainmentParent) <=> b \in Contract!Below(doc, root)
<1> DEFINE parts == Contract!PartAddresses(doc)
           parent == ContainmentParent
           chain == DOMAIN parent \cup Range(parent) \cup {b}
<1>1. \A a, q : (a \in DOMAIN parent /\ parent[a] = q) <=> Contract!IsParent(doc, q, a)
    BY ContainmentParentIsParent
<1>2. \A a, q : Contract!IsParent(doc, q, a) => a \in parts /\ q \in parts
    <2> SUFFICES ASSUME NEW a, NEW q, Contract!IsParent(doc, q, a) PROVE a \in parts /\ q \in parts
        OBVIOUS
    <2>1. PICK i \in DOMAIN doc.parts : /\ doc.parts[i].address = a /\ Parented(doc.parts[i])
                                        /\ doc.parts[i].parent = q
        BY PartWords
    <2>2. doc.parts[i] \in Contract!Range(doc.parts)
        BY <2>1 DEF Contract!Range
    <2>3. q \in parts
        BY <2>1, <2>2, SameVocabulary DEF Contract!ContainmentSound
    <2>4. QED
        BY <2>1, <2>3, PartWords
<1>3. chain \subseteq parts
    BY <1>1, <1>2 DEF Range
<1>4. ASSUME InContainmentSubtree(b, root, parent) PROVE b \in Contract!Below(doc, root)
    <2>1. ASSUME NEW T \in SUBSET parts, root \in T,
                 \A a \in parts, q \in T : Contract!IsParent(doc, q, a) => a \in T, b \notin T
          PROVE  FALSE
        <3> DEFINE S == chain \ T
        <3>1. S \in SUBSET chain /\ b \in S
            BY <2>1
        <3>2. UpwardClosed(S, parent)
            <4>1. ASSUME NEW k \in S \cap DOMAIN parent PROVE parent[k] \in S
                <5>1. Contract!IsParent(doc, parent[k], k) /\ k \in parts
                    BY <1>1, <1>2
                <5>2. parent[k] \notin T
                    BY <2>1, <5>1
                <5>3. parent[k] \in chain
                    BY DEF Range
                <5>4. QED
                    BY <5>2, <5>3
            <4>2. QED
                BY <4>1, Zenon DEF UpwardClosed
        <3>3. root \in S
            <4> HIDE DEF S
            <4>1. QED
                BY <1>4, <3>1, <3>2, Zenon DEF InContainmentSubtree
        <3>4. QED
            BY <2>1, <3>3
    <2>2. QED
        BY <2>1 DEF Contract!Below
<1>5. ASSUME b \in Contract!Below(doc, root) PROVE InContainmentSubtree(b, root, parent)
    <2>1. ASSUME NEW S \in SUBSET chain, b \in S, UpwardClosed(S, parent), root \notin S
          PROVE  FALSE
        <3> DEFINE T == parts \ S
        <3>1. root \in T
            BY <2>1
        <3>2. ASSUME NEW a \in parts, NEW q \in T, Contract!IsParent(doc, q, a) PROVE a \in T
            <4>1. a \in DOMAIN parent /\ parent[a] = q
                BY <1>1, <3>2
            <4>2. a \notin S
                BY <2>1, <3>2, <4>1 DEF UpwardClosed
            <4>3. QED
                BY <4>2
        <3>3. Contract!Below(doc, root) \subseteq T
            <4> HIDE DEF T
            <4>1. QED
                BY <3>1, <3>2, BelowIsLeast
        <3>4. QED
            BY <1>5, <2>1, <3>3
    <2>2. QED
        BY <2>1, Zenon DEF InContainmentSubtree
<1>6. QED
    BY <1>4, <1>5

(* The relation the two loops over module roots compute is the contract's. *)
LEMMA MatchesIsJoins ==
    ASSUME doc \in BodyDocument, Contract!IdentitySound(doc), Contract!ContainmentSound(doc),
           Contract!SocketsSound(doc), NEW n, NEW m,
           doc.modules[m].root \in Contract!PartAddresses(doc)
    PROVE  Matches(n, m) <=> Contract!Joins(doc, n, m)
<1> DEFINE host == doc.attachments[n].host
           mating == doc.attachments[n].mating
           root == doc.modules[m].root
<1>1. \A s, p : (s \in DOMAIN SocketOwner /\ SocketOwner[s] = p) <=> Contract!SocketOwnedBy(doc, s, p)
    BY SocketOwnerIsOwner
<1>2. \A a, q : (a \in DOMAIN ContainmentParent /\ ContainmentParent[a] = q)
                    <=> Contract!IsParent(doc, q, a)
    BY ContainmentParentIsParent
<1>3. \A s, p : Contract!SocketOwnedBy(doc, s, p) => p \in Contract!PartAddresses(doc)
    <2> SUFFICES ASSUME NEW s, NEW p, Contract!SocketOwnedBy(doc, s, p)
                 PROVE  p \in Contract!PartAddresses(doc)
        OBVIOUS
    <2>1. QED
        BY DEF Contract!SocketOwnedBy, Contract!SocketsSound
<1>4. Matches(n, m) <=> HostedByParent(n, root) /\ MatesInto(n, root)
    BY DEF Matches
<1>5. HostedByParent(n, root)
        <=> \E q \in Contract!PartAddresses(doc) :
                Contract!IsParent(doc, q, root) /\ Contract!SocketOwnedBy(doc, host, q)
    <2> HIDE DEF host, root
    <2>1. HostedByParent(n, root) <=> /\ root \in DOMAIN ContainmentParent
                                      /\ host \in DOMAIN SocketOwner
                                      /\ SocketOwner[host] = ContainmentParent[root]
        BY DEF HostedByParent, host
    <2>2. QED
        BY <1>1, <1>2, <1>3, <2>1
<1>6. MatesInto(n, root)
        <=> \E b \in Contract!Below(doc, root) : Contract!SocketOwnedBy(doc, mating, b)
    <2>1. root \in Contract!PartAddresses(doc)
        OBVIOUS
    <2> HIDE DEF mating, root
    <2>2. MatesInto(n, root)
            <=> /\ mating \in DOMAIN SocketOwner
                /\ InContainmentSubtree(SocketOwner[mating], root, ContainmentParent)
        BY DEF MatesInto, mating
    <2>3. mating \in DOMAIN SocketOwner
            => (InContainmentSubtree(SocketOwner[mating], root, ContainmentParent)
                    <=> SocketOwner[mating] \in Contract!Below(doc, root))
        BY <1>1, <1>3, <2>1, SubtreeIsBelow
    <2>4. QED
        BY <1>1, <2>2, <2>3
<1>7. Contract!Joins(doc, n, m)
        <=> /\ \E q \in Contract!PartAddresses(doc) :
                    Contract!IsParent(doc, q, root) /\ Contract!SocketOwnedBy(doc, host, q)
            /\ \E b \in Contract!Below(doc, root) : Contract!SocketOwnedBy(doc, mating, b)
    BY Zenon DEF Contract!Joins
<1>8. QED
    BY <1>4, <1>5, <1>6, <1>7

-----------------------------------------------------------------------------
(* The checking passes, once the maps are filled: a pass finds nothing     *)
(* exactly when its part of the contract holds.                            *)

MapsFilled ==
    /\ identities = AllKeys
    /\ partKeys = KeysOf(doc.parts) /\ socketKeys = KeysOf(doc.sockets)
    /\ framesSeen = RoleKeys(doc.frames)

LEMMA SilentWhen ==
    ASSUME NEW c \in BOOLEAN, NEW d PROVE When(c, d) = {} <=> ~c
    BY DEF When

LEMMA SoundIdentityRequired ==
    ASSUME doc \in BodyDocument, Contract!IdentitySound(doc), MapsFilled, NEW a
    PROVE  RequireIdentity(a) = {} <=> Contract!Identity(doc, a)
<1>1. Contract!Identity(doc, a) <=> a \in Range(AllAddresses)
    BY SameAddresses, SameVocabulary DEF Contract!Identity
<1>2. AllKeys = Range(AllAddresses)
    BY SoundIdentities
<1>3. ASSUME RequireIdentity(a) = {} PROVE a \in Range(AllAddresses)
    BY <1>2, <1>3, IdentityRequired DEF IdentityResolves, MapsFilled
<1>4. ASSUME a \in Range(AllAddresses) PROVE RequireIdentity(a) = {}
    <2>1. IsKey(a) /\ a.namespace = doc.source.namespace /\ a \in identities
        BY <1>2, <1>4, SoundIdentities DEF MapsFilled
    <2>2. QED
        BY <2>1 DEF RequireIdentity, When
<1>5. QED
    BY <1>1, <1>3, <1>4

LEMMA SoundKeyRequired ==
    ASSUME doc \in BodyDocument, Contract!IdentitySound(doc), MapsFilled, NEW kind,
           NEW keys \in SUBSET Range(AllAddresses), \A k \in keys : k.kind = kind, NEW a
    PROVE  /\ RequireKey(a, kind, keys) = {} <=> a \in keys
           /\ KeyResolves(a, kind, keys) <=> a \in keys
<1>1. ASSUME a \in keys PROVE RequireIdentity(a) = {}
    <2>1. Contract!Identity(doc, a)
        BY <1>1, SameAddresses, SameVocabulary DEF Contract!Identity
    <2>2. QED
        BY <2>1, SoundIdentityRequired
<1>2. ASSUME a \in keys PROVE RequireKey(a, kind, keys) = {} /\ KeyResolves(a, kind, keys)
    <2>1. RequireIdentity(a) = {} /\ a.kind = kind
        BY <1>1, <1>2
    <2>2. IdentityResolves(a)
        BY <2>1, IdentityRequired
    <2>3. QED
        BY <1>2, <2>1, <2>2 DEF RequireKey, When, KeyResolves
<1>3. QED
    BY <1>2, KeyRequired DEF KeyResolves

LEMMA SoundPartRequired ==
    ASSUME doc \in BodyDocument, Contract!IdentitySound(doc), MapsFilled, NEW a
    PROVE  /\ RequirePart(a) = {} <=> a \in Contract!PartAddresses(doc)
           /\ PartResolves(a) <=> a \in Contract!PartAddresses(doc)
<1>1. partKeys = Contract!PartAddresses(doc) /\ partKeys \subseteq Range(AllAddresses)
    BY SoundCollections, PartWords, AllAddressesRange DEF MapsFilled
<1>2. \A k \in partKeys : k.kind = "part"
    BY <1>1, PartWords DEF Contract!IdentitySound, Contract!OfKind, Contract!Range
<1>3. QED
    BY <1>1, <1>2, SoundKeyRequired DEF RequirePart, PartResolves

LEMMA SoundSocketRequired ==
    ASSUME doc \in BodyDocument, Contract!IdentitySound(doc), MapsFilled, NEW a
    PROVE  /\ RequireSocket(a) = {} <=> a \in Range(Addresses(doc.sockets))
           /\ SocketResolves(a) <=> a \in Range(Addresses(doc.sockets))
<1>1. socketKeys = Range(Addresses(doc.sockets)) /\ socketKeys \subseteq Range(AllAddresses)
    BY SoundCollections, AllAddressesRange DEF MapsFilled
<1>2. \A k \in socketKeys : k.kind = "socket"
    <2>1. \A k \in socketKeys : \E s \in Contract!Range(doc.sockets) : s.address = k
        BY <1>1 DEF Range, Contract!Range, Addresses
    <2>2. QED
        BY <2>1 DEF Contract!IdentitySound, Contract!OfKind
<1>3. QED
    BY <1>1, <1>2, SoundKeyRequired DEF RequireSocket, SocketResolves

(* check_modules *)
LEMMA ModulesJudged ==
    ASSUME doc \in BodyDocument, Contract!IdentitySound(doc), DeclarationsSound(doc), MapsFilled
    PROVE  ModuleDiags = {} <=> Contract!ModulesSound(doc)
<1> DEFINE Sound(m) == /\ m.fields \in Identifiers
                       /\ m.presence = "present" => m.root \in Contract!PartAddresses(doc)
                       /\ m.presence = "absent" => m.root = NoAddress /\ m.optional
<1>1. ASSUME NEW m \in Range(doc.modules) PROVE ModuleDiagsOf(m) = {} <=> Sound(m)
    <2>1. m \in Module
        BY DocumentTypes, RangeOfRecords
    <2>2. m.presence \in {"present", "absent"} /\ m.optional \in BOOLEAN
        BY <2>1 DEF Module
    <2>3. NoAddress \notin Contract!PartAddresses(doc)
        <3>1. Contract!PartAddresses(doc) \subseteq Address
            BY PartWords, CollectionAddresses, RangeOfRecords
        <3>2. QED
            BY <3>1, NoAddressAssumption
    <2> DEFINE presence ==
            CASE m.presence = "absent" /\ m.root # NoAddress ->
                    {Diag("absent-module-has-root", AddressOrNone(m.root))}
              [] m.presence = "absent" /\ m.root = NoAddress ->
                    When(~m.optional, Unlocated("absent-module-flags"))
              [] m.presence = "present" /\ m.root = NoAddress ->
                    {Unlocated("present-module-missing-root")}
              [] m.presence = "present" /\ m.root # NoAddress -> RequirePart(m.root)
    <2>4. presence = {} <=> /\ m.presence = "present" => m.root \in Contract!PartAddresses(doc)
                            /\ m.presence = "absent" => m.root = NoAddress /\ m.optional
        <3>1. CASE m.presence = "absent" /\ m.root # NoAddress
            BY <3>1
        <3>2. CASE m.presence = "absent" /\ m.root = NoAddress
            BY <2>2, <3>2 DEF When
        <3>3. CASE m.presence = "present" /\ m.root = NoAddress
            BY <2>3, <3>3
        <3>4. CASE m.presence = "present" /\ m.root # NoAddress
            <4>1. presence = RequirePart(m.root)
                BY <3>4
            <4>2. QED
                BY <3>4, <4>1, SoundPartRequired
        <3>5. QED
            BY <2>2, <3>1, <3>2, <3>3, <3>4
    <2>5. ModuleDiagsOf(m)
            = When(m.fields \notin Identifiers, Unlocated("module-field-invalid")) \cup presence
        BY DEF ModuleDiagsOf
    <2> HIDE DEF presence
    <2>6. QED
        BY <2>4, <2>5, SilentWhen
<1>2. ModuleDiags = {} <=> \A m \in Range(doc.modules) : ModuleDiagsOf(m) = {}
    BY DEF ModuleDiags
<1>3. ModuleDiags = {} <=> \A m \in Range(doc.modules) : Sound(m)
    BY <1>1, <1>2
<1>4. Contract!ModulesSound(doc) <=> \A m \in Range(doc.modules) : Sound(m)
    BY SameVocabulary, Zenon DEF Contract!ModulesSound, DeclarationsSound
<1>5. QED
    BY <1>3, <1>4

(* check_sockets *)
LEMMA SocketsJudged ==
    ASSUME doc \in BodyDocument, Contract!IdentitySound(doc), MapsFilled
    PROVE  SocketDiags = {} <=> Contract!SocketsSound(doc)
<1>1. Keyed(doc.sockets) = Range(doc.sockets) /\ Contract!Range(doc.sockets) = Range(doc.sockets)
    BY SoundCollections, SameVocabulary
<1>2. ASSUME NEW s \in Range(doc.sockets)
      PROVE  SocketDiagsOf(s) = {} <=> s.owner \in Contract!PartAddresses(doc)
    <2>1. s.owner \in Contract!PartAddresses(doc) => s.owner.kind = "part"
        BY PartWords DEF Contract!IdentitySound, Contract!OfKind, Contract!Range
    <2>2. QED
        BY <2>1, SoundPartRequired DEF SocketDiagsOf, When
<1>3. SocketDiags = {} <=> \A s \in Keyed(doc.sockets) : SocketDiagsOf(s) = {}
    BY DEF SocketDiags
<1>4. QED
    BY <1>1, <1>2, <1>3 DEF Contract!SocketsSound

(* check_joints *)
LEMMA JointsJudged ==
    ASSUME doc \in BodyDocument, Contract!IdentitySound(doc), MapsFilled
    PROVE  JointDiags = {} <=> Contract!JointsSound(doc)
<1>1. Keyed(doc.joints) = Range(doc.joints) /\ Contract!Range(doc.joints) = Range(doc.joints)
    BY SoundCollections, SameVocabulary
<1>2. ASSUME NEW a \in Contract!PartAddresses(doc), NEW q
      PROVE  Contract!IsParent(doc, q, a) <=> Parented(PartRecord(a)) /\ PartRecord(a).parent = q
    <2>1. PICK i \in DOMAIN doc.parts : doc.parts[i].address = a
        BY PartWords
    <2>2. \A j \in DOMAIN doc.parts : doc.parts[j].address = a => j = i
        BY <2>1, SoundIdentities
    <2>3. {j \in DOMAIN doc.parts : doc.parts[j].address = a} = {i}
        BY <2>1, <2>2
    <2>4. i \in Nat
        BY DocumentTypes
    <2>5. PartRecord(a) = doc.parts[i]
        BY <2>3, <2>4, MinOfSingleton DEF PartRecord
    <2>6. QED
        BY <2>1, <2>2, <2>5, PartWords
<1>3. ASSUME NEW j
      PROVE  JointDiagsOf(j) = {} <=> /\ {j.proximal, j.distal} \subseteq Contract!PartAddresses(doc)
                                      /\ j.proximal # j.distal
                                      /\ Contract!IsParent(doc, j.proximal, j.distal)
    <2> DEFINE hung == Parented(PartRecord(j.distal)) /\ PartRecord(j.distal).parent = j.proximal
    <2>1. /\ RequirePart(j.proximal) = {} <=> j.proximal \in Contract!PartAddresses(doc)
          /\ RequirePart(j.distal) = {} <=> j.distal \in Contract!PartAddresses(doc)
          /\ PartResolves(j.proximal) <=> j.proximal \in Contract!PartAddresses(doc)
          /\ PartResolves(j.distal) <=> j.distal \in Contract!PartAddresses(doc)
        BY SoundPartRequired
    <2>2. j.distal \in Contract!PartAddresses(doc)
            => (Contract!IsParent(doc, j.proximal, j.distal) <=> hung)
        BY <1>2
    <2> HIDE DEF hung
    <2>3. JointDiagsOf(j) = {}
            <=> /\ RequirePart(j.proximal) = {}
                /\ (IF PartResolves(j.proximal) THEN RequirePart(j.distal) ELSE {}) = {}
                /\ ~(/\ PartResolves(j.proximal) /\ PartResolves(j.distal)
                     /\ j.proximal = j.distal)
                /\ ~(PartResolves(j.proximal) /\ PartResolves(j.distal) /\ ~hung)
        BY DEF JointDiagsOf, When, hung
    <2>4. QED
        BY <2>1, <2>2, <2>3
<1>4. JointDiags = {} <=> \A j \in Keyed(doc.joints) : JointDiagsOf(j) = {}
    BY DEF JointDiags
<1>5. QED
    BY <1>1, <1>3, <1>4 DEF Contract!JointsSound

(* check_owned_references, where the owner records are sound *)

LEMMA OwnedRoles ==
    ASSUME NEW T, NEW records \in Seq(T), RolesSound(records)
    PROVE  /\ Contract!Distinct([i \in DOMAIN records |-> OwnerRoleOf(records[i])])
           /\ \A r \in Range(records) : IsOwnerRoleKey(r)
           /\ \A o : o \in Range(OwnerRoles(records))
                        <=> \E r \in Range(records) : o = OwnerRoleOf(r)
<1>1. Contract!Distinct([i \in DOMAIN records |-> OwnerRoleOf(records[i])])
    BY Zenon DEF RolesSound, OwnerRoles
<1>2. \A o : o \in Range(OwnerRoles(records)) <=> \E r \in Range(records) : o = OwnerRoleOf(r)
    BY DEF Range, OwnerRoles
<1>3. ASSUME NEW r \in Range(records) PROVE IsOwnerRoleKey(r)
    <2>1. IsOwnerRoleKey(OwnerRoleOf(r))
        BY <1>2 DEF RolesSound, RoleKeys
    <2>2. QED
        BY <2>1 DEF IsOwnerRoleKey, OwnerRoleOf
<1>4. QED
    BY <1>1, <1>2, <1>3

LEMMA SoundFrameRequired ==
    ASSUME doc \in BodyDocument, Contract!IdentitySound(doc), OwnersSound, MapsFilled, NEW f
    PROVE  RequireFrame(f) = {} => Contract!FrameExists(doc, f)
<1>1. ASSUME RequireFrame(f) = {} PROVE OwnerRoleOf(f) \in Range(OwnerRoles(doc.frames))
    BY <1>1, FrameRequired DEF MapsFilled, RoleKeys
<1>2. \A r \in Range(doc.frames) : OwnerRoleOf(r) = r
    <2>1. \A r \in Range(doc.frames) : r \in OwnerRole
        BY DocumentTypes, RangeOfRecords
    <2>2. QED
        BY <2>1 DEF OwnerRole, OwnerRoleOf
<1>3. \A o : o \in Range(OwnerRoles(doc.frames)) <=> \E r \in Range(doc.frames) : o = OwnerRoleOf(r)
    BY DEF Range, OwnerRoles
<1>4. QED
    BY <1>1, <1>2, <1>3, SameVocabulary DEF Contract!FrameExists

LEMMA ExistingFrameRequired ==
    ASSUME doc \in BodyDocument, Contract!IdentitySound(doc), OwnersSound, MapsFilled, NEW f,
           Contract!FrameExists(doc, f), Contract!OwnerRecordsSound(doc, doc.frames)
    PROVE  RequireFrame(f) = {}
<1>1. PICK r \in Range(doc.frames) : r = OwnerRoleOf(f)
    BY SameVocabulary DEF Contract!FrameExists
<1>2. IsOwnerRoleKey(r) /\ Contract!Identity(doc, r.owner)
    BY <1>1, SameVocabulary DEF Contract!OwnerRecordsSound
<1>3. r \in OwnerRole
    BY DocumentTypes, RangeOfRecords
<1>4. r.owner = f.owner /\ r.role = f.role /\ OwnerRoleOf(r) = r
    BY <1>1, <1>3 DEF OwnerRoleOf, OwnerRole
<1>5. RequireIdentity(f.owner) = {} /\ IdentityResolves(f.owner)
    BY <1>2, <1>4, SoundIdentityRequired, IdentityRequired
<1>6. IsOwnerRoleKey(f)
    BY <1>2, <1>4 DEF IsOwnerRoleKey
<1>7. OwnerRoleOf(f) \in framesSeen
    <2>1. r \in Range(OwnerRoles(doc.frames))
        <3>1. PICK i \in DOMAIN doc.frames : doc.frames[i] = r
            BY DEF Range
        <3>2. i \in DOMAIN OwnerRoles(doc.frames) /\ OwnerRoles(doc.frames)[i] = r
            BY <1>4, <3>1 DEF OwnerRoles
        <3>3. QED
            BY <3>2 DEF Range
    <2>2. QED
        BY <1>1, <1>2, <2>1 DEF MapsFilled, RoleKeys
<1>8. QED
    BY <1>5, <1>6, <1>7 DEF RequireFrame, When

LEMMA ReferencesJudged ==
    ASSUME doc \in BodyDocument, Contract!IdentitySound(doc), OwnersSound, MapsFilled
    PROVE  ReferenceDiags = {} <=> Contract!ReferencesSound(doc)
<1> DEFINE parts == UNION {r.parts : r \in Keyed(doc.regions)}
           subjects == UNION {c.subjects : c \in Keyed(doc.capabilities)}
           owned == {o \in OwnedRecords : IsKey(o.owner)}
           anchored == {r \in Range(doc.landmarks) : IsKey(r.owner)}
           Framed(l) == RequireFrame(l.frame) = {}
           frames == Range(doc.landmarks) \cup Range(doc.fields)
<1>1. /\ Keyed(doc.regions) = Range(doc.regions)
      /\ Keyed(doc.capabilities) = Range(doc.capabilities)
      /\ Keyed(doc.fields) = Range(doc.fields)
    BY SoundCollections
<1>2. /\ doc.frames \in Seq(OwnerRole) /\ doc.dimensions \in Seq(OwnerRole)
      /\ doc.landmarks \in Seq(Landmark)
    BY DocumentTypes
<1>3. \A records \in {doc.landmarks, doc.dimensions, doc.frames} :
        /\ Contract!Distinct([i \in DOMAIN records |-> OwnerRoleOf(records[i])])
        /\ \A r \in Range(records) : IsOwnerRoleKey(r)
        /\ \A o : o \in Range(OwnerRoles(records)) <=> \E r \in Range(records) : o = OwnerRoleOf(r)
    BY <1>2, OwnedRoles DEF OwnersSound
<1>4. anchored = Range(doc.landmarks)
    BY <1>3 DEF IsOwnerRoleKey
<1>5. (\A o \in owned : RequireIdentity(o.owner) = {})
        <=> \A r \in Range(doc.landmarks) \cup Range(doc.dimensions) \cup Range(doc.frames) :
                Contract!Identity(doc, r.owner)
    <2>1. \A o : o \in owned
            <=> \E r \in Range(doc.landmarks) \cup Range(doc.dimensions) \cup Range(doc.frames) :
                    o = OwnerRoleOf(r)
        <3>1. \A o : o \in OwnedRecords
                <=> \E r \in Range(doc.landmarks) \cup Range(doc.dimensions) \cup Range(doc.frames) :
                        o = OwnerRoleOf(r)
            BY <1>3 DEF OwnedRecords
        <3>2. \A r \in Range(doc.landmarks) \cup Range(doc.dimensions) \cup Range(doc.frames) :
                IsKey(OwnerRoleOf(r).owner)
            BY <1>3 DEF IsOwnerRoleKey, OwnerRoleOf
        <3>3. QED
            BY <3>1, <3>2
    <2>2. \A r : OwnerRoleOf(r).owner = r.owner
        BY DEF OwnerRoleOf
    <2> HIDE DEF owned
    <2>3. QED
        BY <2>1, <2>2, SoundIdentityRequired
<1>6. ReferenceDiags = {}
        <=> /\ \A a \in parts : RequirePart(a) = {}
            /\ \A a \in subjects : RequireIdentity(a) = {}
            /\ \A o \in owned : RequireIdentity(o.owner) = {}
            /\ \A l \in anchored : RequireFrame(l.frame) = {}
            /\ \A f \in Keyed(doc.fields) : RequireIdentity(f.owner) \cup RequireFrame(f.frame) = {}
    <2> HIDE DEF parts, subjects, owned, anchored
    <2> DEFINE ofParts == UNION {RequirePart(a) : a \in parts}
               ofSubjects == UNION {RequireIdentity(a) : a \in subjects}
               ofOwners == UNION {RequireIdentity(r.owner) : r \in owned}
               ofAnchored == UNION {RequireFrame(l.frame) : l \in anchored}
               ofFields == UNION {RequireIdentity(f.owner) \cup RequireFrame(f.frame) :
                                    f \in Keyed(doc.fields)}
    <2>1. ReferenceDiags = ofParts \cup ofSubjects \cup ofOwners \cup ofAnchored \cup ofFields
        BY Zenon DEF ReferenceDiags, parts, subjects, owned, anchored
    <2>2. ofParts = {} <=> \A a \in parts : RequirePart(a) = {}
        OBVIOUS
    <2>3. ofSubjects = {} <=> \A a \in subjects : RequireIdentity(a) = {}
        OBVIOUS
    <2>4. ofOwners = {} <=> \A o \in owned : RequireIdentity(o.owner) = {}
        OBVIOUS
    <2>5. ofAnchored = {} <=> \A l \in anchored : RequireFrame(l.frame) = {}
        OBVIOUS
    <2>6. ofFields = {}
            <=> \A f \in Keyed(doc.fields) : RequireIdentity(f.owner) \cup RequireFrame(f.frame) = {}
        OBVIOUS
    <2> HIDE DEF ofParts, ofSubjects, ofOwners, ofAnchored, ofFields
    <2>7. QED
        BY <2>1, <2>2, <2>3, <2>4, <2>5, <2>6
<1>7. ReferenceDiags = {}
        <=> /\ \A a \in parts : a \in Contract!PartAddresses(doc)
            /\ \A a \in subjects : Contract!Identity(doc, a)
            /\ \A r \in Range(doc.landmarks) \cup Range(doc.dimensions) \cup Range(doc.frames) :
                    Contract!Identity(doc, r.owner)
            /\ \A f \in Range(doc.fields) : Contract!Identity(doc, f.owner)
            /\ \A r \in frames : Framed(r)
    <2> HIDE DEF parts, subjects, owned
    <2>1. QED
        BY <1>1, <1>4, <1>5, <1>6, SoundPartRequired, SoundIdentityRequired
<1>8. Contract!ReferencesSound(doc)
        <=> /\ \A r \in Range(doc.regions) : r.parts \subseteq Contract!PartAddresses(doc)
            /\ \A c \in Range(doc.capabilities) : \A a \in c.subjects : Contract!Identity(doc, a)
            /\ \A r \in Range(doc.landmarks) \cup Range(doc.dimensions) \cup Range(doc.frames) :
                    Contract!Identity(doc, r.owner)
            /\ \A f \in Range(doc.fields) : Contract!Identity(doc, f.owner)
            /\ \A r \in frames : Contract!FrameExists(doc, r.frame)
    <2>1. \A records \in {doc.landmarks, doc.dimensions, doc.frames} :
            Contract!OwnerRecordsSound(doc, records)
                <=> \A r \in Range(records) : Contract!Identity(doc, r.owner)
        <3>1. SUFFICES ASSUME NEW records \in {doc.landmarks, doc.dimensions, doc.frames}
                       PROVE  Contract!OwnerRecordsSound(doc, records)
                                <=> \A r \in Range(records) : Contract!Identity(doc, r.owner)
            OBVIOUS
        <3>2. Contract!Distinct([i \in DOMAIN records |-> Contract!OwnerRoleOf(records[i])])
            BY <1>3, Zenon DEF Contract!OwnerRoleOf, OwnerRoleOf
        <3>3. QED
            BY <1>3, <3>2, SameVocabulary, Zenon DEF Contract!OwnerRecordsSound
    <2>2. QED
        BY <2>1, SameVocabulary DEF Contract!ReferencesSound
<1>9. (\A a \in parts : a \in Contract!PartAddresses(doc))
        <=> \A r \in Range(doc.regions) : r.parts \subseteq Contract!PartAddresses(doc)
    BY <1>1
<1>10. (\A a \in subjects : Contract!Identity(doc, a))
        <=> \A c \in Range(doc.capabilities) : \A a \in c.subjects : Contract!Identity(doc, a)
    BY <1>1
<1>11. ASSUME \A r \in Range(doc.frames) : Contract!Identity(doc, r.owner)
       PROVE  Contract!OwnerRecordsSound(doc, doc.frames)
    <2>1. Contract!Distinct([i \in DOMAIN doc.frames |-> Contract!OwnerRoleOf(doc.frames[i])])
        BY <1>3, Zenon DEF Contract!OwnerRoleOf, OwnerRoleOf
    <2>2. QED
        BY <1>3, <1>11, <2>1, SameVocabulary, Zenon DEF Contract!OwnerRecordsSound
<1>12. ASSUME \A r \in Range(doc.frames) : Contract!Identity(doc, r.owner)
       PROVE  (\A r \in frames : Framed(r)) <=> \A r \in frames : Contract!FrameExists(doc, r.frame)
    <2>1. \A f : RequireFrame(f) = {} <=> Contract!FrameExists(doc, f)
        BY <1>11, <1>12, SoundFrameRequired, ExistingFrameRequired
    <2>2. QED
        BY <2>1
<1> HIDE DEF parts, subjects, owned, anchored, Framed, frames
<1>13. QED
    BY <1>7, <1>8, <1>9, <1>10, <1>12

(* check_attachments *)

LEMMA CrowdedSet ==
    ASSUME NEW S, IsFiniteSet(S) PROVE Cardinality(S) > 1 <=> \E x, y \in S : x # y
<1>1. ASSUME NEW x \in S, NEW y \in S, x # y PROVE Cardinality(S) > 1
    <2>1. Cardinality({x}) = 1 /\ IsFiniteSet({x}) /\ {x} \in SUBSET S
        BY FS_Singleton
    <2>2. Cardinality({x}) <= Cardinality(S) /\ (Cardinality(S) = Cardinality({x}) => S = {x})
        BY <2>1, FS_Subset
    <2>3. S # {x} /\ Cardinality(S) \in Nat
        BY <1>1, FS_CardinalityType
    <2>4. QED
        BY <2>1, <2>2, <2>3
<1>2. ASSUME \A x, y \in S : x = y PROVE ~(Cardinality(S) > 1)
    <2>1. S = {} \/ \E x : S = {x}
        BY <1>2
    <2>2. QED
        BY <2>1, FS_EmptySet, FS_Singleton
<1>3. QED
    BY <1>1, <1>2

LEMMA FiniteCollections ==
    ASSUME doc \in BodyDocument
    PROVE  /\ IsFiniteSet(DOMAIN doc.attachments) /\ IsFiniteSet(DOMAIN doc.modules)
           /\ IsFiniteSet(DOMAIN doc.parts)
<1>1. \A T : \A s \in Seq(T) : DOMAIN s = 1..Len(s) /\ Len(s) \in Nat
    OBVIOUS
<1>2. \A T : \A s \in Seq(T) : IsFiniteSet(DOMAIN s)
    BY <1>1, FS_Interval
<1>3. QED
    BY <1>2, DocumentTypes

(* Every host and mating endpoint is a socket of the document.             *)
EndpointsResolve ==
    \A n \in DOMAIN doc.attachments :
        /\ doc.attachments[n].host \in Range(Addresses(doc.sockets))
        /\ doc.attachments[n].mating \in Range(Addresses(doc.sockets))

LEMMA AttachmentsHaveKeys ==
    ASSUME doc \in BodyDocument, Contract!IdentitySound(doc), NEW n \in DOMAIN doc.attachments
    PROVE  IsKey(doc.attachments[n].address)
<1>1. doc.attachments[n] \in Range(doc.attachments)
    BY DEF Range
<1>2. QED
    BY <1>1, SoundCollections

LEMMA EndpointReferencesJudged ==
    ASSUME doc \in BodyDocument, Contract!IdentitySound(doc), MapsFilled
    PROVE  /\ (\A n \in DOMAIN doc.attachments : SocketReferenceDiags(n) = {}) <=> EndpointsResolve
           /\ EndpointsResolve => ValidAttachments = DOMAIN doc.attachments
<1>1. \A n \in DOMAIN doc.attachments : IsKey(doc.attachments[n].address)
    BY AttachmentsHaveKeys
<1>2. ASSUME NEW n \in DOMAIN doc.attachments
      PROVE  SocketReferenceDiags(n) = {}
                <=> /\ doc.attachments[n].host \in Range(Addresses(doc.sockets))
                    /\ doc.attachments[n].mating \in Range(Addresses(doc.sockets))
    BY <1>1, SoundSocketRequired DEF SocketReferenceDiags, HostResolves
<1>3. ASSUME EndpointsResolve PROVE ValidAttachments = DOMAIN doc.attachments
    BY <1>1, <1>3, SoundSocketRequired DEF ValidAttachments, HostResolves, EndpointsResolve
<1>4. QED
    BY <1>2, <1>3, Zenon DEF EndpointsResolve

LEMMA EndpointWords ==
    ASSUME doc \in BodyDocument
    PROVE  /\ \A e \in Contract!Endpoints(doc) : Contract!EndpointSocket(doc, e) = EndpointSocket(e)
           /\ EndpointsResolve <=> \A e \in Contract!Endpoints(doc) :
                    \E s \in Contract!Range(doc.sockets) : s.address = Contract!EndpointSocket(doc, e)
<1>1. \A e \in Contract!Endpoints(doc) : Contract!EndpointSocket(doc, e) = EndpointSocket(e)
    BY DEF Contract!EndpointSocket, EndpointSocket
<1>2. \A a : a \in Range(Addresses(doc.sockets))
                <=> \E s \in Contract!Range(doc.sockets) : s.address = a
    BY DEF Range, Contract!Range, Addresses
<1>3. ASSUME EndpointsResolve, NEW e \in Contract!Endpoints(doc)
      PROVE  EndpointSocket(e) \in Range(Addresses(doc.sockets))
    <2>1. e[1] \in DOMAIN doc.attachments
        BY DEF Contract!Endpoints
    <2>2. QED
        BY <1>3, <2>1 DEF EndpointsResolve, EndpointSocket
<1>4. ASSUME \A e \in Contract!Endpoints(doc) : EndpointSocket(e) \in Range(Addresses(doc.sockets))
      PROVE  EndpointsResolve
    <2>1. ASSUME NEW n \in DOMAIN doc.attachments
          PROVE  /\ doc.attachments[n].host \in Range(Addresses(doc.sockets))
                 /\ doc.attachments[n].mating \in Range(Addresses(doc.sockets))
        <3>1. <<n, "host">> \in Contract!Endpoints(doc) /\ <<n, "mating">> \in Contract!Endpoints(doc)
            BY DEF Contract!Endpoints
        <3>2. /\ EndpointSocket(<<n, "host">>) = doc.attachments[n].host
              /\ EndpointSocket(<<n, "mating">>) = doc.attachments[n].mating
            BY DEF EndpointSocket
        <3>3. QED
            BY <1>4, <3>1, <3>2
    <2>2. QED
        BY <2>1 DEF EndpointsResolve
<1>5. QED
    BY <1>1, <1>2, <1>3, <1>4

(* Each socket carries one endpoint at most, and then no two attachments   *)
(* share their pair of endpoints and none has one endpoint twice.          *)
LEMMA EndpointsJudged ==
    ASSUME doc \in BodyDocument, Contract!IdentitySound(doc), MapsFilled
    PROVE  EndpointDiags = {}
                <=> /\ EndpointsResolve
                    /\ \A e, f \in Contract!Endpoints(doc) :
                            EndpointSocket(e) = EndpointSocket(f) => e = f
<1> DEFINE places == DOMAIN doc.attachments
           One == \A e, f \in Contract!Endpoints(doc) : EndpointSocket(e) = EndpointSocket(f) => e = f
           references == UNION {SocketReferenceDiags(n) :
                n \in {k \in places : IsKey(doc.attachments[k].address)}}
           same == {Diag("attachment-same-endpoint", doc.attachments[n].address) :
                n \in {k \in ValidAttachments : doc.attachments[k].host = doc.attachments[k].mating}}
           pairs == {Diag("attachment-endpoint-pair-duplicate", CHOOSE k \in PairKeys(n) : TRUE) :
                n \in {k \in ValidAttachments : Cardinality(PairKeys(k)) > 1}}
           crowded == {Diag("socket-capacity-exceeded", s) :
                s \in {k \in socketKeys : Cardinality(EndpointsOn(k)) > 1}}
<1>1. EndpointDiags = references \cup same \cup pairs \cup crowded
    BY Zenon DEF EndpointDiags
<1>2. references = {} <=> EndpointsResolve
    <2>1. {k \in places : IsKey(doc.attachments[k].address)} = places
        BY AttachmentsHaveKeys
    <2>2. references = {} <=> \A n \in places : SocketReferenceDiags(n) = {}
        BY <2>1
    <2>3. QED
        BY <2>2, EndpointReferencesJudged
<1>3. ASSUME EndpointsResolve PROVE crowded = {} <=> One
    <2>1. ValidAttachments \X {"host", "mating"} = Contract!Endpoints(doc)
        BY <1>3, EndpointReferencesJudged DEF Contract!Endpoints
    <2>2. IsFiniteSet(Contract!Endpoints(doc))
        <3>1. IsFiniteSet({"host"} \cup {"mating"})
            BY FS_Singleton, FS_AddElement
        <3>2. {"host"} \cup {"mating"} = {"host", "mating"}
            OBVIOUS
        <3>3. QED
            BY <3>1, <3>2, FiniteCollections, FS_Product DEF Contract!Endpoints
    <2>3. \A s : EndpointsOn(s) = {e \in Contract!Endpoints(doc) : EndpointSocket(e) = s}
        BY <2>1, Zenon DEF EndpointsOn
    <2>4. \A s : IsFiniteSet(EndpointsOn(s))
        BY <2>2, <2>3, FS_Subset
    <2>5. \A s : Cardinality(EndpointsOn(s)) > 1 <=> \E e, f \in EndpointsOn(s) : e # f
        BY <2>4, CrowdedSet
    <2>6. \A e \in Contract!Endpoints(doc) : EndpointSocket(e) \in socketKeys
        <3>1. socketKeys = Range(Addresses(doc.sockets))
            BY SoundCollections DEF MapsFilled
        <3>2. \A a : a \in Range(Addresses(doc.sockets))
                <=> \E s \in Contract!Range(doc.sockets) : s.address = a
            BY DEF Range, Contract!Range, Addresses
        <3>3. QED
            BY <1>3, <3>1, <3>2, EndpointWords
    <2>7. crowded = {} <=> \A s \in socketKeys : ~(Cardinality(EndpointsOn(s)) > 1)
        OBVIOUS
    <2> HIDE DEF crowded
    <2>8. QED
        BY <2>3, <2>5, <2>6, <2>7
<1>4. ASSUME EndpointsResolve, One PROVE same = {} /\ pairs = {}
    <2>1. ValidAttachments = places
        BY <1>4, EndpointReferencesJudged
    <2>2. ASSUME NEW n \in places
          PROVE  /\ <<n, "host">> \in Contract!Endpoints(doc)
                 /\ <<n, "mating">> \in Contract!Endpoints(doc)
                 /\ EndpointSocket(<<n, "host">>) = doc.attachments[n].host
                 /\ EndpointSocket(<<n, "mating">>) = doc.attachments[n].mating
        BY DEF Contract!Endpoints, EndpointSocket
    <2>3. ASSUME NEW n \in places PROVE doc.attachments[n].host # doc.attachments[n].mating
        <3>1. <<n, "host">> # <<n, "mating">>
            OBVIOUS
        <3>2. QED
            BY <1>4, <2>2, <3>1
    <2>4. ASSUME NEW n \in places PROVE ~(Cardinality(PairKeys(n)) > 1)
        <3>1. ASSUME NEW k \in places, doc.attachments[k].host = doc.attachments[n].host PROVE k = n
            <4>1. <<k, "host">> = <<n, "host">>
                BY <1>4, <2>2, <3>1
            <4>2. QED
                BY <4>1
        <3>2. PairKeys(n) = {doc.attachments[n].address}
            BY <2>1, <3>1 DEF PairKeys
        <3>3. Cardinality(PairKeys(n)) = 1
            BY <3>2, FS_Singleton
        <3>4. QED
            BY <3>3
    <2>5. QED
        BY <2>1, <2>3, <2>4
<1> HIDE DEF references, same, pairs, crowded, One
<1>5. EndpointDiags = {} <=> EndpointsResolve /\ One
    BY <1>1, <1>2, <1>3, <1>4
<1>6. QED
    BY <1>5 DEF One

LEMMA SameRequiredModules ==
    ASSUME doc \in BodyDocument, Contract!IdentitySound(doc), Contract!ModulesSound(doc)
    PROVE  /\ RequiredModules = Contract!RequiredModules(doc)
           /\ \A m \in RequiredModules : doc.modules[m].root \in Contract!PartAddresses(doc)
<1>1. ASSUME NEW m \in Contract!RequiredModules(doc)
      PROVE  /\ doc.modules[m].root \in Contract!PartAddresses(doc)
             /\ AddressOrNone(doc.modules[m].root) # NoAddress
    <2>1. doc.modules[m] \in Contract!Range(doc.modules) /\ doc.modules[m].presence = "present"
        BY DEF Contract!RequiredModules, Contract!Range
    <2>2. doc.modules[m].root \in Contract!PartAddresses(doc)
        BY <2>1 DEF Contract!ModulesSound
    <2>3. doc.modules[m].root \in Range(AllAddresses)
        BY <2>2, PartWords, AllAddressesRange
    <2>4. IsKey(doc.modules[m].root) /\ doc.modules[m].root \in Address
        BY <2>3, SoundIdentities, KeysAreAddresses
    <2>5. QED
        BY <2>2, <2>4, NoAddressAssumption DEF AddressOrNone
<1>2. RequiredModules \subseteq Contract!RequiredModules(doc)
    BY DEF RequiredModules, Contract!RequiredModules
<1>3. Contract!RequiredModules(doc) \subseteq RequiredModules
    BY <1>1 DEF RequiredModules, Contract!RequiredModules
<1>4. QED
    BY <1>1, <1>2, <1>3

(* The search for a module root's incoming attachment is silent exactly    *)
(* when one attachment matches: a sole candidate that is hosted by the     *)
(* parent is a match.                                                      *)
LEMMA ModuleRootJudged ==
    ASSUME doc \in BodyDocument, NEW m
    PROVE  ModuleRootDiags(m) = {} <=> \E n : {k \in ValidAttachments : Matches(k, m)} = {n}
<1> DEFINE root == doc.modules[m].root
           candidates == {n \in ValidAttachments : MatesInto(n, root)}
           matching == {n \in ValidAttachments : Matches(n, m)}
<1>1. ValidAttachments \subseteq DOMAIN doc.attachments
    BY DEF ValidAttachments
<1>2. IsFiniteSet(candidates) /\ IsFiniteSet(matching)
    BY <1>1, FiniteCollections, FS_Subset
<1>3. /\ Cardinality(candidates) = 1 <=> \E n : candidates = {n}
      /\ Cardinality(matching) = 1 <=> \E n : matching = {n}
    BY <1>2, FS_Singleton
<1>4. \A n : n \in matching <=> n \in candidates /\ HostedByParent(n, root)
    BY DEF Matches
<1>5. ModuleRootDiags(m) =
        IF Cardinality(matching) = 1 THEN {}
        ELSE IF Cardinality(candidates) # 1
        THEN {Diag("module-root-incoming-attachment-count", root)}
        ELSE When(\A n \in candidates : ~HostedByParent(n, root),
                  Diag("module-root-host-owner-mismatch", root))
    BY Zenon DEF ModuleRootDiags
<1> HIDE DEF root, candidates, matching
<1>6. (\E n : matching = {n}) => ModuleRootDiags(m) = {}
    BY <1>3, <1>5
<1>7. ASSUME ModuleRootDiags(m) = {}, ~(\E n : matching = {n}) PROVE FALSE
    <2>1. PICK n : candidates = {n}
        BY <1>3, <1>5, <1>7
    <2>2. ~(\A k \in candidates : ~HostedByParent(k, root))
        BY <1>3, <1>5, <1>7, <2>1 DEF When
    <2>3. matching = {n}
        BY <1>4, <2>1, <2>2
    <2>4. QED
        BY <1>7, <2>3
<1>8. QED
    BY <1>6, <1>7 DEF matching

LEMMA AttachmentsJudged ==
    ASSUME doc \in BodyDocument, Contract!IdentitySound(doc), Contract!ContainmentSound(doc),
           Contract!SocketsSound(doc), Contract!ModulesSound(doc), MapsFilled
    PROVE  AttachmentDiags = {} <=> Contract!AttachmentsSound(doc)
<1> DEFINE places == DOMAIN doc.attachments
           One == \A e, f \in Contract!Endpoints(doc) : EndpointSocket(e) = EndpointSocket(f) => e = f
           EachModule == \A m \in RequiredModules : \E n \in places :
                            \A k \in places : Contract!Joins(doc, k, m) <=> k = n
           EachAttachment == \A n \in places : \E m \in RequiredModules :
                                \A k \in RequiredModules : Contract!Joins(doc, n, k) <=> k = m
<1>1. AttachmentDiags = {} <=> EndpointDiags = {} /\ ModuleAttachmentDiags = {} /\ UnmatchedDiags = {}
    BY DEF AttachmentDiags
<1>2. EndpointDiags = {} <=> EndpointsResolve /\ One
    BY EndpointsJudged
<1>3. Contract!AttachmentsSound(doc) <=> EndpointsResolve /\ One /\ EachModule /\ EachAttachment
    <2>1. One <=> \A e, f \in Contract!Endpoints(doc) :
                    Contract!EndpointSocket(doc, e) = Contract!EndpointSocket(doc, f) => e = f
        BY EndpointWords
    <2>2. EndpointsResolve <=> \A e \in Contract!Endpoints(doc) :
                \E s \in Contract!Range(doc.sockets) : s.address = Contract!EndpointSocket(doc, e)
        BY EndpointWords
    <2>3. RequiredModules = Contract!RequiredModules(doc)
        BY SameRequiredModules
    <2> HIDE DEF One
    <2>4. QED
        BY <2>1, <2>2, <2>3 DEF Contract!AttachmentsSound
<1>4. ASSUME NEW n, NEW m \in RequiredModules PROVE Matches(n, m) <=> Contract!Joins(doc, n, m)
    BY SameRequiredModules, MatchesIsJoins
<1>5. ASSUME EndpointsResolve PROVE ModuleAttachmentDiags = {} <=> EachModule
    <2>1. ValidAttachments = places
        BY <1>5, EndpointReferencesJudged
    <2>2. ASSUME NEW m \in RequiredModules
          PROVE  ModuleRootDiags(m) = {}
                    <=> \E n \in places : \A k \in places : Contract!Joins(doc, k, m) <=> k = n
        <3>1. ModuleRootDiags(m) = {} <=> \E n : {k \in places : Matches(k, m)} = {n}
            BY <2>1, ModuleRootJudged
        <3>2. {k \in places : Matches(k, m)} = {k \in places : Contract!Joins(doc, k, m)}
            BY <1>4
        <3>3. QED
            BY <3>1, <3>2
    <2>3. ModuleAttachmentDiags = {} <=> \A m \in RequiredModules : ModuleRootDiags(m) = {}
        BY DEF ModuleAttachmentDiags
    <2>4. QED
        BY <2>2, <2>3
<1>6. ASSUME EndpointsResolve PROVE UnmatchedDiags = {} <=> EachAttachment
    <2>1. ValidAttachments = places
        BY <1>6, EndpointReferencesJudged
    <2>2. IsFiniteSet(RequiredModules)
        BY FiniteCollections, FS_Subset DEF RequiredModules
    <2>3. ASSUME NEW n \in places
          PROVE  Cardinality({m \in RequiredModules : Matches(n, m)}) = 1
                    <=> \E m \in RequiredModules :
                            \A k \in RequiredModules : Contract!Joins(doc, n, k) <=> k = m
        <3> DEFINE met == {m \in RequiredModules : Matches(n, m)}
        <3>1. IsFiniteSet(met)
            BY <2>2, FS_Subset
        <3>2. Cardinality(met) = 1 <=> \E m : met = {m}
            BY <3>1, FS_Singleton
        <3>3. \A m : m \in met <=> m \in RequiredModules /\ Contract!Joins(doc, n, m)
            BY <1>4
        <3> HIDE DEF met
        <3>4. (\E m : met = {m}) <=> \E m \in RequiredModules :
                    \A k \in RequiredModules : Contract!Joins(doc, n, k) <=> k = m
            BY <3>3
        <3>5. QED
            BY <3>2, <3>4 DEF met
    <2>4. UnmatchedDiags = {}
            <=> \A n \in places : Cardinality({m \in RequiredModules : Matches(n, m)}) = 1
        BY <2>1 DEF UnmatchedDiags
    <2>5. QED
        BY <2>3, <2>4
<1> HIDE DEF One, EachModule, EachAttachment
<1>7. QED
    BY <1>1, <1>2, <1>3, <1>5, <1>6

(* check_parts, before the walk *)

PartsSound ==
    /\ \A i \in DOMAIN doc.parts :
        /\ doc.parts[i].containment # "unrooted"
        /\ Parented(doc.parts[i]) => doc.parts[i].parent \in Contract!PartAddresses(doc)
    /\ Cardinality(Roots) = 1

LEMMA PartsJudged ==
    ASSUME doc \in BodyDocument, Contract!IdentitySound(doc), MapsFilled
    PROVE  PartDiags = {} <=> PartsSound
<1> DEFINE false == {Diag("part-root-false", p.address) :
                        p \in {q \in Range(doc.parts) : q.containment = "unrooted" /\ IsKey(q.address)}}
           links == UNION {RequirePart(p.parent) :
                        p \in {q \in Range(doc.parts) : Parented(q) /\ IsKey(q.address)}}
           counted == When(Cardinality(Roots) # 1, Unlocated("part-root-count"))
<1>1. PartDiags = counted \cup false \cup links
    BY Zenon DEF PartDiags
<1>2. \A p \in Range(doc.parts) : IsKey(p.address)
    BY SoundCollections
<1>3. \A p : p \in Range(doc.parts) <=> \E i \in DOMAIN doc.parts : doc.parts[i] = p
    BY DEF Range
<1>4. counted = {} <=> Cardinality(Roots) = 1
    BY DEF When
<1>5. false = {} <=> \A p \in Range(doc.parts) : p.containment # "unrooted"
    BY <1>2
<1>6. links = {} <=> \A p \in Range(doc.parts) : Parented(p) => RequirePart(p.parent) = {}
    BY <1>2
<1>7. links = {} <=> \A p \in Range(doc.parts) :
                        Parented(p) => p.parent \in Contract!PartAddresses(doc)
    BY <1>6, SoundPartRequired
<1> HIDE DEF false, links, counted
<1>8. QED
    BY <1>1, <1>3, <1>4, <1>5, <1>7 DEF PartsSound

LEMMA OneRoot ==
    ASSUME doc \in BodyDocument, Contract!IdentitySound(doc)
    PROVE  Cardinality(Roots) = 1
                <=> \E r \in Contract!PartAddresses(doc) :
                        \A a \in Contract!PartAddresses(doc) : Contract!IsRoot(doc, a) <=> a = r
<1>1. IsFiniteSet(Roots)
    BY FiniteCollections, FS_Subset DEF Roots
<1>2. Cardinality(Roots) = 1 <=> \E i : Roots = {i}
    BY <1>1, FS_Singleton
<1>3. \A i, j \in DOMAIN doc.parts : doc.parts[i].address = doc.parts[j].address => i = j
    BY SoundIdentities
<1>4. \A a : Contract!IsRoot(doc, a) <=> \E i \in Roots : doc.parts[i].address = a
    BY PartWords DEF Roots
<1>5. Roots \subseteq DOMAIN doc.parts
    BY DEF Roots
<1>6. \A i \in DOMAIN doc.parts : doc.parts[i].address \in Contract!PartAddresses(doc)
    BY PartWords
<1>7. ASSUME NEW i, Roots = {i}
      PROVE  \E r \in Contract!PartAddresses(doc) :
                \A a \in Contract!PartAddresses(doc) : Contract!IsRoot(doc, a) <=> a = r
    BY <1>4, <1>5, <1>6, <1>7
<1>8. ASSUME NEW r \in Contract!PartAddresses(doc),
             \A a \in Contract!PartAddresses(doc) : Contract!IsRoot(doc, a) <=> a = r
      PROVE  \E i : Roots = {i}
    <2>1. PICK i \in Roots : doc.parts[i].address = r
        BY <1>4, <1>8
    <2>2. \A j \in Roots : doc.parts[j].address = r
        BY <1>4, <1>5, <1>6, <1>8
    <2>3. Roots = {i}
        BY <1>3, <1>5, <2>1, <2>2
    <2>4. QED
        BY <2>3
<1>9. QED
    BY <1>2, <1>7, <1>8

(* A key that the walk found to hang on the root. *)
Hangs(a) == \A r : Contract!IsRoot(doc, r) => a \in Contract!Below(doc, r)

LEMMA ContainmentWords ==
    ASSUME doc \in BodyDocument, Contract!IdentitySound(doc)
    PROVE  Contract!ContainmentSound(doc)
                <=> PartsSound /\ \A a \in Contract!PartAddresses(doc) : Hangs(a)
<1> DEFINE parts == Contract!PartAddresses(doc)
           Linked == /\ \A p \in Contract!Range(doc.parts) : p.containment # "unrooted"
                     /\ \A p \in Contract!Range(doc.parts) : Contract!Parented(p) => p.parent \in parts
           Rooted(r) == \A a \in parts : Contract!IsRoot(doc, a) <=> a = r
<1>1. Contract!ContainmentSound(doc)
        <=> Linked /\ \E r \in parts : Rooted(r) /\ Contract!Below(doc, r) = parts
    BY Zenon DEF Contract!ContainmentSound
<1>2. \A p : p \in Contract!Range(doc.parts) <=> \E i \in DOMAIN doc.parts : doc.parts[i] = p
    BY DEF Contract!Range
<1>3. PartsSound <=> Linked /\ \E r \in parts : Rooted(r)
    <2>1. Linked <=> \A i \in DOMAIN doc.parts :
                        /\ doc.parts[i].containment # "unrooted"
                        /\ Parented(doc.parts[i]) => doc.parts[i].parent \in parts
        BY <1>2, SameVocabulary
    <2>2. QED
        BY <2>1, OneRoot, Zenon DEF PartsSound
<1>4. \A r : Contract!IsRoot(doc, r) => r \in parts
    BY PartWords
<1>5. ASSUME NEW r \in parts, Rooted(r)
      PROVE  Contract!Below(doc, r) = parts <=> \A a \in parts : Hangs(a)
    <2>1. Contract!Below(doc, r) \subseteq parts
        BY BelowArePartAddresses
    <2>2. \A s : Contract!IsRoot(doc, s) <=> s = r
        BY <1>4, <1>5
    <2>3. QED
        BY <2>1, <2>2 DEF Hangs
<1> HIDE DEF parts, Linked, Rooted
<1>6. QED
    BY <1>1, <1>3, <1>5, Zenon DEF parts

(* A link of the walk is a link of the document; and where the parts are   *)
(* sound, a key without one is the root.                                   *)
LEMMA WalkParentIsParent ==
    ASSUME doc \in BodyDocument, NEW k \in DOMAIN WalkParent
    PROVE  Contract!IsParent(doc, WalkParent[k], k)
    BY WalkParentIsPart, PartWords

LEMMA WithoutParentIsRoot ==
    ASSUME doc \in BodyDocument, Contract!IdentitySound(doc), MapsFilled, PartsSound,
           NEW k \in Contract!PartAddresses(doc), k \notin DOMAIN WalkParent
    PROVE  IsSoleRoot(k)
<1>1. PICK i \in DOMAIN doc.parts : doc.parts[i].address = k
    BY PartWords
<1>2. doc.parts[i] \in Range(doc.parts)
    BY DEF Range
<1>3. doc.parts[i] \in Part /\ IsKey(doc.parts[i].address)
    BY <1>2, DocumentTypes, RangeOfRecords, SoundCollections
<1>4. ~Parented(doc.parts[i])
    <2>1. SUFFICES ASSUME Parented(doc.parts[i]) PROVE FALSE
        OBVIOUS
    <2>2. PartResolves(doc.parts[i].parent)
        BY <2>1, SoundPartRequired DEF PartsSound
    <2> DEFINE from == {j \in DOMAIN doc.parts :
                          /\ Parented(doc.parts[j]) /\ IsKey(doc.parts[j].address)
                          /\ PartResolves(doc.parts[j].parent)}
    <2>3. i \in from
        BY <1>3, <2>1, <2>2
    <2>4. WalkParent = ParentMap(doc.parts, from)
        BY DEF WalkParent
    <2> HIDE DEF from
    <2>5. k \in DOMAIN WalkParent
        BY <1>1, <2>1, <2>3, <2>4, ParentMapDomain
    <2>6. QED
        BY <2>5
<1>5. doc.parts[i].containment = "root"
    BY <1>3, <1>4 DEF Part, Parented, PartsSound
<1>6. QED
    BY <1>1, <1>5 DEF IsSoleRoot, Roots

LEMMA SoleRootIsRoot ==
    ASSUME doc \in BodyDocument, Contract!IdentitySound(doc), PartsSound, NEW k
    PROVE  IsSoleRoot(k) <=> /\ k \in Contract!PartAddresses(doc)
                             /\ \A r : Contract!IsRoot(doc, r) <=> r = k
<1>1. \A r : Contract!IsRoot(doc, r) <=> \E i \in Roots : doc.parts[i].address = r
    BY PartWords DEF Roots
<1>2. \A r : Contract!IsRoot(doc, r) => r \in Contract!PartAddresses(doc)
    BY PartWords
<1>3. PICK s \in Contract!PartAddresses(doc) :
            \A a \in Contract!PartAddresses(doc) : Contract!IsRoot(doc, a) <=> a = s
    BY OneRoot DEF PartsSound
<1>4. IsSoleRoot(k) <=> Contract!IsRoot(doc, k)
    BY <1>1 DEF IsSoleRoot
<1>5. QED
    BY <1>2, <1>3, <1>4

-----------------------------------------------------------------------------
(* The collecting passes report nothing about a well-formed document.      *)

LEMMA DistinctIsNotRepeated ==
    ASSUME NEW keys, NEW n \in Nat, DOMAIN keys = 1..n, Contract!Distinct(keys)
    PROVE  Repeated(keys) = {}
    BY DistinctIndexesOnce DEF IndexesOnce

LEMMA SoundSourceIsSilent ==
    ASSUME doc \in BodyDocument, Contract!SourceSound(doc) PROVE SourceDiags = {}
<1> DEFINE deps == doc.source.dependencies
<1>1. doc.source.document \in Identifiers /\ doc.source.namespace \in Identifiers
    BY DEF Contract!SourceSound
<1>2. ASSUME NEW d \in Range(deps) PROVE DependencyDiags(d) = {}
    <2>1. /\ d.document \in Identifiers /\ d.namespace \in Identifiers
          /\ d.content_sha256 \in Digests /\ d.namespace # doc.source.namespace
        BY SameVocabulary DEF Contract!SourceSound
    <2>2. QED
        BY <2>1 DEF DependencyDiags, When
<1>3. Repeated(DependencyNamespaces) = {}
    <2>1. deps \in Seq(Dependency)
        BY DocumentTypes DEF Source
    <2>2. DOMAIN DependencyNamespaces = 1..Len(deps) /\ Len(deps) \in Nat
        BY <2>1 DEF DependencyNamespaces
    <2>3. Contract!Distinct(DependencyNamespaces)
        BY Zenon DEF Contract!SourceSound, DependencyNamespaces
    <2>4. QED
        BY <2>2, <2>3, DistinctIsNotRepeated
<1>4. QED
    BY <1>1, <1>2, <1>3 DEF SourceDiags, When

LEMMA SoundDeclarationsAreSilent ==
    ASSUME doc \in BodyDocument, DeclarationsSound(doc) PROVE DeclarationDiags = {}
<1>1. Range(Declarations) \subseteq Identifiers
    BY DEF DeclarationsSound, Declarations, Range
<1>2. doc.modules \in Seq(Module)
    BY DocumentTypes
<1>3. DOMAIN Declarations = 1..Len(doc.modules) /\ Len(doc.modules) \in Nat
    BY <1>2 DEF Declarations
<1>4. Contract!Distinct(Declarations)
    BY Zenon DEF DeclarationsSound, Declarations
<1>5. Repeated(Declarations) = {}
    BY <1>3, <1>4, DistinctIsNotRepeated
<1>6. QED
    BY <1>1, <1>5 DEF DeclarationDiags, When

LEMMA SoundIdentitiesAreSilent ==
    ASSUME doc \in BodyDocument, Contract!IdentitySound(doc) PROVE IdentityDiags = {}
<1> DEFINE kinds == UNION {KindDiags(n) : n \in 1..7}
           foreign == {Diag("address-namespace-not-owned", a) :
                          a \in {k \in AllKeys : k.namespace # doc.source.namespace}}
           twice == {Diag("address-duplicate", a) : a \in {k \in Repeated(AllAddresses) : IsKey(k)}}
           invalid == When(Range(AllAddresses) # AllKeys, Unlocated("address-invalid"))
<1>1. IdentityDiags = invalid \cup foreign \cup kinds \cup twice
    BY Zenon DEF IdentityDiags
<1>2. invalid = {} /\ foreign = {}
    BY SoundIdentities DEF When
<1>3. twice = {}
    <2>1. DOMAIN AllAddresses = 1..Len(AllAddresses) /\ Len(AllAddresses) \in Nat
        BY KeysAreAddresses
    <2>2. Contract!Distinct(AllAddresses)
        BY SameAddresses DEF Contract!IdentitySound
    <2>3. Repeated(AllAddresses) = {}
        BY <2>1, <2>2, DistinctIsNotRepeated
    <2>4. QED
        BY <2>3
<1>4. kinds = {}
    <2>1. ASSUME NEW records, NEW kind, Contract!OfKind(records, kind)
          PROVE  \A a \in KeysOf(records) : a.kind = kind
        BY <2>1 DEF Contract!OfKind, Contract!Range, KeysOf, Range, Addresses
    <2>2. \A n \in 1..7 : Contract!OfKind(Collections[n][1], Collections[n][2])
        BY DEF Contract!IdentitySound, Collections
    <2>3. \A n \in 1..7 : \A a \in KeysOf(Collections[n][1]) : a.kind = Collections[n][2]
        BY <2>1, <2>2
    <2>4. \A n \in 1..7 : KindDiags(n) = {}
        BY <2>3 DEF KindDiags
    <2>5. QED
        BY <2>4
<1> HIDE DEF kinds, foreign, twice, invalid
<1>5. QED
    BY <1>1, <1>2, <1>3, <1>4

LEMMA SoundRolesAreSilent ==
    ASSUME NEW T, NEW records \in Seq(T), RolesSound(records), NEW invalid, NEW duplicate
    PROVE  RoleDiags(records, invalid, duplicate) = {}
<1>1. RoleKeys(records) = Range(OwnerRoles(records)) /\ Repeated(OwnerRoles(records)) = {}
    BY RolesIndex DEF IndexesOnce
<1>2. QED
    BY <1>1 DEF RoleDiags, When

(* What the contract says of owner records is what the passes need.        *)
LEMMA ReferencesOwners ==
    ASSUME doc \in BodyDocument, Contract!IdentitySound(doc), Contract!ReferencesSound(doc)
    PROVE  OwnersSound /\ OwnerDiags = {}
<1>1. ASSUME NEW records, Contract!OwnerRecordsSound(doc, records) PROVE RolesSound(records)
    <2>1. Contract!Distinct(OwnerRoles(records))
        BY <1>1, Zenon DEF Contract!OwnerRecordsSound, OwnerRoles, Contract!OwnerRoleOf, OwnerRoleOf
    <2>2. \A r \in Range(records) : IsOwnerRoleKey(r)
        BY <1>1, SameVocabulary DEF Contract!OwnerRecordsSound
    <2>3. \A o \in Range(OwnerRoles(records)) : IsOwnerRoleKey(o)
        BY <2>2 DEF Range, OwnerRoles, OwnerRoleOf, IsOwnerRoleKey
    <2>4. QED
        BY <2>1, <2>3 DEF RolesSound, RoleKeys
<1>2. RolesSound(doc.landmarks) /\ RolesSound(doc.dimensions) /\ RolesSound(doc.frames)
    BY <1>1 DEF Contract!ReferencesSound
<1>3. /\ doc.frames \in Seq(OwnerRole) /\ doc.dimensions \in Seq(OwnerRole)
      /\ doc.landmarks \in Seq(Landmark)
    BY DocumentTypes
<1>4. /\ RoleDiags(doc.frames, "frame-owner-invalid", "frame-duplicate") = {}
      /\ RoleDiags(doc.landmarks, "landmark-owner-invalid", "landmark-duplicate") = {}
      /\ RoleDiags(doc.dimensions, "dimension-owner-invalid", "dimension-duplicate") = {}
    BY <1>2, <1>3, SoundRolesAreSilent
<1>5. \A f \in Range(doc.fields) : IsKey(f.owner)
    <2>1. \A f \in Range(doc.fields) : f.owner \in Range(AllAddresses)
        BY SameAddresses, SameVocabulary DEF Contract!ReferencesSound, Contract!Identity
    <2>2. QED
        BY <2>1, SoundIdentities
<1>6. QED
    BY <1>2, <1>4, <1>5 DEF OwnerDiags, OwnersSound, When

-----------------------------------------------------------------------------
(* While nothing was reported, each checking pass that ran established its *)
(* part of the contract, and every key that was walked hangs on the root.  *)

UntilModules == Early \cup {"collect_owner_records", "check_modules"}
UntilParts == UntilModules \cup {"check_parts"}
UntilWalk == UntilParts \cup {"walk_parts"}
UntilJoints == UntilWalk \cup {"check_joints"}
UntilSockets == UntilJoints \cup {"check_sockets"}
UntilAttachments == UntilSockets \cup {"check_attachments"}
UntilReferences == UntilAttachments \cup {"check_owned_references"}

Filled ==
    /\ pc \notin Early => /\ identities = AllKeys
                          /\ partKeys = KeysOf(doc.parts) /\ socketKeys = KeysOf(doc.sockets)
    /\ pc \notin Early \cup {"collect_owner_records"} => framesSeen = RoleKeys(doc.frames)

Checked ==
    /\ pc \notin UntilModules => Contract!ModulesSound(doc)
    /\ pc \notin UntilParts => PartsSound
    /\ pc \notin UntilWalk => Contract!ContainmentSound(doc)
    /\ pc \notin UntilJoints => Contract!JointsSound(doc)
    /\ pc \notin UntilSockets => Contract!SocketsSound(doc)
    /\ pc \notin UntilAttachments => Contract!AttachmentsSound(doc)
    /\ pc \notin UntilReferences => Contract!ReferencesSound(doc)

Walked ==
    pc = "walk_parts" =>
        /\ \A a \in partKeys \ (walk.todo \cup {walk.start}) : Hangs(a)
        /\ walk.start # NoAddress /\ Hangs(walk.current) => Hangs(walk.start)

Judged == Filled /\ (diagnostics = {} => Checked /\ Walked)

(* What was reported to be sound so far, at a pass after the collecting.   *)
LEMMA CollectedSound ==
    ASSUME TypeInv, Settled, Filled, pc \notin Early \cup {"collect_owner_records"}
    PROVE  /\ doc \in BodyDocument /\ MapsFilled
           /\ diagnostics = {} => /\ Contract!IdentitySound(doc) /\ DeclarationsSound(doc)
                                  /\ OwnersSound
<1>1. pc \notin Early
    OBVIOUS
<1>2. doc \in BodyDocument
    BY DEF TypeInv
<1>3. MapsFilled
    BY <1>1, Zenon DEF Filled, MapsFilled
<1>4. diagnostics = {} => Unreported
    BY DEF Settled
<1>5. Unreported => Contract!IdentitySound(doc) /\ DeclarationsSound(doc) /\ OwnersSound
    BY <1>1, SMT DEF Unreported, Early
<1>6. QED
    BY <1>2, <1>3, <1>4, <1>5

LEMMA SameDocument ==
    ASSUME doc' = doc
    PROVE  AllKeys' = AllKeys /\ (PartsSound' <=> PartsSound) /\ \A a : Hangs(a)' <=> Hangs(a)
<1>1. AllKeys' = AllKeys
    BY Zenon DEF AllKeys, AllAddresses
<1>2. PartsSound' <=> PartsSound
    BY Zenon DEF PartsSound, Roots
<1>3. \A a : Hangs(a)' <=> Hangs(a)
    BY DEF Hangs
<1>4. QED
    BY <1>1, <1>2, <1>3

LEMMA FilledIsKept ==
    ASSUME Filled, doc' = doc, UNCHANGED maps, pc \notin Early \cup {"collect_owner_records"}
    PROVE  Filled'
    BY SameDocument DEF Filled, maps

LEMMA CollectingIsJudged ==
    ASSUME TypeInv, Judged,
           CheckSourceNamespace \/ CollectModules \/ CollectIdentityAddresses \/ CollectOwnerRecords
    PROVE  Judged'
<1>1. doc' = doc /\ pc' \in UntilModules /\ pc' # "walk_parts"
    BY DEF CheckSourceNamespace, CollectModules, CollectIdentityAddresses,
           CollectOwnerRecords, Pass, UntilModules, Early
<1>2. Checked' /\ Walked'
    BY <1>1 DEF Checked, Walked, UntilModules, UntilParts, UntilWalk, UntilJoints, UntilSockets,
                UntilAttachments, UntilReferences
<1>3. Filled'
    <2>1. CASE CheckSourceNamespace \/ CollectModules
        BY <2>1 DEF CheckSourceNamespace, CollectModules, Pass, Filled, Early
    <2>2. CASE CollectIdentityAddresses
        BY <1>1, <2>2, SameDocument DEF CollectIdentityAddresses, Pass, Filled, Early
    <2>3. CASE CollectOwnerRecords
        BY <1>1, <2>3, SameDocument DEF Judged, CollectOwnerRecords, Pass, Filled, Early
    <2>4. QED
        BY <2>1, <2>2, <2>3
<1>4. QED
    BY <1>2, <1>3 DEF Judged

LEMMA CheckModulesIsJudged ==
    ASSUME TypeInv, Settled, Judged, CheckModules PROVE Judged'
<1>1. /\ pc = "check_modules" /\ pc' = "check_parts" /\ doc' = doc /\ UNCHANGED maps
      /\ diagnostics' = diagnostics \cup ModuleDiags
    BY DEF CheckModules, Pass, Report
<1>2. Filled'
    BY <1>1, FilledIsKept DEF Judged, Early
<1>3. diagnostics' = {} => Contract!ModulesSound(doc)
    BY <1>1, CollectedSound, ModulesJudged DEF Judged, Early
<1>4. diagnostics' = {} => Checked' /\ Walked'
    BY <1>1, <1>3 DEF Checked, Walked, UntilModules, UntilParts, UntilWalk, UntilJoints,
                      UntilSockets, UntilAttachments, UntilReferences, Early
<1>5. QED
    BY <1>2, <1>4 DEF Judged

LEMMA CheckPartsIsJudged ==
    ASSUME TypeInv, Settled, Judged, CheckParts PROVE Judged'
<1>1. /\ pc = "check_parts" /\ pc' = "walk_parts" /\ doc' = doc /\ UNCHANGED maps
      /\ diagnostics' = diagnostics \cup PartDiags
    BY DEF CheckParts, Report
<1>2. Filled'
    BY <1>1, FilledIsKept DEF Judged, Early
<1>3. diagnostics' = {} => Contract!ModulesSound(doc)
    BY <1>1 DEF Judged, Checked, UntilModules, Early
<1>4. diagnostics' = {} => PartsSound
    BY <1>1, CollectedSound, PartsJudged DEF Judged, Early
<1>5. diagnostics' = {} => Checked'
    BY <1>1, <1>3, <1>4, SameDocument
       DEF Checked, UntilModules, UntilParts, UntilWalk, UntilJoints,
           UntilSockets, UntilAttachments, UntilReferences, Early
<1>6. PartsSound => walk'.todo = partKeys' /\ walk'.start = NoAddress
    BY <1>1 DEF CheckParts, NotWalking, PartsSound, maps
<1>7. diagnostics' = {} => Walked'
    BY <1>4, <1>6 DEF Walked
<1>8. QED
    BY <1>2, <1>5, <1>7 DEF Judged

LEMMA CheckJointsIsJudged ==
    ASSUME TypeInv, Settled, Judged, CheckJoints PROVE Judged'
<1>1. /\ pc = "check_joints" /\ pc' = "check_sockets" /\ doc' = doc /\ UNCHANGED maps
      /\ diagnostics' = diagnostics \cup JointDiags
    BY DEF CheckJoints, Pass, Report
<1>2. Filled'
    BY <1>1, FilledIsKept DEF Judged, Early
<1>3. diagnostics' = {} => /\ Contract!ModulesSound(doc) /\ PartsSound
                           /\ Contract!ContainmentSound(doc)
    BY <1>1 DEF Judged, Checked, UntilModules, UntilParts, UntilWalk, Early
<1>4. diagnostics' = {} => Contract!JointsSound(doc)
    BY <1>1, CollectedSound, JointsJudged DEF Judged, Early
<1>5. diagnostics' = {} => Checked' /\ Walked'
    BY <1>1, <1>3, <1>4, SameDocument
       DEF Checked, Walked, UntilModules, UntilParts, UntilWalk, UntilJoints,
           UntilSockets, UntilAttachments, UntilReferences, Early
<1>6. QED
    BY <1>2, <1>5 DEF Judged

LEMMA CheckSocketsIsJudged ==
    ASSUME TypeInv, Settled, Judged, CheckSockets PROVE Judged'
<1>1. /\ pc = "check_sockets" /\ pc' = "check_attachments" /\ doc' = doc /\ UNCHANGED maps
      /\ diagnostics' = diagnostics \cup SocketDiags
    BY DEF CheckSockets, Pass, Report
<1>2. Filled'
    BY <1>1, FilledIsKept DEF Judged, Early
<1>3. diagnostics' = {} => /\ Contract!ModulesSound(doc) /\ PartsSound
                           /\ Contract!ContainmentSound(doc) /\ Contract!JointsSound(doc)
    BY <1>1 DEF Judged, Checked, UntilModules, UntilParts, UntilWalk, UntilJoints, Early
<1>4. diagnostics' = {} => Contract!SocketsSound(doc)
    BY <1>1, CollectedSound, SocketsJudged DEF Judged, Early
<1>5. diagnostics' = {} => Checked' /\ Walked'
    BY <1>1, <1>3, <1>4, SameDocument
       DEF Checked, Walked, UntilModules, UntilParts, UntilWalk, UntilJoints,
           UntilSockets, UntilAttachments, UntilReferences, Early
<1>6. QED
    BY <1>2, <1>5 DEF Judged

LEMMA CheckAttachmentsIsJudged ==
    ASSUME TypeInv, Settled, Judged, CheckAttachments PROVE Judged'
<1>1. /\ pc = "check_attachments" /\ pc' = "check_owned_references" /\ doc' = doc
      /\ UNCHANGED maps /\ diagnostics' = diagnostics \cup AttachmentDiags
    BY DEF CheckAttachments, Pass, Report
<1>2. Filled'
    BY <1>1, FilledIsKept DEF Judged, Early
<1>3. diagnostics' = {} => /\ Contract!ModulesSound(doc) /\ PartsSound
                           /\ Contract!ContainmentSound(doc) /\ Contract!JointsSound(doc)
                           /\ Contract!SocketsSound(doc)
    BY <1>1 DEF Judged, Checked, UntilModules, UntilParts, UntilWalk, UntilJoints,
                UntilSockets, Early
<1>4. diagnostics' = {} => Contract!AttachmentsSound(doc)
    BY <1>1, <1>3, CollectedSound, AttachmentsJudged DEF Judged, Early
<1>5. diagnostics' = {} => Checked' /\ Walked'
    BY <1>1, <1>3, <1>4, SameDocument
       DEF Checked, Walked, UntilModules, UntilParts, UntilWalk, UntilJoints,
           UntilSockets, UntilAttachments, UntilReferences, Early
<1>6. QED
    BY <1>2, <1>5 DEF Judged

LEMMA CheckOwnedReferencesIsJudged ==
    ASSUME TypeInv, Settled, Judged, CheckOwnedReferences PROVE Judged'
<1>1. /\ pc = "check_owned_references" /\ pc' = "build_graph" /\ doc' = doc
      /\ UNCHANGED maps /\ diagnostics' = diagnostics \cup ReferenceDiags
    BY DEF CheckOwnedReferences, Pass, Report
<1>2. Filled'
    BY <1>1, FilledIsKept DEF Judged, Early
<1>3. diagnostics' = {} => /\ Contract!ModulesSound(doc) /\ PartsSound
                           /\ Contract!ContainmentSound(doc) /\ Contract!JointsSound(doc)
                           /\ Contract!SocketsSound(doc) /\ Contract!AttachmentsSound(doc)
    BY <1>1 DEF Judged, Checked, UntilModules, UntilParts, UntilWalk, UntilJoints,
                UntilSockets, UntilAttachments, Early
<1>4. diagnostics' = {} => Contract!ReferencesSound(doc)
    BY <1>1, CollectedSound, ReferencesJudged DEF Judged, Early
<1>5. diagnostics' = {} => Checked' /\ Walked'
    BY <1>1, <1>3, <1>4, SameDocument DEF Checked, Walked
<1>6. QED
    BY <1>2, <1>5 DEF Judged

(* The walk: the part under the walk hangs on the root if what it climbed  *)
(* to does, and the climb is silent only at the root.                      *)
LEMMA WalkingSound ==
    ASSUME TypeInv, Settled, Judged, pc = "walk_parts"
    PROVE  /\ doc \in BodyDocument /\ MapsFilled
           /\ diagnostics = {} => /\ Contract!IdentitySound(doc) /\ Contract!ModulesSound(doc)
                                  /\ PartsSound /\ Walked
                                  /\ partKeys = Contract!PartAddresses(doc)
<1>1. pc \notin Early \cup {"collect_owner_records"} /\ pc \notin UntilParts
    BY DEF UntilParts, UntilModules, Early
<1>2. /\ doc \in BodyDocument /\ MapsFilled
      /\ diagnostics = {} => Contract!IdentitySound(doc)
    BY <1>1, CollectedSound DEF Judged
<1>3. diagnostics = {} => Contract!ModulesSound(doc) /\ PartsSound /\ Walked
    BY <1>1 DEF Judged, Checked, UntilParts
<1>4. QED
    BY <1>2, <1>3, SoundCollections DEF MapsFilled

LEMMA WalkKeepsChecked ==
    ASSUME TypeInv, Settled, Judged, pc = "walk_parts", pc' = "walk_parts", doc' = doc,
           UNCHANGED maps, diagnostics \subseteq diagnostics', diagnostics' = {} => Walked'
    PROVE  Judged'
<1>1. Filled'
    BY FilledIsKept DEF Judged, Early
<1>2. diagnostics' = {} => Contract!ModulesSound(doc) /\ PartsSound
    BY WalkingSound
<1>3. diagnostics' = {} => Checked'
    BY <1>2, SameDocument
       DEF Checked, UntilModules, UntilParts, UntilWalk, UntilJoints,
           UntilSockets, UntilAttachments, UntilReferences, Early
<1>4. QED
    BY <1>1, <1>3 DEF Judged

LEMMA BeginWalkIsJudged == ASSUME TypeInv, Settled, Judged, BeginWalk PROVE Judged'
<1>1. /\ pc = "walk_parts" /\ pc' = "walk_parts" /\ doc' = doc /\ UNCHANGED maps
      /\ diagnostics' = diagnostics /\ walk.start = NoAddress
    BY DEF BeginWalk
<1>2. PICK k \in walk.todo :
        walk' = [todo |-> walk.todo \ {k}, start |-> k, current |-> k, seen |-> {}]
    BY DEF BeginWalk
<1>3. diagnostics = {} => Walked
    BY <1>1, WalkingSound
<1>4. NoAddress \notin partKeys
    BY NoAddressAssumption DEF TypeInv, TypeOK
<1>5. diagnostics = {} => Walked'
    <2>1. partKeys' = partKeys
        BY <1>1 DEF maps
    <2>2. \A a \in partKeys' \ (walk'.todo \cup {walk'.start}) :
                a \in partKeys \ (walk.todo \cup {walk.start})
        BY <1>1, <1>2, <1>4, <2>1
    <2>3. QED
        BY <1>1, <1>2, <1>3, <2>2, SameDocument DEF Walked
<1>6. QED
    BY <1>1, <1>5, WalkKeepsChecked

LEMMA ClimbToParentIsJudged == ASSUME TypeInv, Settled, Judged, ClimbToParent PROVE Judged'
<1>1. /\ pc = "walk_parts" /\ pc' = "walk_parts" /\ doc' = doc /\ UNCHANGED maps
      /\ diagnostics' = diagnostics /\ walk.current \in DOMAIN WalkParent
      /\ walk' = [walk EXCEPT !.current = WalkParent[walk.current],
                              !.seen = walk.seen \cup {walk.current}]
    BY DEF ClimbToParent, Walking
<1>2. /\ walk'.current = WalkParent[walk.current] /\ walk'.todo = walk.todo
      /\ walk'.start = walk.start
    BY <1>1 DEF TypeInv
<1>3. Contract!IsParent(doc, WalkParent[walk.current], walk.current)
    BY <1>1, WalkParentIsParent DEF TypeInv
<1>4. walk.current \in Contract!PartAddresses(doc)
    BY <1>3, PartWords DEF TypeInv
<1>5. Hangs(WalkParent[walk.current]) => Hangs(walk.current)
    BY <1>3, <1>4, BelowDescends DEF Hangs
<1>6. diagnostics = {} => Walked
    BY <1>1, WalkingSound
<1>7. diagnostics = {} => Walked'
    <2>1. partKeys' = partKeys
        BY <1>1 DEF maps
    <2>2. QED
        BY <1>1, <1>2, <1>5, <1>6, <2>1, SameDocument DEF Walked
<1>8. QED
    BY <1>1, <1>7, WalkKeepsChecked

LEMMA ReachTopIsJudged == ASSUME TypeInv, Settled, Judged, ReachTop PROVE Judged'
<1>1. /\ pc = "walk_parts" /\ pc' = "walk_parts" /\ doc' = doc /\ UNCHANGED maps
      /\ walk.start # NoAddress
      /\ diagnostics' = diagnostics \cup
            When(~IsSoleRoot(walk.current), Diag("part-disconnected", walk.start))
      /\ walk' = [NotWalking EXCEPT !.todo = walk.todo]
    BY DEF ReachTop, Walking, EndWalk, Report
<1>2. walk'.todo = walk.todo /\ walk'.start = NoAddress
    BY <1>1 DEF NotWalking
<1>3. ASSUME diagnostics' = {} PROVE Hangs(walk.start)
    <2>1. /\ doc \in BodyDocument /\ Contract!IdentitySound(doc) /\ PartsSound /\ Walked
          /\ diagnostics = {}
        BY <1>1, <1>3, WalkingSound
    <2>2. IsSoleRoot(walk.current)
        BY <1>1, <1>3 DEF When
    <2>3. /\ walk.current \in Contract!PartAddresses(doc)
          /\ \A r : Contract!IsRoot(doc, r) <=> r = walk.current
        BY <2>1, <2>2, SoleRootIsRoot
    <2>4. Hangs(walk.current)
        BY <2>3, BelowItself DEF Hangs
    <2>5. QED
        BY <1>1, <2>1, <2>4 DEF Walked
<1>4. diagnostics' = {} => Walked'
    <2>1. partKeys' = partKeys
        BY <1>1 DEF maps
    <2>2. diagnostics' = {} => Walked
        BY <1>1, WalkingSound
    <2>3. QED
        BY <1>1, <1>2, <1>3, <2>1, <2>2, SameDocument DEF Walked
<1>5. QED
    BY <1>1, <1>4, WalkKeepsChecked

LEMMA MeetCycleIsJudged == ASSUME TypeInv, Settled, Judged, MeetCycle PROVE Judged'
<1>1. /\ pc = "walk_parts" /\ pc' = "walk_parts" /\ doc' = doc /\ UNCHANGED maps
      /\ diagnostics' = diagnostics \cup {Diag("part-containment-cycle", walk.start)}
    BY DEF MeetCycle, Walking, EndWalk, Report
<1>2. diagnostics' # {}
    BY <1>1
<1>3. QED
    BY <1>1, <1>2, WalkKeepsChecked

LEMMA WalksDoneIsJudged == ASSUME TypeInv, Settled, Judged, WalksDone PROVE Judged'
<1>1. /\ pc = "walk_parts" /\ pc' = "check_joints" /\ doc' = doc /\ UNCHANGED maps
      /\ diagnostics' = diagnostics /\ walk.todo = {} /\ walk.start = NoAddress
    BY DEF WalksDone, Pass, Report, NotWalking
<1>2. Filled'
    BY <1>1, FilledIsKept DEF Judged, Early
<1>3. ASSUME diagnostics = {}
      PROVE  Contract!ModulesSound(doc) /\ PartsSound /\ Contract!ContainmentSound(doc)
    <2>1. /\ doc \in BodyDocument /\ Contract!IdentitySound(doc) /\ Contract!ModulesSound(doc)
          /\ PartsSound /\ Walked /\ partKeys = Contract!PartAddresses(doc)
        BY <1>1, <1>3, WalkingSound
    <2>2. NoAddress \notin partKeys
        BY NoAddressAssumption DEF TypeInv, TypeOK
    <2>3. \A a \in Contract!PartAddresses(doc) : Hangs(a)
        BY <1>1, <2>1, <2>2 DEF Walked
    <2>4. QED
        BY <2>1, <2>3, ContainmentWords
<1>4. diagnostics' = {} => Checked' /\ Walked'
    BY <1>1, <1>3, SameDocument
       DEF Checked, Walked, UntilModules, UntilParts, UntilWalk, UntilJoints,
           UntilSockets, UntilAttachments, UntilReferences, Early
<1>5. QED
    BY <1>2, <1>4 DEF Judged

LEMMA BuildGraphIsJudged == ASSUME TypeInv, Settled, Judged, BuildGraph PROVE Judged'
<1>1. /\ pc = "build_graph" /\ pc' = "done" /\ doc' = doc /\ UNCHANGED maps
      /\ diagnostics' = diagnostics
    BY DEF BuildGraph
<1>2. Filled'
    BY <1>1, FilledIsKept DEF Judged, Early
<1>3. diagnostics = {} => Checked' /\ Walked'
    BY <1>1, SameDocument
       DEF Judged, Checked, Walked, UntilModules, UntilParts, UntilWalk, UntilJoints,
           UntilSockets, UntilAttachments, UntilReferences, Early
<1>4. QED
    BY <1>1, <1>2, <1>3 DEF Judged

LEMMA InitiallyJudged == Init => Judged
    BY DEF Init, Judged, Filled, Checked, Walked, UntilModules, UntilParts, UntilWalk,
           UntilJoints, UntilSockets, UntilAttachments, UntilReferences, Early

LEMMA JudgedIsKept == TypeInv /\ Settled /\ Judged /\ [Next]_vars => Judged'
<1> SUFFICES ASSUME TypeInv, Settled, Judged, [Next]_vars PROVE Judged'
    OBVIOUS
<1>1. CASE Next
    BY <1>1, CollectingIsJudged, CheckModulesIsJudged, CheckPartsIsJudged, BeginWalkIsJudged,
       ClimbToParentIsJudged, ReachTopIsJudged, MeetCycleIsJudged, WalksDoneIsJudged,
       CheckJointsIsJudged, CheckSocketsIsJudged, CheckAttachmentsIsJudged,
       CheckOwnedReferencesIsJudged, BuildGraphIsJudged DEF Next
<1>2. CASE UNCHANGED vars
    <2>1. /\ doc' = doc /\ pc' = pc /\ diagnostics' = diagnostics /\ walk' = walk
          /\ identities' = identities /\ partKeys' = partKeys /\ socketKeys' = socketKeys
          /\ framesSeen' = framesSeen
        BY <1>2 DEF vars
    <2>2. Filled' <=> Filled
        BY <2>1, SameDocument DEF Filled
    <2>3. Checked' <=> Checked
        BY <2>1, SameDocument DEF Checked
    <2>4. Walked' <=> Walked
        BY <2>1, SameDocument DEF Walked
    <2>5. QED
        BY <2>1, <2>2, <2>3, <2>4 DEF Judged
<1>3. QED
    BY <1>1, <1>2

LEMMA JudgedIsWellFormed ==
    ASSUME TypeInv, Settled, Judged, pc \in {"build_graph", "done"}, diagnostics = {}
    PROVE  Contract!WellFormed(doc)
<1>1. /\ pc \notin UntilModules /\ pc \notin UntilParts /\ pc \notin UntilWalk
      /\ pc \notin UntilJoints /\ pc \notin UntilSockets /\ pc \notin UntilAttachments
      /\ pc \notin UntilReferences /\ pc # "check_source_namespace" /\ pc \notin Early
    BY DEF UntilModules, UntilParts, UntilWalk, UntilJoints, UntilSockets, UntilAttachments,
           UntilReferences, Early
<1>2. Checked /\ Unreported
    BY DEF Judged, Settled
<1>3. QED
    BY <1>1, <1>2, Zenon DEF Checked, Unreported, Contract!WellFormed

(* Whatever the validator builds a graph of is a well-formed document: one *)
(* tree of Parts, every reference resolved, attachments and required       *)
(* modules paired off.                                                     *)
THEOREM AcceptedIsAlwaysWellFormed == Spec => []AcceptedIsWellFormed
<1>1. TypeInv /\ Settled /\ Judged => AcceptedIsWellFormed
    <2>1. SUFFICES ASSUME TypeInv, Settled, Judged, graph = "graph"
                   PROVE  Contract!WellFormed(doc)
        BY Zenon DEF AcceptedIsWellFormed
    <2>2. pc = "done" /\ diagnostics = {}
        BY <2>1 DEF Settled
    <2>3. QED
        BY <2>1, <2>2, JudgedIsWellFormed
<1>2. QED
    BY <1>1, InitialTypes, TypesAreKept, InitiallySettled, SettledIsKept, InitiallyJudged,
       JudgedIsKept, PTL DEF Spec

LEMMA WellFormedDescends ==
    ASSUME doc \in BodyDocument, Contract!WellFormed(doc), NEW n \in DOMAIN doc.attachments,
           NEW h, NEW b,
           Contract!SocketOwnedBy(doc, doc.attachments[n].host, h),
           Contract!SocketOwnedBy(doc, doc.attachments[n].mating, b)
    PROVE  b \in Contract!Below(doc, h) \ {h}
<1>1. /\ Contract!IdentitySound(doc) /\ Contract!ModulesSound(doc)
      /\ Contract!ContainmentSound(doc) /\ Contract!AttachmentsSound(doc)
      /\ Contract!SocketsSound(doc)
    BY Zenon DEF Contract!WellFormed
<1>2. PICK m \in Contract!RequiredModules(doc) : Contract!Joins(doc, n, m)
    BY <1>1 DEF Contract!AttachmentsSound
<1> DEFINE root == doc.modules[m].root
<1>3. root \in Contract!PartAddresses(doc)
    BY <1>1, <1>2, SameRequiredModules
<1>4. /\ \E q \in Contract!PartAddresses(doc) :
            Contract!IsParent(doc, q, root) /\ Contract!SocketOwnedBy(doc, doc.attachments[n].host, q)
      /\ \E x \in Contract!Below(doc, root) :
            Contract!SocketOwnedBy(doc, doc.attachments[n].mating, x)
    BY <1>2, Zenon DEF Contract!Joins
<1> HIDE DEF root
<1>5. Contract!IsParent(doc, h, root) /\ h \in Contract!PartAddresses(doc)
    BY <1>1, <1>4, SoundSocketsHaveOneOwner
<1>6. b \in Contract!Below(doc, root)
    BY <1>1, <1>4, SoundSocketsHaveOneOwner
<1>7. root \in Contract!Below(doc, h)
    BY <1>3, <1>5, BelowItself, BelowDescends
<1>8. b \in Contract!Below(doc, h)
    BY <1>6, <1>7, BelowNests
<1>9. h \notin Contract!Below(doc, root)
    BY <1>1, <1>3, <1>5, SoundPartsHaveOneParent, ParentIsNotBelow
<1>10. QED
    BY <1>6, <1>8, <1>9

(* No attachment cycle is accepted, although no pass looks for one: the    *)
(* attachment's mating socket lies strictly below its host.                *)
THEOREM AttachmentsAlwaysDescend == Spec => []AttachmentsDescend
<1>1. TypeInv /\ Settled /\ Judged => AttachmentsDescend
    <2>1. SUFFICES ASSUME TypeInv, Settled, Judged, graph = "graph",
                          NEW a \in Range(doc.attachments),
                          NEW h \in Contract!PartAddresses(doc), NEW b \in Contract!PartAddresses(doc),
                          Contract!SocketOwnedBy(doc, a.host, h),
                          Contract!SocketOwnedBy(doc, a.mating, b)
                   PROVE  b \in Contract!Below(doc, h) \ {h}
        BY Zenon DEF AttachmentsDescend
    <2>2. doc \in BodyDocument /\ Contract!WellFormed(doc)
        BY <2>1, JudgedIsWellFormed DEF TypeInv, Settled
    <2>3. PICK n \in DOMAIN doc.attachments : doc.attachments[n] = a
        BY DEF Range
    <2>4. QED
        BY <2>1, <2>2, <2>3, WellFormedDescends
<1>2. QED
    BY <1>1, InitialTypes, TypesAreKept, InitiallySettled, SettledIsKept, InitiallyJudged,
       JudgedIsKept, PTL DEF Spec

-----------------------------------------------------------------------------
(* The converse: nothing is ever reported about a well-formed document,    *)
(* whose walks climb without meeting what they have seen.                  *)

Spared ==
    Contract!WellFormed(doc) =>
        /\ diagnostics = {}
        /\ pc = "walk_parts" /\ walk.start # NoAddress =>
                /\ walk.current \in Contract!PartAddresses(doc)
                /\ \A x \in walk.seen :
                        x \in Contract!Below(doc, walk.current) /\ x # walk.current

LEMMA WellFormedParts ==
    ASSUME doc \in BodyDocument, Contract!WellFormed(doc)
    PROVE  /\ Contract!SourceSound(doc) /\ Contract!IdentitySound(doc) /\ DeclarationsSound(doc)
           /\ Contract!ModulesSound(doc) /\ Contract!ContainmentSound(doc) /\ PartsSound
           /\ Contract!JointsSound(doc) /\ Contract!SocketsSound(doc)
           /\ Contract!AttachmentsSound(doc) /\ Contract!ReferencesSound(doc)
           /\ OwnersSound /\ OwnerDiags = {}
<1>1. /\ Contract!SourceSound(doc) /\ Contract!IdentitySound(doc)
      /\ Contract!ModulesSound(doc) /\ Contract!ContainmentSound(doc)
      /\ Contract!JointsSound(doc) /\ Contract!SocketsSound(doc)
      /\ Contract!AttachmentsSound(doc) /\ Contract!ReferencesSound(doc)
    BY Zenon DEF Contract!WellFormed
<1>2. DeclarationsSound(doc)
    BY <1>1, SameVocabulary DEF Contract!ModulesSound, DeclarationsSound
<1>3. PartsSound
    BY <1>1, ContainmentWords
<1>4. OwnersSound /\ OwnerDiags = {}
    BY <1>1, ReferencesOwners
<1>5. QED
    BY <1>1, <1>2, <1>3, <1>4

LEMMA CollectingSpares ==
    ASSUME TypeInv, Spared,
           CheckSourceNamespace \/ CollectModules \/ CollectIdentityAddresses \/ CollectOwnerRecords
    PROVE  Spared'
<1>1. doc' = doc /\ pc' # "walk_parts" /\ doc \in BodyDocument
    BY DEF TypeInv, CheckSourceNamespace, CollectModules, CollectIdentityAddresses,
           CollectOwnerRecords, Pass
<1>2. ASSUME Contract!WellFormed(doc) PROVE diagnostics' = {}
    <2>1. SourceDiags = {} /\ DeclarationDiags = {} /\ IdentityDiags = {} /\ OwnerDiags = {}
        BY <1>1, <1>2, WellFormedParts, SoundSourceIsSilent, SoundDeclarationsAreSilent,
           SoundIdentitiesAreSilent
    <2>2. diagnostics = {}
        BY <1>2 DEF Spared
    <2>3. QED
        BY <2>1, <2>2 DEF CheckSourceNamespace, CollectModules, CollectIdentityAddresses,
           CollectOwnerRecords, Pass, Report
<1>3. QED
    BY <1>1, <1>2 DEF Spared

LEMMA CheckingSpares ==
    ASSUME TypeInv, Settled, Judged, Spared,
           \/ CheckModules \/ CheckParts \/ CheckJoints \/ CheckSockets \/ CheckAttachments
           \/ CheckOwnedReferences
    PROVE  Spared'
<1>1. /\ doc' = doc /\ doc \in BodyDocument /\ pc \notin Early \cup {"collect_owner_records"}
      /\ pc' = "walk_parts" => walk'.start = NoAddress
    BY DEF TypeInv, CheckModules, CheckParts, CheckJoints, CheckSockets, CheckAttachments,
           CheckOwnedReferences, Pass, Early, NotWalking
<1>2. ASSUME Contract!WellFormed(doc) PROVE diagnostics' = {}
    <2>1. MapsFilled
        BY <1>1, CollectedSound DEF Judged
    <2>2. /\ ModuleDiags = {} /\ PartDiags = {} /\ JointDiags = {} /\ SocketDiags = {}
          /\ AttachmentDiags = {} /\ ReferenceDiags = {}
        BY <1>1, <1>2, <2>1, WellFormedParts, ModulesJudged, PartsJudged, JointsJudged,
           SocketsJudged, AttachmentsJudged, ReferencesJudged
    <2>3. diagnostics = {}
        BY <1>2 DEF Spared
    <2>4. QED
        BY <2>2, <2>3 DEF CheckModules, CheckParts, CheckJoints, CheckSockets, CheckAttachments,
           CheckOwnedReferences, Pass, Report
<1>3. QED
    BY <1>1, <1>2 DEF Spared

LEMMA WalkingSpares ==
    ASSUME TypeInv, Settled, Judged, Spared, BeginWalk \/ MeetCycle \/ ClimbToParent \/ ReachTop
    PROVE  Spared'
<1>1. doc' = doc /\ pc = "walk_parts" /\ doc \in BodyDocument
    BY DEF TypeInv, BeginWalk, MeetCycle, ClimbToParent, ReachTop, Walking, EndWalk
<1> SUFFICES ASSUME Contract!WellFormed(doc)
             PROVE  /\ diagnostics' = {}
                    /\ walk'.start # NoAddress =>
                            /\ walk'.current \in Contract!PartAddresses(doc)
                            /\ \A x \in walk'.seen :
                                    x \in Contract!Below(doc, walk'.current) /\ x # walk'.current
    BY <1>1 DEF Spared
<1>2. /\ diagnostics = {}
      /\ walk.start # NoAddress =>
            /\ walk.current \in Contract!PartAddresses(doc)
            /\ \A x \in walk.seen : x \in Contract!Below(doc, walk.current) /\ x # walk.current
    BY <1>1 DEF Spared
<1>3. /\ MapsFilled /\ partKeys = Contract!PartAddresses(doc) /\ Contract!IdentitySound(doc)
      /\ PartsSound /\ Contract!ContainmentSound(doc)
    BY <1>1, <1>2, WalkingSound, WellFormedParts
<1>4. CASE BeginWalk
    <2>1. PICK k \in walk.todo :
            walk' = [todo |-> walk.todo \ {k}, start |-> k, current |-> k, seen |-> {}]
        BY <1>4 DEF BeginWalk
    <2>2. diagnostics' = diagnostics
        BY <1>4 DEF BeginWalk
    <2>3. k \in partKeys
        BY DEF TypeInv, TypeOK
    <2>4. QED
        BY <1>2, <1>3, <2>1, <2>2, <2>3
<1>5. CASE MeetCycle
    BY <1>2, <1>5 DEF MeetCycle, Walking
<1>6. CASE ClimbToParent
    <2>1. /\ diagnostics' = diagnostics /\ walk.start # NoAddress
          /\ walk.current \in DOMAIN WalkParent
          /\ walk' = [walk EXCEPT !.current = WalkParent[walk.current],
                                  !.seen = walk.seen \cup {walk.current}]
        BY <1>6 DEF ClimbToParent, Walking
    <2>2. /\ walk'.current = WalkParent[walk.current]
          /\ walk'.seen = walk.seen \cup {walk.current}
        BY <2>1 DEF TypeInv
    <2>3. Contract!IsParent(doc, walk'.current, walk.current)
        BY <1>1, <2>1, <2>2, WalkParentIsParent
    <2>4. walk'.current \in Contract!PartAddresses(doc)
        BY <1>1, <1>3, <2>1, <2>2, WalkParentIsPart
    <2>5. walk.current \in Contract!PartAddresses(doc)
        BY <1>1, <2>3, PartWords
    <2>6. walk'.current \notin Contract!Below(doc, walk.current)
        BY <1>1, <1>3, <2>3, <2>5, SoundPartsHaveOneParent, ParentIsNotBelow
    <2>7. walk.current \in Contract!Below(doc, walk'.current)
        BY <2>3, <2>4, <2>5, BelowItself, BelowDescends
    <2>8. \A x \in Contract!Below(doc, walk.current) : x \in Contract!Below(doc, walk'.current)
        BY <2>7, BelowNests
    <2>9. walk.current \in Contract!Below(doc, walk.current)
        BY <2>5, BelowItself
    <2>10. QED
        BY <1>2, <2>1, <2>2, <2>4, <2>6, <2>8, <2>9
<1>7. CASE ReachTop
    <2>1. /\ walk.start # NoAddress /\ walk.current \notin DOMAIN WalkParent
          /\ diagnostics' = diagnostics \cup
                When(~IsSoleRoot(walk.current), Diag("part-disconnected", walk.start))
          /\ walk' = [NotWalking EXCEPT !.todo = walk.todo]
        BY <1>7 DEF ReachTop, Walking, EndWalk, Report
    <2>2. walk.current \in Contract!PartAddresses(doc)
        BY <1>2, <2>1
    <2>3. IsSoleRoot(walk.current)
        BY <1>1, <1>3, <2>1, <2>2, WithoutParentIsRoot
    <2>4. QED
        BY <1>2, <2>1, <2>3 DEF When, NotWalking
<1>8. QED
    BY <1>4, <1>5, <1>6, <1>7

LEMMA InitiallySpared == Init => Spared
    BY DEF Init, Spared

LEMMA SparedIsKept == TypeInv /\ Settled /\ Judged /\ Spared /\ [Next]_vars => Spared'
<1> SUFFICES ASSUME TypeInv, Settled, Judged, Spared, [Next]_vars PROVE Spared'
    OBVIOUS
<1>1. CASE WalksDone \/ BuildGraph
    BY <1>1 DEF WalksDone, BuildGraph, Pass, Report, Spared
<1>2. CASE UNCHANGED vars
    BY <1>2 DEF vars, Spared
<1>3. QED
    BY <1>1, <1>2, CollectingSpares, CheckingSpares, WalkingSpares DEF Next

-----------------------------------------------------------------------------
(* The refinement *)

Verdict == IF pc # "done" THEN "pending" ELSE IF graph = "graph" THEN "accepted" ELSE "rejected"

LEMMA VerdictIsRight ==
    ASSUME TypeInv, Settled, Judged, Spared, BuildGraph
    PROVE  graph' = "graph" <=> Contract!WellFormed(doc)
<1>1. /\ pc = "build_graph"
      /\ graph' = IF diagnostics # {} THEN "none" ELSE IF IndexAccepts THEN "graph" ELSE "panic"
    BY DEF BuildGraph
<1>2. diagnostics = {} <=> Contract!WellFormed(doc)
    BY <1>1, JudgedIsWellFormed DEF Spared
<1>3. graph' # "panic"
    BY BuildGraphSettles DEF Settled
<1>4. QED
    BY <1>1, <1>2, <1>3

(* A step of the validator is a step of the contract or leaves the verdict *)
(* pending.                                                                *)
LEMMA StepsAreDecisions ==
    TypeInv /\ Settled /\ Judged /\ Spared /\ [Next]_vars
        => [Contract!Next]_<<doc, Verdict>>
<1> SUFFICES ASSUME TypeInv, Settled, Judged, Spared, [Next]_vars
             PROVE  Contract!Next \/ UNCHANGED <<doc, Verdict>>
    BY DEF Verdict
<1>1. CASE BuildGraph
    <2>1. pc = "build_graph" /\ pc' = "done" /\ doc' = doc
        BY <1>1 DEF BuildGraph
    <2>2. graph' = "graph" <=> Contract!WellFormed(doc)
        BY <1>1, VerdictIsRight
    <2>3. QED
        BY <2>1, <2>2 DEF Contract!Next, Contract!Decide
<1>2. CASE Next /\ ~BuildGraph
    <2>1. doc' = doc /\ pc # "done" /\ pc' # "done"
        BY <1>2 DEF Next, CheckSourceNamespace, CollectModules, CollectIdentityAddresses,
           CollectOwnerRecords, CheckModules, CheckParts, BeginWalk, MeetCycle, ClimbToParent,
           ReachTop, WalksDone, CheckJoints, CheckSockets, CheckAttachments,
           CheckOwnedReferences, Pass, EndWalk, Walking
    <2>2. QED
        BY <2>1 DEF Verdict
<1>3. CASE UNCHANGED vars
    BY <1>3 DEF vars, Verdict
<1>4. QED
    BY <1>1, <1>2, <1>3

(* The validator implements the contract, for every document: its verdict  *)
(* is given once, never changes, and is acceptance exactly of the          *)
(* well-formed documents.  (That it is given at all is liveness, which the *)
(* runs check with DecidesWellFormedness.)                                 *)
THEOREM VerdictsFollowContract ==
    Spec => Contract!Init /\ [][Contract!Next]_<<doc, Verdict>>
<1>1. Init => Contract!Init
    BY DEF Init, Contract!Init
<1>2. QED
    BY <1>1, StepsAreDecisions, InitialTypes, TypesAreKept, InitiallySettled, SettledIsKept,
       InitiallyJudged, JudgedIsKept, InitiallySpared, SparedIsKept, PTL DEF Spec
=============================================================================
