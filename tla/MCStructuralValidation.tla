----------------------- MODULE MCStructuralValidation -----------------------
(***************************************************************************)
(* Three families of small documents: containment shapes, attachments of   *)
(* nested modules, and owned references.  Each family varies one group of  *)
(* records and keeps the rest small.                                       *)
(***************************************************************************)
EXTENDS StructuralValidation

MCNames == {"a", "b", "c", "s", "t", "u", "v", "sha", "Bad"}
MCNamespaces == {"own", "far", "Odd"}
MCIdentifiers == {"a", "b", "c", "s", "t", "u", "v", "own", "far"}
MCDigests == {"sha"}

At(kind, name) == [namespace |-> "own", kind |-> kind, name |-> name]
P(name) == At("part", name)
S(name) == At("socket", name)
Far == [P("a") EXCEPT !.namespace = "far"]
Broken == [P("a") EXCEPT !.name = "Bad"]

RootPart(a) == [address |-> a, containment |-> "root", parent |-> NoAddress]
Unrooted(a) == [address |-> a, containment |-> "unrooted", parent |-> NoAddress]
Child(a, q) == [address |-> a, containment |-> "parent", parent |-> q]

Plain == [document |-> "a", namespace |-> "own", dependencies |-> <<>>]

Empty == [source |-> Plain, modules |-> <<>>, parts |-> <<RootPart(P("a"))>>, joints |-> <<>>,
          sockets |-> <<>>, attachments |-> <<>>, regions |-> <<>>, capabilities |-> <<>>,
          fields |-> <<>>, landmarks |-> <<>>, dimensions |-> <<>>, frames |-> <<>>]

-----------------------------------------------------------------------------
(* Three parts under every containment, repeated and misplaced addresses   *)
(* included, with one joint or none.                                       *)

Shapes(a) == {RootPart(a), Unrooted(a), Child(a, P("a")), Child(a, P("b")), Child(a, P("c"))}

JointLists == {<<>>} \cup {<<[address |-> At("joint", "a"), proximal |-> j[1], distal |-> j[2]]>> :
    j \in {<<P("a"), P("b")>>, <<P("b"), P("b")>>, <<P("b"), P("c")>>}}

ContainmentDocuments ==
    {[Empty EXCEPT !.parts = <<x, y, z>>, !.joints = js] :
        x \in Shapes(P("a")), y \in Shapes(P("b")),
        z \in Shapes(P("c")) \cup {Child(P("b"), P("a")), Child(S("c"), P("a")),
                                   Child(P("c"), S("s")), Child(P("c"), Far), Child(Broken, P("a"))},
        js \in JointLists}

-----------------------------------------------------------------------------
(* A root part with two parts below it, four sockets, up to two            *)
(* attachments between them and up to two module instances.                *)

Sock(name, owner) == [address |-> S(name), owner |-> owner]

Sockets(q) == <<Sock("s", P("a")), Sock("t", P("b")), Sock("u", q), Sock("v", P("c"))>>

Att(name, h, m) == [address |-> At("attachment", name), host |-> h, mating |-> m]

Ends == {S("s"), S("t"), S("u"), S("v")}

AttachmentLists ==
    {<<>>} \cup {<<Att("a", h, m)>> : h \in Ends \cup {S("c")}, m \in Ends}
    \cup {<<Att("a", h, m), Att("b", S("u"), n)>> : h \in Ends, m \in Ends, n \in Ends}

Mod(name, needed, r) == [declaration |-> name, fields |-> "a", presence |-> "present",
                         optional |-> TRUE, attachment_required |-> needed, root |-> r]

Absent(name, opt, r) == [Mod(name, FALSE, r) EXCEPT !.presence = "absent", !.optional = opt]

ModuleLists ==
    {<<>>, <<Mod("b", TRUE, P("b")), Mod("c", TRUE, P("c"))>>, <<Mod("b", TRUE, P("b"))>>,
     <<Mod("c", TRUE, P("c")), Absent("b", TRUE, NoAddress)>>,
     <<Mod("b", TRUE, P("b")), Mod("c", FALSE, P("b"))>>,
     <<Mod("b", TRUE, P("c")), Mod("c", TRUE, P("c"))>>, <<Mod("b", TRUE, P("a"))>>}

AttachmentDocuments ==
    {[Empty EXCEPT !.parts = <<RootPart(P("a")), Child(P("b"), P("a")), Child(P("c"), q)>>,
                   !.sockets = Sockets(q), !.attachments = as, !.modules = ms] :
        q \in {P("a"), P("b")}, as \in AttachmentLists, ms \in ModuleLists}

-----------------------------------------------------------------------------
(* Owner records and references, sources and module declarations, each     *)
(* sound or with one fault.                                                *)

Role(o, r) == [owner |-> o, role |-> r]
Land(o, r, f) == [owner |-> o, role |-> r, frame |-> f]
Field1(n, o, f) == [address |-> At("field", n), owner |-> o, frame |-> f]
Framed == [Empty EXCEPT !.frames = <<Role(P("a"), "a")>>]

Owners == {P("a"), P("b"), Far, Broken}
FrameRefs == {Role(P("a"), "a"), Role(P("a"), "b"), Role(P("a"), "Bad"), Role(P("b"), "a")}

ReferenceDocuments ==
    {[Framed EXCEPT !.landmarks = <<Land(o, r, f)>>] : o \in Owners, r \in {"a", "Bad"}, f \in FrameRefs}
    \cup {[Framed EXCEPT !.landmarks = <<Land(P("a"), "a", f), Land(P("a"), r, f)>>] :
            r \in {"a", "b"}, f \in FrameRefs}
    \cup {[Framed EXCEPT !.fields = <<Field1("a", o, f), Field1(n, o, f)>>] :
            n \in {"a", "b"}, o \in Owners, f \in FrameRefs}
    \cup {[Empty EXCEPT !.frames = <<Role(o, "a"), Role(P("a"), r)>>] : o \in Owners, r \in {"a", "b", "Bad"}}
    \cup {[Empty EXCEPT !.dimensions = <<Role(o, "a"), Role(P("a"), r)>>] : o \in Owners, r \in {"a", "b"}}
    \cup {[Empty EXCEPT !.regions = <<[address |-> At("region", "a"), parts |-> {o, P("a")}]>>,
                        !.capabilities = <<[address |-> At("capability", "a"), subjects |-> {p}]>>] :
            o \in Owners, p \in Owners}
    \cup {[Empty EXCEPT !.sockets = <<Sock("s", o)>>] : o \in Owners \cup {S("s")}}

Dep(d, n, h) == [document |-> d, namespace |-> n, content_sha256 |-> h]

SourceDocuments ==
    {[Empty EXCEPT !.source = [document |-> d, namespace |-> n, dependencies |-> <<dep>>]] :
        d \in {"a", "Bad"}, n \in {"own", "Odd"},
        dep \in {Dep("a", "far", "sha"), Dep("Bad", "far", "sha"), Dep("a", "own", "sha"),
                 Dep("a", "Odd", "sha"), Dep("a", "far", "a")}}
    \cup {[Empty EXCEPT !.source.dependencies = <<Dep("a", "far", "sha"), Dep("b", "far", "sha")>>]}
    \cup {[Empty EXCEPT !.modules = ms] :
        ms \in {<<Mod(x, FALSE, P("a")), Mod("c", FALSE, r)>> : x \in {"c", "b", "Bad"}, r \in Owners}
            \cup {<<[Mod("c", b, NoAddress) EXCEPT !.fields = x]>> : b \in BOOLEAN, x \in {"a", "Bad"}}
            \cup {<<Absent("c", b, r)>> : b \in BOOLEAN, r \in {NoAddress, P("a"), Broken}}}

MCDocuments == ContainmentDocuments \cup AttachmentDocuments
                    \cup ReferenceDocuments \cup SourceDocuments
=============================================================================
