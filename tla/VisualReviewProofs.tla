-------------------------- MODULE VisualReviewProofs --------------------------
(***************************************************************************)
(* The safety properties of publish_session and of the server over it, for *)
(* any number of invocations, requests, items and chunks.  The publisher's *)
(* invariant says, place by place in the code, what an invocation has      *)
(* written and what it knows to own; the visible session is whole because  *)
(* only an invocation at its install step can take the name, and nobody    *)
(* but the owner writes into a directory.  The server's invariant then     *)
(* ties every request to that one session and response.json to the last    *)
(* rename, and says in which order a reader met the renames.               *)
(***************************************************************************)
EXTENDS ReviewServer, FiniteSetTheorems, SequenceTheorems, TLAPS

Content == {c \in Seq(Versions) : Len(c) <= Chunks}

Locations == {"read_manifest", "check_absent", "create_staging", "make_assets", "open_assets",
              "copy_item", "copying", "install", "cleanup"} \cup Ended

Locals == [item : 1..(ItemCount + 1), reference : [Items -> {"first", "second"}],
           asset_stats : SUBSET Items, assets_fd : BOOLEAN, outcome : {"failed", "refused"}]

Typed ==
    /\ source \in [Items -> [file : {"first", "second"}, edited : BOOLEAN]]
    /\ session \in Publishers \cup {NoOne}
    /\ stage \in [Publishers -> [exists : BOOLEAN, assets : BOOLEAN,
                                 files : [Items -> SUBSET Content], review : BOOLEAN]]
    /\ pc \in [Publishers -> Locations]
    /\ held \in [Publishers -> Locals]

(* The copy of item i is whole, and what p was told to expect. *)
Complete(p, i) ==
    /\ stage[p].files[i] # {}
    /\ \A c \in stage[p].files[i] : Len(c) = Chunks /\ (p \in Checked => c = ExpectedContent)

NoAsset(p) == \A i \in Items : stage[p].files[i] = {}

(* Before the first copy nothing is owned because nothing is there. *)
Preparing(p) ==
    /\ held[p].item = 1 /\ held[p].asset_stats = {} /\ ~held[p].assets_fd
    /\ NoAsset(p) /\ ~stage[p].review
    /\ pc[p] = "open_assets" => stage[p].assets

(* Items below held[p].item are copied and owned, those above are not there. *)
Copying(p) ==
    /\ stage[p].assets /\ held[p].assets_fd
    /\ held[p].asset_stats = {i \in Items : i < held[p].item}
    /\ \A i \in Items : i < held[p].item => Complete(p, i)
    /\ \A i \in Items : i > held[p].item => stage[p].files[i] = {}
    /\ pc[p] = "copy_item" => ~stage[p].review /\ \A i \in Items : i = held[p].item => stage[p].files[i] = {}
    /\ pc[p] = "copying" => ~stage[p].review /\ held[p].item \in Items /\ stage[p].files[held[p].item] # {}
    /\ pc[p] = "install" => stage[p].review /\ held[p].item = ItemCount + 1

(* What a cleanup is about to remove is everything that is there. *)
Cleaning(p) ==
    \A i \in Items : stage[p].files[i] # {} => held[p].assets_fd /\ i \in held[p].asset_stats

Refused(p) == session \notin {NoOne, p}

OneContent(p) == \A i \in Items : \A c \in stage[p].files[i] : stage[p].files[i] = {c}

Early == {"read_manifest", "check_absent", "create_staging", "make_assets", "open_assets"}

PublisherInv(p) ==
    /\ OneContent(p)
    /\ stage[p].review => stage[p].assets
    /\ pc[p] \in Early => Preparing(p)
    /\ pc[p] \in {"copy_item", "copying", "install"} => Copying(p)
    /\ pc[p] = "cleanup" => Cleaning(p) /\ (held[p].outcome = "refused" => Refused(p))
    /\ pc[p] \in {"failed", "refused"} => NoAsset(p) /\ ~stage[p].review
    /\ pc[p] = "refused" => Refused(p)
    /\ pc[p] = "published" <=> session = p
    /\ pc[p] = "published" => /\ stage[p].assets /\ stage[p].review
                              /\ \A i \in Items : Complete(p, i)

Inv == Typed /\ \A p \in Publishers : PublisherInv(p)

(* A step of p touches nothing of the others, except that it may take a    *)
(* free name.                                                              *)
Own(p) ==
    /\ \A q \in Publishers \ {p} : stage'[q] = stage[q] /\ pc'[q] = pc[q] /\ held'[q] = held[q]
    /\ session' = session \/ (session = NoOne /\ session' = p)

Preserves(p) == Typed' /\ PublisherInv(p)' /\ Own(p)

-----------------------------------------------------------------------------
LEMMA InitialState == PublisherInit => Inv
<1> SUFFICES ASSUME PublisherInit PROVE Inv
    OBVIOUS
<1>1. Typed
    BY PublisherAssumption DEF PublisherInit, Typed, Locals, EmptyStage, Locations, Items, Content, Versions
<1>2. ASSUME NEW p \in Publishers PROVE PublisherInv(p)
    BY PublisherAssumption DEF PublisherInit, PublisherInv, EmptyStage, OneContent, Preparing,
        NoAsset, Early, Items
<1>3. QED
    BY <1>1, <1>2 DEF Inv

LEMMA ReadManifestStep ==
    ASSUME Inv, NEW p \in Publishers, ReadManifest(p) PROVE Preserves(p)
<1>1. Typed' /\ Own(p)
    BY DEF Inv, Typed, Locals, ReadManifest, Goto, Own, Locations, Versions
<1>2. PublisherInv(p)'
    BY DEF Inv, Typed, Locals, PublisherInv, ReadManifest, Goto, OneContent, Preparing, NoAsset, Early,
        Locations
<1>3. QED
    BY <1>1, <1>2 DEF Preserves

LEMMA CheckAbsentStep ==
    ASSUME Inv, NEW p \in Publishers, CheckAbsent(p) PROVE Preserves(p)
<1>1. Typed' /\ Own(p)
    BY DEF Inv, Typed, Locals, CheckAbsent, Goto, Own, Locations, Ended
<1>2. PublisherInv(p)'
    BY PublisherAssumption DEF Inv, Typed, Locals, PublisherInv, CheckAbsent, Goto, OneContent, Preparing,
        NoAsset, Early, Locations, Refused
<1>3. QED
    BY <1>1, <1>2 DEF Preserves

LEMMA CreateStagingStep ==
    ASSUME Inv, NEW p \in Publishers, CreateStaging(p) PROVE Preserves(p)
<1>1. Typed' /\ Own(p)
    BY DEF Inv, Typed, Locals, CreateStaging, Goto, Own, Locations
<1>2. PublisherInv(p)'
    BY DEF Inv, Typed, Locals, PublisherInv, CreateStaging, Goto, OneContent, Preparing, NoAsset, Early,
        Locations
<1>3. QED
    BY <1>1, <1>2 DEF Preserves

LEMMA MakeAssetsStep ==
    ASSUME Inv, NEW p \in Publishers, MakeAssets(p) PROVE Preserves(p)
<1>1. Typed' /\ Own(p)
    BY DEF Inv, Typed, Locals, MakeAssets, Goto, Own, Locations
<1>2. PublisherInv(p)'
    BY DEF Inv, Typed, Locals, PublisherInv, MakeAssets, Goto, OneContent, Preparing, NoAsset, Early,
        Locations
<1>3. QED
    BY <1>1, <1>2 DEF Preserves

(* An exception with nothing but owned files in the staging directory. *)
LEMMA RaiseStep ==
    ASSUME Inv, NEW p \in Publishers, NEW outcome \in {"failed", "refused"}, Raise(p, outcome),
           source' = source, session' = session, stage' = stage,
           pc[p] # "published", Cleaning(p), outcome = "refused" => Refused(p)
    PROVE  Preserves(p)
<1>1. pc' = [pc EXCEPT ![p] = "cleanup"] /\ held' = [held EXCEPT ![p].outcome = outcome]
    BY DEF Raise, Goto
<1>2. Typed' /\ Own(p)
    BY <1>1 DEF Inv, Typed, Locals, Own, Locations
<1>3. pc'[p] = "cleanup" /\ held'[p].outcome = outcome
    BY <1>1 DEF Inv, Typed, Locals
<1>4. Cleaning(p)'
    BY <1>1 DEF Inv, Typed, Locals, Cleaning
<1>5. PublisherInv(p)'
    BY <1>3, <1>4 DEF Inv, Typed, Locals, PublisherInv, OneContent, Early, Refused
<1>6. QED
    BY <1>2, <1>5 DEF Preserves

LEMMA SetupFailsStep ==
    ASSUME Inv, NEW p \in Publishers, SetupFails(p) PROVE Preserves(p)
<1>1. Preparing(p) /\ pc[p] \in Early \ {"open_assets"} /\ session # p
    BY DEF Inv, PublisherInv, SetupFails, Early
<1>2. source' = source /\ session' = session
    BY DEF SetupFails
<1>3. CASE pc[p] = "make_assets"
    BY <1>1, <1>2, <1>3, RaiseStep DEF SetupFails, Preparing, NoAsset, Cleaning
<1>4. CASE pc[p] # "make_assets"
    <2>1. /\ pc' = [pc EXCEPT ![p] = "failed"] /\ held' = held
          /\ stage' = stage \/ stage' = [stage EXCEPT ![p].exists = TRUE]
        BY <1>4 DEF SetupFails, Goto
    <2>2. Typed' /\ Own(p)
        BY <1>2, <2>1 DEF Inv, Typed, Own, Locations, Ended
    <2>3. /\ stage'[p].files = stage[p].files /\ stage'[p].assets = stage[p].assets
          /\ stage'[p].review = stage[p].review /\ pc'[p] = "failed"
        BY <2>1 DEF Inv, Typed
    <2>4. PublisherInv(p)'
        BY <1>1, <1>2, <2>3 DEF Inv, PublisherInv, OneContent, Preparing, NoAsset, Early
    <2>5. QED
        BY <2>2, <2>4 DEF Preserves
<1>5. QED
    BY <1>3, <1>4

LEMMA OpenAssetsStep ==
    ASSUME Inv, NEW p \in Publishers, NEW opens \in BOOLEAN, OpenAssets(p, opens) PROVE Preserves(p)
<1>1. Preparing(p) /\ pc[p] = "open_assets" /\ held[p] \in Locals
    BY DEF Inv, Typed, Locals, PublisherInv, OpenAssets, Early
<1>2. source' = source /\ session' = session /\ stage' = stage
    BY DEF OpenAssets
<1>3. CASE opens
    <2>1. pc' = [pc EXCEPT ![p] = "copy_item"] /\ held' = [held EXCEPT ![p].assets_fd = TRUE]
        BY <1>3 DEF OpenAssets, Goto
    <2>2. Typed' /\ Own(p)
        BY <1>2, <2>1 DEF Inv, Typed, Locals, Own, Locations
    <2>3. pc'[p] = "copy_item" /\ held'[p] = [held[p] EXCEPT !.assets_fd = TRUE]
        BY <2>1 DEF Inv, Typed, Locals
    <2>4. held'[p].item = 1 /\ held'[p].asset_stats = {} /\ held'[p].assets_fd
        BY <1>1, <2>3 DEF Preparing
    <2>5. Copying(p)'
        <3>1. stage[p].assets /\ ~stage[p].review /\ NoAsset(p)
            BY <1>1 DEF Preparing
        <3>2. {i \in Items : i < 1} = {}
            BY DEF Items
        <3>3. QED
            BY <1>2, <2>3, <2>4, <3>1, <3>2 DEF Copying, NoAsset, Items
    <2>6. PublisherInv(p)'
        BY <1>1, <1>2, <2>3, <2>5 DEF Inv, Typed, Locals, PublisherInv, OneContent, Early
    <2>7. QED
        BY <2>2, <2>6 DEF Preserves
<1>4. CASE ~opens
    BY <1>1, <1>2, <1>4, RaiseStep DEF OpenAssets, Preparing, NoAsset, Cleaning
<1>5. QED
    BY <1>3, <1>4

(* p leaves its copies for the cleanup: all of them are owned. *)
LEMMA CopyingCleans ==
    ASSUME Inv, NEW p \in Publishers, Copying(p), pc[p] \in {"copy_item", "install"}
    PROVE  Cleaning(p)
<1>1. held[p].item \in 1..(ItemCount + 1)
    BY DEF Inv, Typed, Locals
<1>2. ASSUME NEW i \in Items, stage[p].files[i] # {} PROVE i < held[p].item
    BY <1>1, <1>2, PublisherAssumption DEF Copying, Items
<1>3. QED
    BY <1>2 DEF Copying, Cleaning

LEMMA BeginCopyStep ==
    ASSUME Inv, NEW p \in Publishers, BeginCopy(p) PROVE Preserves(p)
<1> DEFINE i == held[p].item
<1>1. Copying(p) /\ i \in Items /\ pc[p] = "copy_item"
    BY DEF Inv, PublisherInv, BeginCopy
<1>2. CASE source[i].file = held[p].reference[i]
    <2>1. /\ stage' = [stage EXCEPT ![p].files[i] = {<<>>}]
          /\ pc' = [pc EXCEPT ![p] = "copying"]
          /\ held' = held /\ source' = source /\ session' = session
        BY <1>2 DEF BeginCopy, Goto
    <2>2. <<>> \in Content
        BY PublisherAssumption DEF Content
    <2>3. Typed' /\ Own(p)
        BY <1>1, <2>1, <2>2 DEF Inv, Typed, Locals, Own, Locations
    <2>4. /\ stage'[p].files[i] = {<<>>}
          /\ \A k \in Items : k # i => stage'[p].files[k] = stage[p].files[k]
          /\ stage'[p].assets = stage[p].assets /\ stage'[p].review = stage[p].review
        BY <1>1, <2>1 DEF Inv, Typed, Locals
    <2>5. Copying(p)'
        <3>1. \A k \in Items : k < i => Complete(p, k)'
            BY <1>1, <2>1, <2>4 DEF Copying, Complete, Items
        <3>2. \A k \in Items : k > i => stage'[p].files[k] = {}
            BY <1>1, <2>4 DEF Copying, Items
        <3>3. pc'[p] = "copying"
            BY <2>1 DEF Inv, Typed, Locals
        <3>4. QED
            BY <1>1, <2>1, <2>4, <3>1, <3>2, <3>3 DEF Copying
    <2>6. PublisherInv(p)'
        BY <1>1, <2>1, <2>4, <2>5 DEF Inv, Typed, Locals, PublisherInv, OneContent, Early
    <2>7. QED
        BY <2>3, <2>6 DEF Preserves
<1>3. CASE source[i].file # held[p].reference[i]
    BY <1>1, <1>3, CopyingCleans, RaiseStep DEF BeginCopy
<1>4. QED
    BY <1>2, <1>3

(* What is being copied is one content, and its owner's to change. *)
LEMMA CopiedContent ==
    ASSUME Inv, NEW p \in Publishers, pc[p] = "copying"
    PROVE  /\ Copying(p) /\ held[p].item \in Items
           /\ Copied(p) \in Content /\ stage[p].files[held[p].item] = {Copied(p)}
<1> DEFINE i == held[p].item
<1>1. Copying(p) /\ i \in Items /\ stage[p].files[i] # {}
    BY DEF Inv, PublisherInv, Copying
<1>2. PICK c \in stage[p].files[i] : TRUE
    BY <1>1
<1>3. stage[p].files[i] = {c} /\ c \in Content
    BY <1>1, <1>2 DEF Inv, Typed, Locals, PublisherInv, OneContent
<1>4. Copied(p) = c
    BY <1>3 DEF Copied
<1>5. QED
    BY <1>1, <1>3, <1>4

LEMMA CopyChunkStep ==
    ASSUME Inv, NEW p \in Publishers, CopyChunk(p) PROVE Preserves(p)
<1> DEFINE i == held[p].item
           c == Append(Copied(p), Version(i, held[p].reference[i]))
<1>1. pc[p] = "copying" /\ Len(Copied(p)) < Chunks
    BY DEF CopyChunk
<1>2. Copying(p) /\ i \in Items /\ Copied(p) \in Content
    BY <1>1, CopiedContent
<1>3. /\ stage' = [stage EXCEPT ![p].files[i] = {c}]
      /\ pc' = pc /\ held' = held /\ source' = source /\ session' = session
    BY DEF CopyChunk
<1>4. c \in Content
    BY <1>1, <1>2, PublisherAssumption DEF Content, Version, Versions
<1> HIDE DEF c
<1>5. Typed' /\ Own(p)
    BY <1>2, <1>3, <1>4 DEF Inv, Typed, Locals, Own
<1>6. /\ stage'[p].files[i] = {c}
      /\ \A k \in Items : k # i => stage'[p].files[k] = stage[p].files[k]
      /\ stage'[p].assets = stage[p].assets /\ stage'[p].review = stage[p].review
    BY <1>2, <1>3 DEF Inv, Typed, Locals
<1>7. Copying(p)'
    <2>1. \A k \in Items : k < i => Complete(p, k)'
        BY <1>2, <1>3, <1>6 DEF Copying, Complete, Items
    <2>2. \A k \in Items : k > i => stage'[p].files[k] = {}
        BY <1>2, <1>6 DEF Copying, Items
    <2>3. QED
        BY <1>1, <1>2, <1>3, <1>6, <2>1, <2>2 DEF Copying
<1>8. PublisherInv(p)'
    BY <1>1, <1>3, <1>6, <1>7 DEF Inv, Typed, Locals, PublisherInv, OneContent, Early
<1>9. QED
    BY <1>5, <1>8 DEF Preserves

LEMMA CopyFailsStep ==
    ASSUME Inv, NEW p \in Publishers, CopyFails(p) PROVE Preserves(p)
<1> DEFINE i == held[p].item
<1>1. pc[p] \in {"copy_item", "copying"} /\ Copying(p) /\ i \in Items
    BY DEF Inv, PublisherInv, CopyFails
<1>2. /\ stage' = [stage EXCEPT ![p].files[i] = {}]
      /\ pc' = [pc EXCEPT ![p] = "cleanup"]
      /\ held' = [held EXCEPT ![p].outcome = "failed"]
      /\ source' = source /\ session' = session
    BY DEF CopyFails, Raise, Goto
<1>3. Typed' /\ Own(p)
    BY <1>1, <1>2 DEF Inv, Typed, Locals, Own, Locations
<1>4. /\ stage'[p].files[i] = {}
      /\ \A k \in Items : k # i => stage'[p].files[k] = stage[p].files[k]
      /\ stage'[p].assets = stage[p].assets /\ stage'[p].review = stage[p].review
      /\ pc'[p] = "cleanup" /\ held'[p].outcome = "failed"
      /\ held'[p].asset_stats = held[p].asset_stats /\ held'[p].assets_fd = held[p].assets_fd
    BY <1>1, <1>2 DEF Inv, Typed, Locals
<1>5. Cleaning(p)'
    BY <1>1, <1>4 DEF Copying, Cleaning, Items
<1>6. PublisherInv(p)'
    BY <1>1, <1>2, <1>4, <1>5 DEF Inv, Typed, Locals, PublisherInv, OneContent, Early
<1>7. QED
    BY <1>3, <1>6 DEF Preserves

LEMMA FinishCopyStep ==
    ASSUME Inv, NEW p \in Publishers, FinishCopy(p) PROVE Preserves(p)
<1> DEFINE i == held[p].item
           owned == held[p].asset_stats \cup {i}
<1>1. pc[p] = "copying" /\ Len(Copied(p)) = Chunks
    BY DEF FinishCopy
<1>2. /\ Copying(p) /\ i \in Items
      /\ Copied(p) \in Content /\ stage[p].files[i] = {Copied(p)}
    BY <1>1, CopiedContent
<1>3. stage' = stage /\ source' = source /\ session' = session
    BY DEF FinishCopy
<1>4. CASE p \in Checked /\ Copied(p) # ExpectedContent
    <2>1. /\ held' = [held EXCEPT ![p].asset_stats = owned, ![p].outcome = "failed"]
          /\ pc' = [pc EXCEPT ![p] = "cleanup"]
        BY <1>4 DEF FinishCopy, Goto
    <2>2. Typed' /\ Own(p)
        <3> DEFINE after == [held[p] EXCEPT !.asset_stats = owned, !.outcome = "failed"]
        <3>1. held' = [held EXCEPT ![p] = after]
            BY <2>1 DEF Inv, Typed
        <3>2. after \in Locals
            BY <1>2 DEF Inv, Typed, Locals
        <3> HIDE DEF after
        <3>3. QED
            BY <1>3, <2>1, <3>1, <3>2 DEF Inv, Typed, Own, Locations
    <2>3. /\ pc'[p] = "cleanup" /\ held'[p].outcome = "failed" /\ held'[p].asset_stats = owned
          /\ held'[p].assets_fd = held[p].assets_fd
        BY <2>1 DEF Inv, Typed, Locals
    <2>4. Cleaning(p)'
        BY <1>2, <1>3, <2>3 DEF Copying, Cleaning, Items
    <2>5. PublisherInv(p)'
        BY <1>1, <1>3, <2>3, <2>4 DEF Inv, Typed, Locals, PublisherInv, OneContent, Early
    <2>6. QED
        BY <2>2, <2>5 DEF Preserves
<1>5. CASE ~(p \in Checked /\ Copied(p) # ExpectedContent)
    <2>1. /\ held' = [held EXCEPT ![p].asset_stats = owned, ![p].item = i + 1]
          /\ pc' = [pc EXCEPT ![p] = "copy_item"]
        BY <1>5 DEF FinishCopy, Goto
    <2>2. i + 1 \in 1..(ItemCount + 1)
        BY <1>2, PublisherAssumption DEF Items
    <2>3. Typed' /\ Own(p)
        <3> DEFINE after == [held[p] EXCEPT !.asset_stats = owned, !.item = i + 1]
        <3>1. held' = [held EXCEPT ![p] = after]
            BY <2>1 DEF Inv, Typed, Locals
        <3>2. after \in Locals
            BY <1>2, <2>2 DEF Inv, Typed, Locals
        <3> HIDE DEF after
        <3>3. QED
            BY <1>3, <2>1, <3>1, <3>2 DEF Inv, Typed, Own, Locations
    <2>4. /\ pc'[p] = "copy_item" /\ held'[p].item = i + 1 /\ held'[p].asset_stats = owned
          /\ held'[p].assets_fd = held[p].assets_fd
        BY <2>1 DEF Inv, Typed, Locals
    <2>5. Copying(p)'
        <3>1. Complete(p, i)
            BY <1>1, <1>2, <1>5 DEF Complete
        <3>2. ASSUME NEW k \in Items, k < i + 1 PROVE Complete(p, k)'
            <4>1. k < i \/ k = i
                BY <1>2, <3>2 DEF Items
            <4>2. Complete(p, k)
                BY <1>2, <3>1, <4>1 DEF Copying
            <4>3. QED
                BY <1>3, <4>2 DEF Complete
        <3>3. owned = {k \in Items : k < i + 1}
            BY <1>2 DEF Copying, Items
        <3>4. \A k \in Items : k >= i + 1 => stage[p].files[k] = {}
            BY <1>2 DEF Copying, Items
        <3>5. ~stage[p].review
            BY <1>1, <1>2 DEF Copying
        <3>6. QED
            BY <1>2, <1>3, <2>4, <3>2, <3>3, <3>4, <3>5 DEF Copying, Items
    <2>6. PublisherInv(p)'
        BY <1>1, <1>3, <2>4, <2>5 DEF Inv, Typed, Locals, PublisherInv, OneContent, Early
    <2>7. QED
        BY <2>3, <2>6 DEF Preserves
<1>6. QED
    BY <1>4, <1>5

LEMMA WriteReviewStep ==
    ASSUME Inv, NEW p \in Publishers, NEW writes \in BOOLEAN, WriteReview(p, writes)
    PROVE  Preserves(p)
<1>1. Copying(p) /\ pc[p] = "copy_item" /\ held[p].item = ItemCount + 1
    <2>1. held[p].item \in 1..(ItemCount + 1)
        BY DEF Inv, Typed, Locals
    <2>2. QED
        BY <2>1, PublisherAssumption DEF Inv, PublisherInv, WriteReview
<1>2. CASE writes
    <2>1. /\ stage' = [stage EXCEPT ![p].review = TRUE]
          /\ pc' = [pc EXCEPT ![p] = "install"]
          /\ held' = held /\ source' = source /\ session' = session
        BY <1>2 DEF WriteReview, Goto
    <2>2. Typed' /\ Own(p)
        BY <2>1 DEF Inv, Typed, Own, Locations
    <2>3. /\ stage'[p].files = stage[p].files /\ stage'[p].assets = stage[p].assets
          /\ stage'[p].review /\ pc'[p] = "install"
        BY <2>1 DEF Inv, Typed
    <2>4. Copying(p)'
        BY <1>1, <2>1, <2>3 DEF Copying, Complete
    <2>5. PublisherInv(p)'
        BY <1>1, <2>1, <2>3, <2>4 DEF Inv, Typed, PublisherInv, OneContent, Early, Copying
    <2>6. QED
        BY <2>2, <2>5 DEF Preserves
<1>3. CASE ~writes
    BY <1>1, <1>3, CopyingCleans, RaiseStep DEF WriteReview
<1>4. QED
    BY <1>2, <1>3

LEMMA InstallStep ==
    ASSUME Inv, NEW p \in Publishers, Install(p) PROVE Preserves(p)
<1>1. Copying(p) /\ pc[p] = "install" /\ session # p
    BY DEF Inv, PublisherInv, Install
<1>2. CASE session = NoOne
    <2>1. /\ stage' = [stage EXCEPT ![p].exists = FALSE]
          /\ pc' = [pc EXCEPT ![p] = "published"]
          /\ held' = held /\ source' = source /\ session' = p
        BY <1>2 DEF Install, Goto
    <2>2. Typed' /\ Own(p)
        BY <1>2, <2>1 DEF Inv, Typed, Own, Locations, Ended
    <2>3. /\ stage'[p].files = stage[p].files /\ stage'[p].assets = stage[p].assets
          /\ stage'[p].review = stage[p].review /\ pc'[p] = "published"
        BY <2>1 DEF Inv, Typed
    <2>4. \A i \in Items : Complete(p, i)'
        BY <1>1, <2>1, <2>3, PublisherAssumption DEF Copying, Complete, Items
    <2>5. PublisherInv(p)'
        BY <1>1, <2>1, <2>3, <2>4 DEF Inv, Typed, PublisherInv, OneContent, Early, Copying
    <2>6. QED
        BY <2>2, <2>5 DEF Preserves
<1>3. CASE session # NoOne
    BY <1>1, <1>3, CopyingCleans, RaiseStep DEF Install, Refused
<1>4. QED
    BY <1>2, <1>3

LEMMA InstallFailsStep ==
    ASSUME Inv, NEW p \in Publishers, InstallFails(p) PROVE Preserves(p)
<1>1. Copying(p) /\ pc[p] = "install"
    BY DEF Inv, PublisherInv, InstallFails
<1>2. QED
    BY <1>1, CopyingCleans, RaiseStep DEF InstallFails

LEMMA CleanupStep ==
    ASSUME Inv, NEW p \in Publishers, Cleanup(p) PROVE Preserves(p)
<1> DEFINE kept == [i \in Items |-> IF held[p].assets_fd /\ i \in held[p].asset_stats
                                    THEN {} ELSE stage[p].files[i]]
           after == [stage[p] EXCEPT !.files = kept,
                                     !.assets = stage[p].assets /\ ~held[p].assets_fd,
                                     !.review = FALSE]
<1>1. pc[p] = "cleanup" /\ Cleaning(p) /\ (held[p].outcome = "refused" => Refused(p))
    BY DEF Inv, PublisherInv, Cleanup
<1>2. /\ pc' = [pc EXCEPT ![p] = held[p].outcome]
      /\ held' = held /\ source' = source /\ session' = session
    BY DEF Cleanup, Goto
<1>3. stage' = [stage EXCEPT ![p] = after]
    BY DEF Cleanup, Inv, Typed
<1>4. kept \in [Items -> SUBSET Content] /\ \A i \in Items : kept[i] = {}
    BY <1>1 DEF Inv, Typed, Cleaning
<1>5. /\ after \in [exists : BOOLEAN, assets : BOOLEAN,
                     files : [Items -> SUBSET Content], review : BOOLEAN]
      /\ after.files = kept /\ after.review = FALSE
    BY <1>4 DEF Inv, Typed
<1> HIDE DEF after, kept
<1>6. Typed' /\ Own(p)
    BY <1>2, <1>3, <1>5 DEF Inv, Typed, Locals, Own, Locations, Ended
<1>7. NoAsset(p)' /\ ~stage'[p].review
    BY <1>3, <1>4, <1>5 DEF Inv, Typed, NoAsset
<1>8. pc'[p] \in {"failed", "refused"} /\ (pc'[p] = "refused" => Refused(p))
    BY <1>1, <1>2 DEF Inv, Typed, Locals
<1>9. PublisherInv(p)'
    BY <1>1, <1>2, <1>7, <1>8 DEF Inv, Typed, PublisherInv, OneContent, NoAsset, Early, Refused
<1>10. QED
    BY <1>6, <1>9 DEF Preserves

LEMMA CrashStep ==
    ASSUME Inv, NEW p \in Publishers, Crash(p) PROVE Preserves(p)
<1>1. /\ pc[p] \notin Ended /\ pc' = [pc EXCEPT ![p] = "crashed"]
      /\ stage' = stage /\ held' = held /\ source' = source /\ session' = session
    BY DEF Crash, Goto
<1>2. Typed' /\ Own(p)
    BY <1>1 DEF Inv, Typed, Own, Locations, Ended
<1>3. PublisherInv(p)'
    BY <1>1 DEF Inv, Typed, PublisherInv, OneContent, Early, Ended
<1>4. QED
    BY <1>2, <1>3 DEF Preserves

-----------------------------------------------------------------------------
(* Everybody else's part of the invariant survives a step of p. *)
LEMMA OthersUndisturbed ==
    ASSUME Inv, NEW p \in Publishers, Preserves(p) PROVE Inv'
<1>1. Typed' /\ PublisherInv(p)' /\ Own(p)
    BY DEF Preserves
<1>2. ASSUME NEW q \in Publishers, q # p PROVE PublisherInv(q)'
    <2>1. stage'[q] = stage[q] /\ pc'[q] = pc[q] /\ held'[q] = held[q]
        BY <1>1, <1>2 DEF Own
    <2>2. Refused(q) => Refused(q)'
        BY <1>1, <1>2, PublisherAssumption DEF Refused, Own
    <2>3. session = q <=> session' = q
        BY <1>1, <1>2, PublisherAssumption DEF Own
    <2>4. /\ OneContent(q) => OneContent(q)'
          /\ Preparing(q) => Preparing(q)'
          /\ Copying(q) => Copying(q)'
          /\ Cleaning(q) => Cleaning(q)'
          /\ NoAsset(q) => NoAsset(q)'
          /\ \A i \in Items : Complete(q, i) => Complete(q, i)'
        BY <2>1 DEF OneContent, Preparing, Copying, Cleaning, NoAsset, Complete
    <2>5. PublisherInv(q)
        BY DEF Inv
    <2>6. QED
        BY <2>1, <2>2, <2>3, <2>4, <2>5 DEF PublisherInv
<1>3. QED
    BY <1>1, <1>2 DEF Inv

LEMMA PublisherStep ==
    ASSUME Inv, NEW p \in Publishers, Step(p) \/ Mishap(p) PROVE Preserves(p)
<1>1. CASE \E works \in BOOLEAN : OpenAssets(p, works) \/ WriteReview(p, works)
    BY <1>1, OpenAssetsStep, WriteReviewStep
<1>2. CASE ~\E works \in BOOLEAN : OpenAssets(p, works) \/ WriteReview(p, works)
    BY <1>2, ReadManifestStep, CheckAbsentStep, CreateStagingStep, MakeAssetsStep, BeginCopyStep,
       CopyChunkStep, FinishCopyStep, InstallStep, CleanupStep, CopyFailsStep, InstallFailsStep,
       CrashStep, SetupFailsStep DEF Step, Mishap
<1>3. QED
    BY <1>1, <1>2

(* Nothing in the invariant looks at the sources. *)
LEMMA SourcesAreFree ==
    ASSUME Inv, UNCHANGED <<session, stage, pc, held>>,
           source' \in [Items -> [file : {"first", "second"}, edited : BOOLEAN]]
    PROVE  Inv'
<1>1. Typed'
    BY DEF Inv, Typed
<1>2. ASSUME NEW p \in Publishers PROVE PublisherInv(p)'
    <2>1. PublisherInv(p)
        BY DEF Inv
    <2>2. QED
        BY <2>1 DEF PublisherInv, OneContent, Preparing, Copying, Cleaning, NoAsset, Complete, Refused
<1>3. QED
    BY <1>1, <1>2 DEF Inv

LEMMA Inductive == Inv /\ [PublisherNext]_publisherVars => Inv'
<1> SUFFICES ASSUME Inv, [PublisherNext]_publisherVars PROVE Inv'
    OBVIOUS
<1>1. ASSUME NEW p \in Publishers, Step(p) \/ Mishap(p) PROVE Inv'
    BY <1>1, PublisherStep, OthersUndisturbed
<1>2. ASSUME NEW i \in Items, TouchSource(i) PROVE Inv'
    <2>1. source' \in [Items -> [file : {"first", "second"}, edited : BOOLEAN]]
        BY <1>2 DEF Inv, Typed, TouchSource
    <2>2. QED
        BY <1>2, <2>1, SourcesAreFree DEF TouchSource
<1>3. CASE UNCHANGED publisherVars
    BY <1>3, SourcesAreFree DEF publisherVars, Inv, Typed
<1>4. QED
    BY <1>1, <1>2, <1>3 DEF PublisherNext

LEMMA Invariance == PublisherSpec => []Inv
    BY InitialState, Inductive, PTL DEF PublisherSpec

-----------------------------------------------------------------------------
(* Directories and locals keep their types whatever the invocations do.    *)
THEOREM PublisherTypes == PublisherSpec => []PublisherTypeOK
<1>1. Inv => PublisherTypeOK
    <2> SUFFICES ASSUME Inv PROVE PublisherTypeOK
        OBVIOUS
    <2>1. ASSUME NEW p \in Publishers, NEW i \in Items
          PROVE  /\ Cardinality(stage[p].files[i]) <= 1
                 /\ \A c \in stage[p].files[i] : Len(c) <= Chunks /\ Range(c) \subseteq Versions
        <3>1. stage[p].files[i] \subseteq Content
            BY DEF Inv, Typed
        <3>2. stage[p].files[i] = {} \/ \E c : stage[p].files[i] = {c}
            BY DEF Inv, PublisherInv, OneContent
        <3>3. Cardinality(stage[p].files[i]) \in {0, 1}
            BY <3>2, FS_EmptySet, FS_Singleton, Zenon
        <3>4. \A c \in Content : Len(c) <= Chunks /\ Range(c) \subseteq Versions
            BY DEF Content, Range
        <3>5. QED
            BY <3>1, <3>3, <3>4
    <2>2. QED
        BY <2>1 DEF PublisherTypeOK, Inv, Typed, Locals, PublisherInv
<1>2. QED
    BY <1>1, Invariance, PTL

(* What a reader finds under the session's name misses no file, has no     *)
(* partial file and, where the caller said what it expects, no other bytes,*)
(* for any number of invocations, items and chunks.                        *)
THEOREM VisibleSessionIsAlwaysWhole == PublisherSpec => []VisibleSessionIsWhole
<1>1. Inv => VisibleSessionIsWhole
    <2> SUFFICES ASSUME Inv, session # NoOne PROVE VisibleSessionIsWhole
        BY DEF VisibleSessionIsWhole
    <2>1. session \in Publishers /\ pc[session] = "published"
        BY DEF Inv, Typed, PublisherInv
    <2>2. /\ stage[session].assets /\ stage[session].review
          /\ \A i \in Items : Complete(session, i)
        BY <2>1 DEF Inv, PublisherInv
    <2>3. QED
        BY <2>2 DEF VisibleSessionIsWhole, Whole, Complete
<1>2. QED
    BY <1>1, Invariance, PTL

(* A failed or refused invocation leaves no file of its own behind, and a  *)
(* refusal always names a session somebody else published.                 *)
THEOREM FailureAlwaysLeavesNoFile == PublisherSpec => []FailureLeavesNoFile
<1>1. Inv => FailureLeavesNoFile
    BY DEF Inv, PublisherInv, FailureLeavesNoFile, NoAsset, Refused
<1>2. QED
    BY <1>1, Invariance, PTL

LEMMA SessionStays ==
    ASSUME Inv, PublisherNext, session # NoOne
    PROVE  session' = session /\ stage'[session] = stage[session]
<1>1. session \in Publishers /\ pc[session] = "published"
    BY DEF Inv, Typed, PublisherInv
<1>2. ASSUME NEW p \in Publishers, Step(p) \/ Mishap(p)
      PROVE  session' = session /\ stage'[session] = stage[session]
    <2>1. Own(p)
        BY <1>2, PublisherStep DEF Preserves
    <2>2. p # session
        BY <1>1, <1>2 DEF Step, Mishap, ReadManifest, CheckAbsent, CreateStaging, MakeAssets,
            OpenAssets, BeginCopy, CopyChunk, FinishCopy, WriteReview, Install, Cleanup,
            SetupFails, CopyFails, InstallFails, Crash, Ended
    <2>3. QED
        BY <1>1, <2>1, <2>2 DEF Own
<1>3. QED
    BY <1>2 DEF PublisherNext, TouchSource

(* Once published, a session's directory keeps its name and its contents.  *)
THEOREM SessionsAreImmutable == PublisherSpec => SessionIsImmutable
<1>1. Inv /\ [PublisherNext]_publisherVars =>
        [session # NoOne => session' = session /\ stage'[session] = stage[session]]_publisherVars
    BY SessionStays DEF publisherVars
<1>2. QED
    BY <1>1, Invariance, PTL DEF PublisherSpec, SessionIsImmutable

-----------------------------------------------------------------------------
(* The server *)

PostPlaces == InFlight \cup {"request", "answered", "refused", "lost"}
GetPlaces == {"request", "loaded", "opened", "answered", "refused", "lost"}
Amounts == {"nothing", "part", "whole"}

Handlers == [at : PostPlaces, dir : Publishers \cup {NoOne}]
Readers == [at : GetPlaces, dir : Publishers \cup {NoOne}, file : Posts \cup {NoOne},
            seen : Amounts, after : SUBSET Posts]

ServerTyped ==
    /\ response \in [Publishers -> Posts \cup {NoOne}]
    /\ temporary \in SUBSET Posts /\ replied \in SUBSET Posts
    /\ written \in [Posts -> Amounts]
    /\ post \in [Posts -> Handlers]
    /\ get \in [Gets -> Readers]
    /\ saves \in Seq(Posts)

SavedOnce == \A m, n \in DOMAIN saves : saves[m] = saves[n] => m = n

(* response.json of the session is the file renamed last; no other         *)
(* directory has one.                                                      *)
LastSaveIsThere ==
    /\ saves # <<>> => session # NoOne /\ response[session] = saves[Len(saves)]
    /\ \A d \in Publishers : saves = <<>> \/ d # session => response[d] = NoOne

(* What a POST has done at each place of do_POST. *)
PostInv(w) ==
    /\ post[w].at \in InFlight \cup {"answered"} => session # NoOne /\ post[w].dir = session
    /\ post[w].at \in {"writing", "renaming"} => w \in temporary
    /\ w \in temporary => post[w].at \in {"writing", "renaming", "lost"}
    /\ post[w].at \in {"renaming", "saved", "answered"} \/ w \in Range(saves) =>
            written[w] = "whole"
    /\ post[w].at \in {"saved", "answered"} => w \in Range(saves)
    /\ w \in Range(saves) => post[w].at \in {"saved", "answered", "lost"}
    /\ w \in replied => post[w].at = "answered"

(* The opened file is one that was renamed, and no POST answered before    *)
(* the GET began was renamed after it.                                     *)
Current(g) ==
    /\ get[g].file = NoOne => get[g].after = {}
    /\ get[g].file # NoOne => get[g].file \in Range(saves)
    /\ \A m, n \in DOMAIN saves : saves[m] \in get[g].after /\ saves[n] = get[g].file => m <= n

GetInv(g) ==
    /\ get[g].after \subseteq replied
    /\ get[g].at \in {"loaded", "opened", "answered"} => session # NoOne /\ get[g].dir = session
    /\ get[g].at \in {"opened", "answered"} => Current(g)
    /\ get[g].at = "opened" => get[g].file # NoOne
    /\ get[g].at = "answered" /\ get[g].file # NoOne => get[g].seen = "whole"

RequestsInv == /\ ServerTyped /\ SavedOnce /\ LastSaveIsThere
               /\ \A w \in Posts : PostInv(w)
               /\ \A g \in Gets : GetInv(g)

ServerInv == Inv /\ RequestsInv

(* A step of the handler w that leaves the files and histories of the      *)
(* others alone.                                                           *)
OnlyHandler(w) ==
    \A v \in Posts \ {w} :
        /\ post'[v] = post[v] /\ written'[v] = written[v]
        /\ v \in temporary' <=> v \in temporary
        /\ v \in replied' <=> v \in replied
        /\ v \in Range(saves') <=> v \in Range(saves)

LEMMA OtherHandlers ==
    ASSUME RequestsInv, NEW w \in Posts, OnlyHandler(w), session' = session
    PROVE  \A v \in Posts \ {w} : PostInv(v)'
<1> SUFFICES ASSUME NEW v \in Posts \ {w} PROVE PostInv(v)'
    OBVIOUS
<1>1. PostInv(v)
    BY DEF RequestsInv
<1>2. QED
    BY <1>1 DEF OnlyHandler, PostInv

LEMMA ReadersKeep ==
    ASSUME RequestsInv, session' = session, get' = get, saves' = saves, replied \subseteq replied'
    PROVE  \A g \in Gets : GetInv(g)'
<1> SUFFICES ASSUME NEW g \in Gets PROVE GetInv(g)'
    OBVIOUS
<1>1. GetInv(g)
    BY DEF RequestsInv
<1>2. Current(g) => Current(g)'
    BY DEF Current
<1>3. QED
    BY <1>1, <1>2 DEF GetInv

LEMMA InitialServer == Init => ServerInv
<1> SUFFICES ASSUME Init PROVE ServerInv
    OBVIOUS
<1>1. Inv
    BY InitialState DEF Init
<1>2. ServerTyped
    BY ServerAssumption DEF Init, ServerInit, ServerTyped, Handlers, Readers, PostPlaces, GetPlaces,
        Amounts, InFlight
<1>3. SavedOnce /\ LastSaveIsThere
    BY DEF Init, ServerInit, SavedOnce, LastSaveIsThere
<1>4. ASSUME NEW w \in Posts PROVE PostInv(w)
    BY DEF Init, ServerInit, PostInv, InFlight, Range
<1>5. ASSUME NEW g \in Gets PROVE GetInv(g)
    BY DEF Init, ServerInit, GetInv
<1>6. QED
    BY <1>1, <1>2, <1>3, <1>4, <1>5 DEF ServerInv, RequestsInv

-----------------------------------------------------------------------------
(* do_POST: what each step of a handler preserves. *)

LEMMA HandlerStep ==
    ASSUME RequestsInv, NEW w \in Posts, session' = session, get' = get, saves' = saves,
           response' = response, replied \subseteq replied', OnlyHandler(w), ServerTyped', PostInv(w)'
    PROVE  RequestsInv'
<1>1. \A v \in Posts : PostInv(v)'
    BY OtherHandlers
<1>2. \A g \in Gets : GetInv(g)'
    BY ReadersKeep
<1>3. SavedOnce' /\ LastSaveIsThere'
    BY DEF RequestsInv, SavedOnce, LastSaveIsThere
<1>4. QED
    BY <1>1, <1>2, <1>3 DEF RequestsInv

LEMMA PostLoadStep ==
    ASSUME ServerInv, NEW w \in Posts, PostLoad(w), UNCHANGED publisherVars PROVE RequestsInv'
<1>1. ServerTyped /\ PostInv(w) /\ RequestsInv /\ session \in Publishers \cup {NoOne}
    BY DEF ServerInv, RequestsInv, Inv, Typed
<1>2. session' = session
    BY DEF publisherVars
<1> DEFINE h == IF session # NoOne /\ Whole(session) THEN [at |-> "loaded", dir |-> session]
                ELSE [at |-> "refused", dir |-> NoOne]
<1>3. /\ h \in Handlers /\ post' = [post EXCEPT ![w] = h]
      /\ \/ h.at = "loaded" /\ h.dir = session /\ session # NoOne
         \/ h.at = "refused"
    BY <1>1 DEF PostLoad, Handlers, PostPlaces, InFlight
<1> HIDE DEF h
<1>4. ServerTyped' /\ OnlyHandler(w) /\ post'[w] = h
    BY <1>1, <1>3 DEF PostLoad, ServerTyped, OnlyHandler
<1>5. PostInv(w)'
    BY <1>1, <1>2, <1>3, <1>4 DEF PostLoad, PostInv, InFlight
<1>6. QED
    BY <1>1, <1>2, <1>4, <1>5, HandlerStep DEF PostLoad

LEMMA MovesOneHandler ==
    ASSUME ServerTyped, NEW w \in Posts, NEW next \in PostPlaces, PostGoto(w, next)
    PROVE  /\ post' \in [Posts -> Handlers]
           /\ post'[w].at = next /\ post'[w].dir = post[w].dir
           /\ \A v \in Posts \ {w} : post'[v] = post[v]
    BY DEF ServerTyped, PostGoto, Handlers

LEMMA PostRejectStep ==
    ASSUME ServerInv, NEW w \in Posts, PostReject(w), UNCHANGED publisherVars PROVE RequestsInv'
<1>1. ServerTyped /\ PostInv(w) /\ RequestsInv /\ session' = session
    BY DEF ServerInv, RequestsInv, publisherVars
<1>2. /\ post' \in [Posts -> Handlers] /\ post'[w].at = "refused"
      /\ \A v \in Posts \ {w} : post'[v] = post[v]
    BY <1>1, MovesOneHandler DEF PostReject, PostPlaces
<1>3. ServerTyped' /\ OnlyHandler(w) /\ PostInv(w)'
    BY <1>1, <1>2 DEF PostReject, ServerTyped, OnlyHandler, PostInv, InFlight
<1>4. QED
    BY <1>1, <1>3, HandlerStep DEF PostReject

LEMMA OpenTemporaryStep ==
    ASSUME ServerInv, NEW w \in Posts, OpenTemporary(w), UNCHANGED publisherVars PROVE RequestsInv'
<1>1. ServerTyped /\ PostInv(w) /\ RequestsInv /\ session' = session
    BY DEF ServerInv, RequestsInv, publisherVars
<1>2. /\ post' \in [Posts -> Handlers] /\ post'[w].at = "writing" /\ post'[w].dir = post[w].dir
      /\ \A v \in Posts \ {w} : post'[v] = post[v]
    BY <1>1, MovesOneHandler DEF OpenTemporary, PostPlaces, InFlight
<1>3. ServerTyped' /\ OnlyHandler(w) /\ PostInv(w)'
    BY <1>1, <1>2 DEF OpenTemporary, ServerTyped, OnlyHandler, PostInv, InFlight, Amounts
<1>4. QED
    BY <1>1, <1>3, HandlerStep DEF OpenTemporary

LEMMA WriteResponseStep ==
    ASSUME ServerInv, NEW w \in Posts, WriteResponse(w), UNCHANGED publisherVars PROVE RequestsInv'
<1>1. ServerTyped /\ PostInv(w) /\ RequestsInv /\ session' = session
    BY DEF ServerInv, RequestsInv, publisherVars
<1>2. /\ post' \in [Posts -> Handlers] /\ post'[w].at = "renaming" /\ post'[w].dir = post[w].dir
      /\ \A v \in Posts \ {w} : post'[v] = post[v]
    BY <1>1, MovesOneHandler DEF WriteResponse, PostPlaces, InFlight
<1>3. ServerTyped' /\ OnlyHandler(w) /\ PostInv(w)'
    BY <1>1, <1>2 DEF WriteResponse, ServerTyped, OnlyHandler, PostInv, InFlight, Amounts
<1>4. QED
    BY <1>1, <1>3, HandlerStep DEF WriteResponse

LEMMA SaveFailsStep ==
    ASSUME ServerInv, NEW w \in Posts, SaveFails(w), UNCHANGED publisherVars PROVE RequestsInv'
<1>1. ServerTyped /\ PostInv(w) /\ RequestsInv /\ session' = session
    BY DEF ServerInv, RequestsInv, publisherVars
<1>2. /\ post' \in [Posts -> Handlers] /\ post'[w].at = "refused"
      /\ \A v \in Posts \ {w} : post'[v] = post[v]
    BY <1>1, MovesOneHandler DEF SaveFails, PostPlaces
<1>3. ServerTyped' /\ OnlyHandler(w) /\ PostInv(w)'
    BY <1>1, <1>2 DEF SaveFails, ServerTyped, OnlyHandler, PostInv, InFlight
<1>4. QED
    BY <1>1, <1>3, HandlerStep DEF SaveFails

LEMMA ReplyStep ==
    ASSUME ServerInv, NEW w \in Posts, Reply(w), UNCHANGED publisherVars PROVE RequestsInv'
<1>1. ServerTyped /\ PostInv(w) /\ RequestsInv /\ session' = session
    BY DEF ServerInv, RequestsInv, publisherVars
<1>2. /\ post' \in [Posts -> Handlers] /\ post'[w].at = "answered" /\ post'[w].dir = post[w].dir
      /\ \A v \in Posts \ {w} : post'[v] = post[v]
    BY <1>1, MovesOneHandler DEF Reply, PostPlaces
<1>3. ServerTyped' /\ OnlyHandler(w) /\ PostInv(w)' /\ replied \subseteq replied'
    BY <1>1, <1>2 DEF Reply, ServerTyped, OnlyHandler, PostInv, InFlight
<1>4. QED
    BY <1>1, <1>3, HandlerStep DEF Reply

(* One more rename: what was renamed before keeps its place. *)
LEMMA OneMoreSave ==
    ASSUME ServerTyped, NEW w \in Posts, saves' = Append(saves, w)
    PROVE  /\ saves' \in Seq(Posts) /\ DOMAIN saves' = DOMAIN saves \cup {Len(saves) + 1}
           /\ Len(saves') = Len(saves) + 1 /\ Len(saves) \in Nat /\ DOMAIN saves = 1..Len(saves)
           /\ saves'[Len(saves) + 1] = w /\ \A n \in DOMAIN saves : saves'[n] = saves[n]
           /\ Range(saves') = Range(saves) \cup {w}
<1>1. /\ saves' \in Seq(Posts) /\ DOMAIN saves' = DOMAIN saves \cup {Len(saves) + 1}
      /\ Len(saves') = Len(saves) + 1 /\ Len(saves) \in Nat /\ DOMAIN saves = 1..Len(saves)
      /\ saves'[Len(saves) + 1] = w /\ \A n \in DOMAIN saves : saves'[n] = saves[n]
    BY DEF ServerTyped
<1>2. QED
    BY <1>1 DEF Range

LEMMA RenameResponseStep ==
    ASSUME ServerInv, NEW w \in Posts, RenameResponse(w), UNCHANGED publisherVars PROVE RequestsInv'
<1>1. ServerTyped /\ PostInv(w) /\ RequestsInv /\ session' = session
    BY DEF ServerInv, RequestsInv, publisherVars
<1>2. /\ post' \in [Posts -> Handlers] /\ post'[w].at = "saved" /\ post'[w].dir = post[w].dir
      /\ \A v \in Posts \ {w} : post'[v] = post[v]
    BY <1>1, MovesOneHandler DEF RenameResponse, PostPlaces, InFlight
<1>3. /\ saves' \in Seq(Posts) /\ DOMAIN saves' = DOMAIN saves \cup {Len(saves) + 1}
      /\ Len(saves') = Len(saves) + 1 /\ Len(saves) \in Nat /\ DOMAIN saves = 1..Len(saves)
      /\ saves'[Len(saves) + 1] = w /\ \A n \in DOMAIN saves : saves'[n] = saves[n]
      /\ Range(saves') = Range(saves) \cup {w}
    BY <1>1, OneMoreSave DEF RenameResponse
<1>4. /\ w \notin Range(saves) /\ written[w] = "whole"
      /\ session \in Publishers /\ post[w].dir = session
    BY <1>1 DEF RenameResponse, PostInv, InFlight, ServerInv, Inv, Typed
<1>5. ServerTyped'
    BY <1>1, <1>2, <1>3, <1>4 DEF RenameResponse, ServerTyped
<1>6. \A v \in Posts : PostInv(v)'
    <2>1. OnlyHandler(w)
        BY <1>2, <1>3 DEF RenameResponse, OnlyHandler
    <2>2. PostInv(w)'
        BY <1>1, <1>2, <1>3, <1>4 DEF RenameResponse, PostInv, InFlight
    <2>3. QED
        BY <1>1, <2>1, <2>2, OtherHandlers
<1>7. \A n \in DOMAIN saves : saves[n] # w
    BY <1>4 DEF Range
<1>8. SavedOnce'
    BY <1>1, <1>3, <1>7 DEF SavedOnce, RequestsInv
<1>9. LastSaveIsThere'
    <2>1. response'[session] = w /\ \A d \in Publishers \ {session} : response'[d] = response[d]
        BY <1>1, <1>4 DEF RenameResponse, ServerTyped
    <2>2. \A d \in Publishers \ {session} : response[d] = NoOne
        BY <1>1 DEF RequestsInv, LastSaveIsThere
    <2>3. session \in Publishers /\ session # NoOne
        BY <1>4, PublisherAssumption
    <2>4. saves' # <<>> /\ saves'[Len(saves')] = w
        BY <1>3
    <2>5. QED
        BY <1>1, <2>1, <2>2, <2>3, <2>4 DEF LastSaveIsThere
<1>10. ASSUME NEW g \in Gets PROVE GetInv(g)'
    <2>1. GetInv(g) /\ get' = get /\ replied' = replied
        BY <1>1 DEF RequestsInv, RenameResponse
    <2>2. \A r \in get[g].after : r # w
        BY <1>1, <2>1 DEF GetInv, RenameResponse, PostInv
    <2>3. Current(g) => Current(g)'
        <3>1. SUFFICES ASSUME Current(g), NEW m \in DOMAIN saves', NEW n \in DOMAIN saves',
                              saves'[m] \in get[g].after, saves'[n] = get[g].file
                       PROVE  m <= n
            BY <1>3, <2>1 DEF Current
        <3>2. get[g].file # NoOne
            BY <1>3, <3>1, ServerAssumption
        <3>3. get[g].file \in Range(saves)
            BY <3>1, <3>2 DEF Current
        <3>4. m \in DOMAIN saves /\ n \in DOMAIN saves
            BY <1>3, <1>4, <2>2, <3>1, <3>3
        <3>5. QED
            BY <1>3, <3>1, <3>4 DEF Current
    <2>4. QED
        BY <1>1, <2>1, <2>3 DEF GetInv
<1>11. QED
    BY <1>5, <1>6, <1>8, <1>9, <1>10 DEF RequestsInv

-----------------------------------------------------------------------------
(* do_GET, the crash of the server, and the publishers underneath it.      *)

LEMMA ReaderStep ==
    ASSUME RequestsInv, NEW g \in Gets, NEW r \in Readers, get' = [get EXCEPT ![g] = r],
           UNCHANGED <<session, response, temporary, written, post, saves, replied>>, GetInv(g)'
    PROVE  RequestsInv'
<1>1. ServerTyped'
    BY DEF RequestsInv, ServerTyped
<1>2. ASSUME NEW w \in Posts PROVE PostInv(w)'
    BY DEF RequestsInv, PostInv
<1>3. ASSUME NEW q \in Gets PROVE GetInv(q)'
    <2>1. CASE q = g
        BY <2>1
    <2>2. CASE q # g
        <3>1. GetInv(q) /\ get'[q] = get[q]
            BY <2>2 DEF RequestsInv, ServerTyped
        <3>2. QED
            BY <3>1 DEF GetInv, Current
    <2>3. QED
        BY <2>1, <2>2
<1>4. SavedOnce' /\ LastSaveIsThere'
    BY DEF RequestsInv, SavedOnce, LastSaveIsThere
<1>5. QED
    BY <1>1, <1>2, <1>3, <1>4 DEF RequestsInv

LEMMA GetLoadStep ==
    ASSUME ServerInv, NEW g \in Gets, GetLoad(g), UNCHANGED publisherVars PROVE RequestsInv'
<1>1. /\ ServerTyped /\ RequestsInv /\ session' = session /\ session \in Publishers \cup {NoOne}
      /\ get[g] \in Readers /\ replied \subseteq Posts /\ replied' = replied
    BY DEF ServerInv, RequestsInv, Inv, Typed, publisherVars, ServerTyped, GetLoad
<1> DEFINE r == IF session # NoOne /\ Whole(session)
                THEN [get[g] EXCEPT !.at = "loaded", !.dir = session, !.after = replied]
                ELSE [get[g] EXCEPT !.at = "refused"]
<1>2. get' = [get EXCEPT ![g] = r]
    BY DEF GetLoad
<1>3. /\ r \in Readers
      /\ \/ r.at = "loaded" /\ r.dir = session /\ session # NoOne /\ r.after = replied
         \/ r.at = "refused" /\ r.after = get[g].after
    BY <1>1 DEF Readers, GetPlaces
<1> HIDE DEF r
<1>4. get'[g] = r
    BY <1>1, <1>2 DEF ServerTyped
<1>5. GetInv(g)'
    BY <1>1, <1>3, <1>4 DEF RequestsInv, GetInv
<1>6. QED
    BY <1>1, <1>2, <1>3, <1>5, ReaderStep DEF GetLoad

LEMMA GetOpenResponseStep ==
    ASSUME ServerInv, NEW g \in Gets, GetOpenResponse(g), UNCHANGED publisherVars
    PROVE  RequestsInv'
<1>1. /\ ServerTyped /\ RequestsInv /\ session' = session /\ session \in Publishers \cup {NoOne}
      /\ get[g] \in Readers /\ replied' = replied /\ saves' = saves
      /\ get[g].at = "loaded" /\ GetInv(g)
    BY DEF ServerInv, RequestsInv, Inv, Typed, publisherVars, ServerTyped, GetOpenResponse
<1>2. /\ session \in Publishers /\ session # NoOne /\ get[g].dir = session
      /\ get[g].after \subseteq replied
    BY <1>1 DEF GetInv
<1> DEFINE file == response[session]
           r == [get[g] EXCEPT !.file = file,
                               !.at = IF file = NoOne THEN "answered" ELSE "opened"]
<1>3. get' = [get EXCEPT ![g] = r]
    BY <1>1, <1>2 DEF GetOpenResponse, ServerTyped, Readers
<1>4. file \in Posts \cup {NoOne}
    BY <1>1, <1>2 DEF ServerTyped
<1>5. /\ r \in Readers /\ r.file = file /\ r.dir = session /\ r.after = get[g].after
      /\ r.at = IF file = NoOne THEN "answered" ELSE "opened"
    BY <1>1, <1>2, <1>4 DEF Readers, GetPlaces
<1>6. saves = <<>> => file = NoOne
    BY <1>1, <1>2 DEF RequestsInv, LastSaveIsThere
<1>7. saves # <<>> => file = saves[Len(saves)]
    BY <1>1, <1>2 DEF RequestsInv, LastSaveIsThere
<1>8. saves \in Seq(Posts) /\ SavedOnce
    BY <1>1 DEF RequestsInv, ServerTyped
<1> HIDE DEF file, r
<1>9. get'[g] = r
    BY <1>1, <1>3 DEF ServerTyped
<1>10. Current(g)'
    <2>1. file = NoOne => r.after = {}
        <3>1. file = NoOne => saves = <<>>
            BY <1>7, <1>8, ServerAssumption
        <3>2. \A w \in replied : w \in Range(saves) /\ w \in Posts
            BY <1>1 DEF RequestsInv, ServerTyped, PostInv
        <3>3. saves = <<>> => Range(saves) = {}
            BY DEF Range
        <3>4. QED
            BY <1>2, <1>5, <3>1, <3>2, <3>3
    <2>2. file # NoOne => file \in Range(saves)
        BY <1>6, <1>7, <1>8 DEF Range
    <2>3. ASSUME NEW m \in DOMAIN saves, NEW n \in DOMAIN saves, saves[n] = file PROVE m <= n
        <3>1. saves # <<>> /\ Len(saves) \in DOMAIN saves
            BY <1>8, <2>3
        <3>2. n = Len(saves)
            BY <1>7, <1>8, <2>3, <3>1 DEF SavedOnce
        <3>3. QED
            BY <1>8, <2>3, <3>2
    <2>4. QED
        BY <1>1, <1>5, <1>9, <2>1, <2>2, <2>3 DEF Current
<1>11. GetInv(g)'
    BY <1>1, <1>2, <1>5, <1>9, <1>10 DEF GetInv
<1>12. QED
    BY <1>1, <1>3, <1>5, <1>11, ReaderStep DEF GetOpenResponse

LEMMA GetReadResponseStep ==
    ASSUME ServerInv, NEW g \in Gets, GetReadResponse(g), UNCHANGED publisherVars
    PROVE  RequestsInv'
<1>1. /\ ServerTyped /\ RequestsInv /\ session' = session
      /\ get[g] \in Readers /\ replied' = replied /\ saves' = saves
      /\ get[g].at = "opened" /\ GetInv(g)
    BY DEF ServerInv, RequestsInv, publisherVars, ServerTyped, GetReadResponse
<1>2. get[g].file \in Range(saves) /\ get[g].file \in Posts
    BY <1>1 DEF GetInv, Current, ServerTyped, Range, Readers
<1>3. written[get[g].file] = "whole"
    BY <1>1, <1>2 DEF RequestsInv, PostInv
<1> DEFINE r == [get[g] EXCEPT !.seen = "whole", !.at = "answered"]
<1>4. get' = [get EXCEPT ![g] = r]
    BY <1>1, <1>3 DEF GetReadResponse, ServerTyped, Readers
<1>5. /\ r \in Readers /\ r.file = get[g].file /\ r.dir = get[g].dir /\ r.after = get[g].after
      /\ r.at = "answered" /\ r.seen = "whole"
    BY <1>1 DEF Readers, GetPlaces, Amounts
<1> HIDE DEF r
<1>6. get'[g] = r
    BY <1>1, <1>4 DEF ServerTyped
<1>7. Current(g)'
    BY <1>1, <1>5, <1>6 DEF GetInv, Current
<1>8. GetInv(g)'
    BY <1>1, <1>5, <1>6, <1>7 DEF GetInv
<1>9. QED
    BY <1>1, <1>4, <1>5, <1>8, ReaderStep DEF GetReadResponse

LEMMA ServerCrashStep ==
    ASSUME ServerInv, ServerCrash, UNCHANGED publisherVars PROVE RequestsInv'
<1>1. /\ ServerTyped /\ RequestsInv /\ session' = session
      /\ UNCHANGED <<response, temporary, written, saves, replied>>
    BY DEF ServerInv, RequestsInv, publisherVars, ServerCrash
<1>2. ASSUME NEW w \in Posts PROVE post'[w] \in Handlers /\ PostInv(w)'
    <2>1. PostInv(w) /\ post[w] \in Handlers
        BY <1>1 DEF RequestsInv, ServerTyped
    <2>2. CASE post[w].at \in InFlight
        <3>1. post'[w] = [post[w] EXCEPT !.at = "lost"]
            BY <2>2 DEF ServerCrash
        <3>2. post'[w] \in Handlers /\ post'[w].at = "lost"
            BY <2>1, <3>1 DEF Handlers, PostPlaces
        <3>3. QED
            BY <1>1, <2>1, <2>2, <3>2 DEF PostInv, InFlight
    <2>3. CASE post[w].at \notin InFlight
        <3>1. post'[w] = post[w]
            BY <2>3 DEF ServerCrash
        <3>2. QED
            BY <1>1, <2>1, <3>1 DEF PostInv
    <2>4. QED
        BY <2>2, <2>3
<1>3. ASSUME NEW g \in Gets PROVE get'[g] \in Readers /\ GetInv(g)'
    <2>1. GetInv(g) /\ get[g] \in Readers
        BY <1>1 DEF RequestsInv, ServerTyped
    <2>2. CASE get[g].at \in {"loaded", "opened"}
        <3>1. get'[g] = [get[g] EXCEPT !.at = "lost"]
            BY <2>2 DEF ServerCrash
        <3>2. get'[g] \in Readers /\ get'[g].at = "lost" /\ get'[g].after = get[g].after
            BY <2>1, <3>1 DEF Readers, GetPlaces
        <3>3. QED
            BY <1>1, <2>1, <3>2 DEF GetInv
    <2>3. CASE get[g].at \notin {"loaded", "opened"}
        <3>1. get'[g] = get[g]
            BY <2>3 DEF ServerCrash
        <3>2. Current(g) => Current(g)'
            BY <1>1, <3>1 DEF Current
        <3>3. QED
            BY <1>1, <2>1, <3>1, <3>2 DEF GetInv
    <2>4. QED
        BY <2>2, <2>3
<1>4. post' \in [Posts -> Handlers]
    BY <1>2 DEF ServerCrash
<1>5. get' \in [Gets -> Readers]
    BY <1>3 DEF ServerCrash
<1>6. ServerTyped'
    BY <1>1, <1>4, <1>5 DEF ServerTyped
<1>7. SavedOnce' /\ LastSaveIsThere'
    BY <1>1 DEF RequestsInv, SavedOnce, LastSaveIsThere
<1>8. QED
    BY <1>2, <1>3, <1>6, <1>7 DEF RequestsInv

(* Until there is a session nobody holds one; from then on it stays.       *)
LEMMA PublishersLeaveRequests ==
    ASSUME ServerInv, PublisherNext, UNCHANGED serverVars PROVE RequestsInv'
<1>1. /\ RequestsInv
      /\ session # NoOne => session' = session
      /\ UNCHANGED <<response, temporary, written, post, get, saves, replied>>
    BY SessionStays DEF ServerInv, serverVars
<1>2. ServerTyped' /\ SavedOnce'
    BY <1>1 DEF RequestsInv, ServerTyped, SavedOnce
<1>3. LastSaveIsThere'
    BY <1>1 DEF RequestsInv, LastSaveIsThere
<1>4. ASSUME NEW w \in Posts PROVE PostInv(w)'
    BY <1>1 DEF RequestsInv, PostInv
<1>5. ASSUME NEW g \in Gets PROVE GetInv(g)'
    <2>1. GetInv(g)
        BY <1>1 DEF RequestsInv
    <2>2. Current(g) => Current(g)'
        BY <1>1 DEF Current
    <2>3. QED
        BY <1>1, <2>1, <2>2 DEF GetInv
<1>6. QED
    BY <1>2, <1>3, <1>4, <1>5 DEF RequestsInv

LEMMA ServerStep ==
    ASSUME ServerInv, ServerNext, UNCHANGED publisherVars PROVE RequestsInv'
<1>1. CASE \E w \in Posts : \/ PostLoad(w) \/ PostReject(w) \/ OpenTemporary(w)
                            \/ WriteResponse(w) \/ SaveFails(w) \/ RenameResponse(w) \/ Reply(w)
    BY <1>1, PostLoadStep, PostRejectStep, OpenTemporaryStep, WriteResponseStep, SaveFailsStep,
       RenameResponseStep, ReplyStep
<1>2. CASE \E g \in Gets : GetLoad(g) \/ GetOpenResponse(g) \/ GetReadResponse(g)
    BY <1>2, GetLoadStep, GetOpenResponseStep, GetReadResponseStep
<1>3. QED
    BY <1>1, <1>2, ServerCrashStep DEF ServerNext

LEMMA ServerInductive == ServerInv /\ [Next]_vars => ServerInv'
<1> SUFFICES ASSUME ServerInv, [Next]_vars PROVE ServerInv'
    OBVIOUS
<1>1. Inv'
    BY Inductive DEF ServerInv, Next, vars
<1>2. CASE PublisherNext /\ UNCHANGED serverVars
    BY <1>1, <1>2, PublishersLeaveRequests DEF ServerInv
<1>3. CASE ServerNext /\ UNCHANGED publisherVars
    BY <1>1, <1>3, ServerStep DEF ServerInv
<1>4. CASE UNCHANGED vars
    <2>1. RequestsInv'
        BY <1>4 DEF vars, publisherVars, serverVars, ServerInv, RequestsInv, ServerTyped, SavedOnce,
            LastSaveIsThere, PostInv, GetInv, Current
    <2>2. QED
        BY <1>1, <2>1 DEF ServerInv
<1>5. QED
    BY <1>2, <1>3, <1>4 DEF Next

LEMMA ServerInvariance == Spec => []ServerInv
    BY InitialServer, ServerInductive, PTL DEF Spec

-----------------------------------------------------------------------------
(* A response.json is a file some request renamed there, and requests and  *)
(* their directories keep their types, for any number of requests.         *)
THEOREM ServerTypes == Spec => []TypeOK
<1>1. ServerInv => TypeOK
    <2> SUFFICES ASSUME ServerInv PROVE TypeOK
        OBVIOUS
    <2>1. RequestsInv /\ ServerTyped
        BY DEF ServerInv, RequestsInv
    <2>2. ASSUME NEW d \in Publishers PROVE response[d] \in Range(saves) \cup {NoOne}
        <3>1. CASE saves = <<>> \/ d # session
            BY <2>1, <3>1 DEF RequestsInv, LastSaveIsThere
        <3>2. CASE saves # <<>> /\ d = session
            <4>1. response[d] = saves[Len(saves)] /\ Len(saves) \in DOMAIN saves
                BY <2>1, <3>2 DEF RequestsInv, LastSaveIsThere, ServerTyped
            <4>2. QED
                BY <4>1 DEF Range
        <3>3. QED
            BY <3>1, <3>2
    <2>3. QED
        BY <2>1, <2>2 DEF TypeOK, ServerTyped, Handlers, Readers
<1>2. QED
    BY <1>1, ServerInvariance, PTL

(* A GET that began after a POST was answered gives that POST's response   *)
(* or one renamed later, whole, for any number of requests and of crashes. *)
THEOREM ReadsAlwaysFollowReplies == Spec => []ReadsFollowReplies
<1>1. ServerInv => ReadsFollowReplies
    <2> SUFFICES ASSUME ServerInv, NEW g \in Gets, get[g].at = "answered"
                 PROVE  /\ get[g].file # NoOne => get[g].seen = "whole"
                        /\ \A w \in get[g].after : /\ get[g].file # NoOne
                                                   /\ Position(get[g].file) >= Position(w)
        BY DEF ReadsFollowReplies
    <2>1. ServerTyped /\ RequestsInv /\ GetInv(g) /\ Current(g)
        BY DEF ServerInv, RequestsInv, GetInv
    <2>2. ASSUME NEW w \in get[g].after
          PROVE  get[g].file # NoOne /\ Position(get[g].file) >= Position(w)
        <3>1. get[g].file # NoOne /\ get[g].file \in Range(saves)
            BY <2>1 DEF Current
        <3>2. w \in Range(saves)
            BY <2>1 DEF GetInv, RequestsInv, ServerTyped, PostInv
        <3>3. /\ Position(w) \in DOMAIN saves /\ saves[Position(w)] = w
              /\ Position(get[g].file) \in DOMAIN saves
              /\ saves[Position(get[g].file)] = get[g].file
            BY <3>1, <3>2 DEF Position, Range
        <3>4. Position(w) <= Position(get[g].file)
            BY <2>1, <3>3 DEF Current
        <3>5. QED
            BY <2>1, <3>1, <3>3, <3>4 DEF ServerTyped
    <2>3. QED
        BY <2>1, <2>2 DEF GetInv
<1>2. QED
    BY <1>1, ServerInvariance, PTL

(* An answered POST was renamed in the session that is published, and a    *)
(* temporary file belongs to a request still saving or to a dead server.   *)
THEOREM RequestsAlwaysLeaveNoTrace == Spec => []RequestsLeaveNoTrace
<1>1. ServerInv => RequestsLeaveNoTrace
    BY DEF ServerInv, RequestsInv, ServerTyped, PostInv, RequestsLeaveNoTrace
<1>2. QED
    BY <1>1, ServerInvariance, PTL

(* A save replaces response.json of the published session by a whole file  *)
(* its own request wrote, and nothing else in that directory.              *)
THEOREM SavesReplaceOnlyTheResponse == Spec => SaveReplacesOnlyTheResponse
<1>1. ServerInv /\ [Next]_vars =>
        [\A d \in Publishers : response'[d] # response[d] =>
            /\ d = session /\ stage'[d] = stage[d]
            /\ response'[d] \in temporary \ temporary'
            /\ written[response'[d]] = "whole"]_vars
    <2> SUFFICES ASSUME ServerInv, Next, NEW d \in Publishers, response'[d] # response[d]
                 PROVE  /\ d = session /\ stage'[d] = stage[d]
                        /\ response'[d] \in temporary \ temporary'
                        /\ written[response'[d]] = "whole"
        OBVIOUS
    <2>1. PICK w \in Posts : RenameResponse(w)
        BY DEF Next, ServerNext, serverVars, PostLoad, PostReject, OpenTemporary, WriteResponse,
            SaveFails, Reply, GetLoad, GetOpenResponse, GetReadResponse, ServerCrash
    <2>2. stage' = stage
        <3>1. serverVars' # serverVars
            BY DEF serverVars
        <3>2. QED
            BY <3>1 DEF Next, publisherVars
    <2>3. ServerTyped /\ PostInv(w)
        BY DEF ServerInv, RequestsInv
    <2>4. post[w].at = "renaming" /\ post[w].dir = session /\ w \in temporary /\ written[w] = "whole"
        BY <2>1, <2>3 DEF RenameResponse, PostInv, InFlight
    <2>5. response'[d] = w /\ d = session /\ w \notin temporary'
        BY <2>1, <2>3, <2>4 DEF RenameResponse, ServerTyped
    <2>6. QED
        BY <2>2, <2>4, <2>5
<1>2. QED
    BY <1>1, ServerInvariance, PTL DEF Spec, SaveReplacesOnlyTheResponse
=============================================================================
