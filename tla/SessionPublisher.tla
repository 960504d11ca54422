--------------------------- MODULE SessionPublisher ---------------------------
(***************************************************************************)
(* publish.py: concurrent invocations of publish_session for one review id *)
(* under one reviews root.  Each assembles a hidden staging directory of   *)
(* its own and installs it under the session's name with one no-replace    *)
(* rename.  Directories are named by the invocation that made them: an     *)
(* inode moves with the rename, so `session` says whose directory the      *)
(* session's name leads to.  The paths and identities of the reviews root  *)
(* itself are left out.                                                    *)
(***************************************************************************)
EXTENDS Naturals, Sequences, FiniteSets, Functions

CONSTANTS
    Publishers,  \* the invocations
    Checked,     \* those given expected_sources
    ItemCount,   \* items of the manifest, copied in its order
    Chunks,      \* COPY_CHUNK reads one source takes
    NoOne

ASSUME PublisherAssumption ==
    /\ Checked \subseteq Publishers /\ NoOne \notin Publishers
    /\ ItemCount \in Nat /\ Chunks \in Nat \ {0}

VARIABLES
    source,   \* per item: the file its path names, and whether the first one was edited
    session,  \* the directory under the session's name
    stage,    \* contents of each invocation's directory
    pc,       \* where each invocation is
    held      \* its locals: item, source identities, asset_stats, asset fd, outcome

publisherVars == <<source, session, stage, pc, held>>

Items == 1..ItemCount
Versions == {"original", "edited", "other"}

(* What reading the file gives: "other" is the file put at its path later. *)
Version(i, file) ==
    IF file = "second" THEN "other" ELSE IF source[i].edited THEN "edited" ELSE "original"

ExpectedContent == [n \in 1..Chunks |-> "original"]

(* Absent files are empty sequences of a set: a file is a set of at most   *)
(* one content.                                                            *)
EmptyStage == [exists |-> FALSE, assets |-> FALSE, files |-> [i \in Items |-> {}], review |-> FALSE]

Ended == {"published", "refused", "failed", "crashed"}

PublisherInit ==
    /\ source = [i \in Items |-> [file |-> "first", edited |-> FALSE]]
    /\ session = NoOne
    /\ stage = [p \in Publishers |-> EmptyStage]
    /\ pc = [p \in Publishers |-> "read_manifest"]
    /\ held = [p \in Publishers |-> [item |-> 1, reference |-> [i \in Items |-> "first"],
                                     asset_stats |-> {}, assets_fd |-> FALSE, outcome |-> "failed"]]

-----------------------------------------------------------------------------
(* The steps of one invocation. *)

Goto(p, next) == pc' = [pc EXCEPT ![p] = next]

(* An exception: the handler cleans up, and the invocation ends. *)
Raise(p, outcome) ==
    /\ Goto(p, "cleanup")
    /\ held' = [held EXCEPT ![p].outcome = outcome]

(* read_rich_manifest captures the identity of every source. *)
ReadManifest(p) ==
    /\ pc[p] = "read_manifest"
    /\ held' = [held EXCEPT ![p].reference = [i \in Items |-> source[i].file]]
    /\ Goto(p, "check_absent")
    /\ UNCHANGED <<source, session, stage>>

CheckAbsentOfRivals(p) ==                      \* mutant: a rival's staging refuses too
    /\ pc[p] = "check_absent"
    /\ Goto(p, IF session = NoOne /\ \A q \in Publishers : ~stage[q].exists
               THEN "create_staging" ELSE "refused")
    /\ UNCHANGED <<source, session, stage, held>>

CheckAbsent(p) ==
    /\ pc[p] = "check_absent"
    /\ Goto(p, IF session = NoOne THEN "create_staging" ELSE "refused")
    /\ UNCHANGED <<source, session, stage, held>>

CreateStaging(p) ==
    /\ pc[p] = "create_staging"
    /\ stage' = [stage EXCEPT ![p].exists = TRUE]
    /\ Goto(p, "make_assets")
    /\ UNCHANGED <<source, session, held>>

(* The manifest is invalid, the root moved, or a directory cannot be made. *)
(* A staging directory that was made but not opened keeps its hidden name. *)
SetupFails(p) ==
    /\ \/ /\ pc[p] \in {"read_manifest", "check_absent", "create_staging"}
          /\ stage' \in {stage} \cup IF pc[p] = "create_staging"
                                    THEN {[stage EXCEPT ![p].exists = TRUE]} ELSE {}
          /\ Goto(p, "failed")
          /\ UNCHANGED held
       \/ /\ pc[p] = "make_assets"
          /\ Raise(p, "failed")
          /\ UNCHANGED stage
    /\ UNCHANGED <<source, session>>

MakeAssets(p) ==
    /\ pc[p] = "make_assets"
    /\ stage' = [stage EXCEPT ![p].assets = TRUE]
    /\ Goto(p, "open_assets")
    /\ UNCHANGED <<source, session, held>>

OpenAssets(p, opens) ==
    /\ pc[p] = "open_assets"
    /\ IF opens
       THEN /\ held' = [held EXCEPT ![p].assets_fd = TRUE]
            /\ Goto(p, "copy_item")
       ELSE Raise(p, "failed")
    /\ UNCHANGED <<source, session, stage>>

(* _copy_source: the destination is created, then the source is opened and *)
(* must still be the file that was validated.                              *)
BeginCopy(p) ==
    LET i == held[p].item
    IN /\ pc[p] = "copy_item" /\ i \in Items
       /\ IF source[i].file = held[p].reference[i]
          THEN /\ stage' = [stage EXCEPT ![p].files[i] = {<<>>}]
               /\ Goto(p, "copying")
               /\ UNCHANGED held
          ELSE Raise(p, "failed") /\ UNCHANGED stage
       /\ UNCHANGED <<source, session>>

Copied(p) == CHOOSE content \in stage[p].files[held[p].item] : TRUE

(* The open descriptor reads the validated file, wherever its path leads.  *)
CopyChunk(p) ==
    LET i == held[p].item
    IN /\ pc[p] = "copying" /\ Len(Copied(p)) < Chunks
       /\ stage' = [stage EXCEPT ![p].files[i] =
                        {Append(Copied(p), Version(i, held[p].reference[i]))}]
       /\ UNCHANGED <<source, session, pc, held>>

(* A call of the copy raises: the destination is unlinked if it was made.  *)
CopyFails(p) ==
    /\ pc[p] \in {"copy_item", "copying"} /\ held[p].item \in Items
    /\ stage' = [stage EXCEPT ![p].files[held[p].item] = {}]
    /\ Raise(p, "failed")
    /\ UNCHANGED <<source, session>>

FinishCopyRecordLate(p) ==                     \* mutant: asset_stats after the check
    /\ pc[p] = "copying" /\ Len(Copied(p)) = Chunks
    /\ IF p \in Checked /\ Copied(p) # ExpectedContent
       THEN Raise(p, "failed")
       ELSE /\ held' = [held EXCEPT ![p].asset_stats = @ \cup {held[p].item}, ![p].item = @ + 1]
            /\ Goto(p, "copy_item")
    /\ UNCHANGED <<source, session, stage>>

FinishCopyUnchecked(p) ==                      \* mutant: the digest is not compared
    /\ pc[p] = "copying" /\ Len(Copied(p)) = Chunks
    /\ held' = [held EXCEPT ![p].asset_stats = @ \cup {held[p].item}, ![p].item = @ + 1]
    /\ Goto(p, "copy_item")
    /\ UNCHANGED <<source, session, stage>>

(* The copy is recorded as owned before its digest is compared. *)
FinishCopy(p) ==
    /\ pc[p] = "copying" /\ Len(Copied(p)) = Chunks
    /\ LET owned == held[p].asset_stats \cup {held[p].item}
       IN IF p \in Checked /\ Copied(p) # ExpectedContent
          THEN /\ held' = [held EXCEPT ![p].asset_stats = owned, ![p].outcome = "failed"]
               /\ Goto(p, "cleanup")
          ELSE /\ held' = [held EXCEPT ![p].asset_stats = owned, ![p].item = @ + 1]
               /\ Goto(p, "copy_item")
    /\ UNCHANGED <<source, session, stage>>

WriteReview(p, writes) ==
    /\ pc[p] = "copy_item" /\ held[p].item > ItemCount
    /\ IF writes
       THEN /\ stage' = [stage EXCEPT ![p].review = TRUE]
            /\ Goto(p, "install")
            /\ UNCHANGED held
       ELSE Raise(p, "failed") /\ UNCHANGED stage
    /\ UNCHANGED <<source, session>>

InstallReplacing(p) ==                         \* mutant: rename without NOREPLACE
    /\ pc[p] = "install"
    /\ session' = p
    /\ stage' = [stage EXCEPT ![p].exists = FALSE]
    /\ Goto(p, "published")
    /\ UNCHANGED <<source, held>>

(* renameat2 with RENAME_NOREPLACE: the staging name becomes the session's *)
(* name in one step, unless that name exists.                              *)
Install(p) ==
    /\ pc[p] = "install"
    /\ IF session = NoOne
       THEN /\ session' = p
            /\ stage' = [stage EXCEPT ![p].exists = FALSE]
            /\ Goto(p, "published")
            /\ UNCHANGED held
       ELSE Raise(p, "refused") /\ UNCHANGED <<session, stage>>
    /\ UNCHANGED source

InstallFails(p) ==
    /\ pc[p] = "install"
    /\ Raise(p, "failed")
    /\ UNCHANGED <<source, session, stage>>

CleanupKeepsReview(p) ==                       \* mutant: review_stat forgotten
    /\ pc[p] = "cleanup"
    /\ stage' = [stage EXCEPT
            ![p].files = [i \in Items |->
                IF held[p].assets_fd /\ i \in held[p].asset_stats THEN {} ELSE @[i]],
            ![p].assets = @ /\ ~held[p].assets_fd]
    /\ Goto(p, held[p].outcome)
    /\ UNCHANGED <<source, session, held>>

(* _cleanup_staging works through the open descriptors and only removes    *)
(* what asset_stats and review_stat own; the directory itself stays.       *)
Cleanup(p) ==
    /\ pc[p] = "cleanup"
    /\ stage' = [stage EXCEPT
            ![p].files = [i \in Items |->
                IF held[p].assets_fd /\ i \in held[p].asset_stats THEN {} ELSE @[i]],
            ![p].assets = @ /\ ~held[p].assets_fd,
            ![p].review = FALSE]
    /\ Goto(p, held[p].outcome)
    /\ UNCHANGED <<source, session, held>>

(* A kill, or an exception the handler does not catch. *)
Crash(p) ==
    /\ pc[p] \notin Ended
    /\ Goto(p, "crashed")
    /\ UNCHANGED <<source, session, stage, held>>

(* Somebody edits a source in place, or puts another file at its path.     *)
TouchSource(i) ==
    /\ \/ source' = [source EXCEPT ![i].edited = TRUE]
       \/ source' = [source EXCEPT ![i].file = "second"]
    /\ UNCHANGED <<session, stage, pc, held>>

Step(p) ==
    \/ ReadManifest(p) \/ CheckAbsent(p) \/ CreateStaging(p) \/ MakeAssets(p)
    \/ BeginCopy(p) \/ CopyChunk(p) \/ FinishCopy(p) \/ Install(p) \/ Cleanup(p)
    \/ \E works \in BOOLEAN : OpenAssets(p, works) \/ WriteReview(p, works)

Mishap(p) == SetupFails(p) \/ CopyFails(p) \/ InstallFails(p) \/ Crash(p)

PublisherNext ==
    \/ \E p \in Publishers : Step(p) \/ Mishap(p)
    \/ \E i \in Items : TouchSource(i)

(* An invocation that is not killed keeps running. *)
PublisherFairness == \A p \in Publishers : WF_publisherVars(Step(p))

PublisherSpec == PublisherInit /\ [][PublisherNext]_publisherVars /\ PublisherFairness

-----------------------------------------------------------------------------
(* Properties *)

Whole(p) == stage[p].assets /\ stage[p].review /\ \A i \in Items : stage[p].files[i] # {}

(* Directories hold what their invocation has written so far. *)
PublisherTypeOK ==
    /\ session \in Publishers \cup {NoOne}
    /\ \A p \in Publishers :
        /\ held[p].item \in 1..(ItemCount + 1) /\ held[p].asset_stats \subseteq Items
        /\ \A i \in Items : /\ Cardinality(stage[p].files[i]) <= 1
                            /\ \A c \in stage[p].files[i] : Len(c) <= Chunks /\ Range(c) \subseteq Versions
        /\ stage[p].review => stage[p].assets

(* Whatever crashes, fails or races, the session's name never leads to a   *)
(* directory that misses a file or holds part of one, and where            *)
(* expected_sources was given every asset holds the expected bytes, not an *)
(* edit that happened during the copy (visual-review/README.md, "assembles *)
(* the complete session in a private hidden staging directory").           *)
VisibleSessionIsWhole ==
    session # NoOne =>
        /\ Whole(session)
        /\ \A i \in Items : \A content \in stage[session].files[i] :
            /\ Len(content) = Chunks
            /\ session \in Checked => content = ExpectedContent

(* A published session is never replaced, changed or taken away, by the    *)
(* cleanup of a loser least of all.                                        *)
SessionIsImmutable ==
    [][session # NoOne =>
        session' = session /\ stage'[session] = stage[session]]_publisherVars

(* A failed or refused invocation leaves no file behind in its staging     *)
(* directory, the copy that failed its digest included, and whoever was    *)
(* refused did find a session (visual-review/README.md, "A failed          *)
(* invocation removes only still-owned staging contents").                 *)
FailureLeavesNoFile ==
    \A p \in Publishers : pc[p] \in {"failed", "refused"} =>
        /\ ~stage[p].review /\ \A i \in Items : stage[p].files[i] = {}
        /\ pc[p] = "refused" => session \notin {NoOne, p}

(* Rivals do not refuse each other: in the end there is a session, unless  *)
(* every invocation failed for a reason of its own.                        *)
RaceHasAWinner ==
    <>(session # NoOne \/ \A p \in Publishers : pc[p] \in {"failed", "crashed"})
=============================================================================
