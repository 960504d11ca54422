------------------------------ MODULE StagedPublish ------------------------------
(***************************************************************************)
(* structural_atomic_publish.py and the builders that publish with it: a   *)
(* private stage next to the destination, written through its open         *)
(* descriptor, checked by identity, renamed by name without replacing, and *)
(* confirmed; on an error its entries are removed through the descriptor.  *)
(* Builders of the same output race.  Another program may publish at the   *)
(* destination first, and may, once a stage is open, move it away or put   *)
(* its own directory under the stage's name.                               *)
(***************************************************************************)
EXTENDS FiniteSets

CONSTANTS Builders, Members, \* builders of one output, files of a whole one
          Other,             \* any directory of another program
          Absent, Dest       \* no directory; the name of the output

ASSUME StagedAssumption ==
    /\ Other \notin Builders /\ Absent \notin Builders \cup {Other} /\ Dest \notin Builders
    /\ Members # {}

VARIABLES
    names,   \* the parent: name -> directory; the stage of b has the name b
    files,   \* what is in each directory; the one builder b makes is called b, too
    at,      \* where each builder is
    token    \* its StageName: the directory its descriptor holds, published

stagedVars == <<names, files, at, token>>

Names == {Dest} \cup Builders
Directories == Builders \cup {Other}

Init ==
    /\ names \in {[n \in Names |-> Absent], [n \in Names |-> IF n = Dest THEN Other ELSE Absent]}
    /\ files \in {f \in [Directories -> SUBSET Members] : \A b \in Builders : f[b] = {}}
    /\ at = [b \in Builders |-> "look"]
    /\ token = [b \in Builders |-> [dir |-> Absent, published |-> FALSE]]

Goto(b, next) == at' = [at EXCEPT ![b] = next]

-----------------------------------------------------------------------------
(* build: refuse an existing output, then create_stage.                    *)
Look(b) ==
    /\ at[b] = "look"
    /\ Goto(b, IF names[Dest] = Absent THEN "make" ELSE "failed")
    /\ UNCHANGED <<names, files, token>>

MakeStage(b, works) ==
    /\ at[b] = "make"
    /\ names' = IF works THEN [names EXCEPT ![b] = b] ELSE names
    /\ Goto(b, IF works THEN "open" ELSE "failed")
    /\ UNCHANGED <<files, token>>

(* Whatever has the name; an error here leaves an empty directory.         *)
OpenStage(b, works) ==
    /\ at[b] = "open"
    /\ token' = [token EXCEPT ![b].dir = IF works THEN names[b] ELSE Absent]
    /\ Goto(b, IF works THEN "write" ELSE "failed")
    /\ UNCHANGED <<names, files>>

(* Through /proc/self/fd: whatever the name means by now.                  *)
Write(b, member) ==
    /\ at[b] = "write" /\ member \notin files[token[b].dir]
    /\ files' = [files EXCEPT ![token[b].dir] = @ \cup {member}]
    /\ UNCHANGED <<names, at, token>>

WriteFails(b) ==
    /\ at[b] = "write"
    /\ Goto(b, "cleanup")
    /\ UNCHANGED <<names, files, token>>

(* The inventory of the stage is the expected one. *)
Written(b) ==
    /\ at[b] = "write" /\ files[token[b].dir] = Members
    /\ Goto(b, "check")
    /\ UNCHANGED <<names, files, token>>

-----------------------------------------------------------------------------
(* publish_no_replace *)
CheckStage(b) ==
    /\ at[b] = "check"
    /\ Goto(b, IF names[b] = token[b].dir THEN "install" ELSE "cleanup")
    /\ UNCHANGED <<names, files, token>>

InstallOver(b) ==                              \* mutant: a plain rename after a look
    /\ at[b] = "install"
    /\ IF names[b] # Absent
       THEN /\ names' = [names EXCEPT ![Dest] = names[b], ![b] = Absent]
            /\ token' = [token EXCEPT ![b].published = TRUE]
            /\ Goto(b, "confirm")
       ELSE Goto(b, "cleanup") /\ UNCHANGED <<names, token>>
    /\ UNCHANGED files

(* renameat2 with RENAME_NOREPLACE takes whatever has the stage's name.    *)
Install(b) ==
    /\ at[b] = "install"
    /\ IF names[Dest] = Absent /\ names[b] # Absent
       THEN /\ names' = [names EXCEPT ![Dest] = names[b], ![b] = Absent]
            /\ token' = [token EXCEPT ![b].published = TRUE]
            /\ Goto(b, "confirm")
       ELSE Goto(b, "cleanup") /\ UNCHANGED <<names, token>>
    /\ UNCHANGED files

(* The platform has no renameat2, or the file system does not support it.  *)
InstallFails(b) ==
    /\ at[b] = "install"
    /\ Goto(b, "cleanup")
    /\ UNCHANGED <<names, files, token>>

Confirm(b) ==
    /\ at[b] = "confirm"
    /\ Goto(b, IF names[Dest] = token[b].dir THEN "sync" ELSE "cleanup")
    /\ UNCHANGED <<names, files, token>>

SyncParent(b, works) ==
    /\ at[b] = "sync"
    /\ Goto(b, IF works THEN "published" ELSE "cleanup")
    /\ token' = IF works THEN [token EXCEPT ![b].dir = Absent] ELSE token
    /\ UNCHANGED <<names, files>>

-----------------------------------------------------------------------------
(* cleanup_stage: entry by entry through the descriptor, and not at all    *)
(* once the rename was made.  It may stop at an error, and it leaves the   *)
(* name of the stage.                                                      *)
Removes(b, directory, member) ==
    /\ at[b] = "cleanup" /\ member \in files[directory]
    /\ files' = [files EXCEPT ![directory] = @ \ {member}]
    /\ UNCHANGED <<names, at, token>>

CleanupPublished(b, member) ==                 \* mutant: also when published
    Removes(b, token[b].dir, member)

Cleanup(b, member) == ~token[b].published /\ Removes(b, token[b].dir, member)

CleanupEnds(b) ==
    /\ at[b] = "cleanup"
    /\ token' = [token EXCEPT ![b].dir = Absent]
    /\ Goto(b, "failed")
    /\ UNCHANGED <<names, files>>

(* The builder is killed: its descriptor closes, everything else stays.    *)
Kill(b) ==
    /\ at[b] \notin {"published", "failed", "killed"}
    /\ token' = [token EXCEPT ![b].dir = Absent]
    /\ Goto(b, "killed")
    /\ UNCHANGED <<names, files>>

-----------------------------------------------------------------------------
(* Another program; it leaves the stage's name alone until the stage is    *)
(* open, as cleanup_stage does not expect otherwise either.                *)
OtherPublishes ==
    /\ names[Dest] = Absent
    /\ names' = [names EXCEPT ![Dest] = Other]
    /\ UNCHANGED <<files, at, token>>

OtherMoves(b) ==
    /\ token[b].dir # Absent
    /\ names' \in {[names EXCEPT ![b] = Absent], [names EXCEPT ![b] = Other]}
    /\ UNCHANGED <<files, at, token>>

Next ==
    \/ \E b \in Builders :
        \/ Look(b) \/ Written(b) \/ WriteFails(b) \/ CheckStage(b)
        \/ Install(b) \/ InstallFails(b) \/ Confirm(b)
        \/ CleanupEnds(b) \/ Kill(b) \/ OtherMoves(b)
        \/ \E works \in BOOLEAN : MakeStage(b, works) \/ OpenStage(b, works) \/ SyncParent(b, works)
        \/ \E member \in Members : Write(b, member) \/ Cleanup(b, member)
    \/ OtherPublishes

Spec == Init /\ [][Next]_stagedVars

-----------------------------------------------------------------------------
(* Properties *)

(* What has the output's name is all of one build, or another program's    *)
(* directory; it never is a part, not even while a builder cleans up after *)
(* an error that came after the rename.  A builder that reports success is *)
(* the one whose directory is there.                                       *)
OutputIsWhole ==
    /\ names[Dest] \in Builders => files[names[Dest]] = Members
    /\ \A b \in Builders : at[b] = "published" => names[Dest] = b

(* "refusing to overwrite", and "never removes the visible top-level stage *)
(* name, which may have been replaced after the stage was opened": nobody  *)
(* replaces the output, and a builder changes no directory but its own.    *)
OthersAreLeftAlone ==
    [][/\ names[Dest] # Absent => names'[Dest] = names[Dest]
       /\ files'[Other] = files[Other]
       /\ \A b \in Builders :
            files'[b] # files[b] => at[b] \in {"write", "cleanup"} /\ token[b].dir = b]_stagedVars
=============================================================================
