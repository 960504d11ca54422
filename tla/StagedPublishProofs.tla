--------------------------- MODULE StagedPublishProofs ---------------------------
(***************************************************************************)
(* The safety of publishing through a stage, for any number of builders    *)
(* and any set of files.  The invariant follows the directory a builder    *)
(* made: while its descriptor is open it is that directory whatever its    *)
(* name means, it is complete from the check on, and it can have the       *)
(* output's name only when its builder is past the rename.                 *)
(***************************************************************************)
EXTENDS StagedPublish, TLAPS

Places == {"look", "make", "open", "write", "check", "install", "confirm", "sync", "cleanup",
           "published", "failed", "killed"}

Typed ==
    /\ names \in [Names -> Directories \cup {Absent}]
    /\ files \in [Directories -> SUBSET Members]
    /\ at \in [Builders -> Places]
    /\ token \in [Builders -> [dir : Directories \cup {Absent}, published : BOOLEAN]]

(* The rename was made, and nothing is removed any more.                   *)
Renamed(b) ==
    \/ at[b] \in {"confirm", "sync", "published", "failed", "killed"}
    \/ at[b] = "cleanup" /\ token[b].published = TRUE

BuilderInv(b) ==
    /\ names[b] \in {b, Other, Absent}
    /\ token[b].dir \in {b, Absent}
    /\ at[b] \in {"write", "check", "install", "confirm", "sync", "cleanup"} => token[b].dir = b
    /\ at[b] \in {"look", "make", "open"} => token[b].dir = Absent
    /\ at[b] = "open" => names[b] = b
    /\ at[b] \in {"check", "install", "confirm", "sync", "published"} => files[b] = Members
    /\ at[b] = "confirm" => token[b].published = TRUE
    /\ at[b] \in {"sync", "published"} => names[Dest] = b /\ token[b].published = TRUE
    /\ names[Dest] = b => files[b] = Members /\ Renamed(b)

Inv == Typed /\ \A b \in Builders : BuilderInv(b)

(* A step of b leaves the other builders' part of the state as it is.      *)
Own(b) ==
    /\ \A c \in Builders \ {b} :
        /\ names'[c] = names[c] /\ files'[c] = files[c] /\ at'[c] = at[c] /\ token'[c] = token[c]
    /\ files'[Other] = files[Other]
    /\ names'[Dest] = names[Dest] \/ (names[Dest] = Absent /\ names'[Dest] \in {b, Other})
    /\ files'[b] # files[b] => at[b] \in {"write", "cleanup"} /\ token[b].dir = b

Preserves(b) == Typed' /\ BuilderInv(b)' /\ Own(b)

LEMMA InitialState == Init => Inv
<1> SUFFICES ASSUME Init PROVE Inv
    OBVIOUS
<1>1. Typed
    BY StagedAssumption DEF Init, Typed, Names, Directories, Places
<1>2. ASSUME NEW b \in Builders PROVE BuilderInv(b)
    BY StagedAssumption DEF Init, BuilderInv, Names, Directories
<1>3. QED
    BY <1>1, <1>2 DEF Inv

LEMMA OthersKeep ==
    ASSUME Inv, NEW b \in Builders, Preserves(b) PROVE Inv'
<1>1. ASSUME NEW c \in Builders, c # b PROVE BuilderInv(c)'
    BY <1>1, StagedAssumption DEF Inv, Preserves, Own, BuilderInv, Renamed
<1>2. QED
    BY <1>1 DEF Inv, Preserves

(* Steps that leave names and files alone. *)
LEMMA LookStep ==
    ASSUME Inv, NEW b \in Builders, Look(b) PROVE Preserves(b)
<1>1. Typed' /\ Own(b)
    BY DEF Inv, Typed, Look, Goto, Own, Places
<1>2. BuilderInv(b)'
    BY DEF Inv, Typed, BuilderInv, Look, Goto, Renamed
<1>3. QED
    BY <1>1, <1>2 DEF Preserves

LEMMA OpenStageStep ==
    ASSUME Inv, NEW b \in Builders, NEW works \in BOOLEAN, OpenStage(b, works) PROVE Preserves(b)
<1>1. names[b] = b /\ b \in Directories /\ token[b].dir = Absent
    BY DEF Inv, BuilderInv, OpenStage, Directories
<1>2. Typed' /\ Own(b)
    BY <1>1 DEF Inv, Typed, OpenStage, Goto, Own, Places
<1>3. BuilderInv(b)'
    BY <1>1, StagedAssumption DEF Inv, Typed, BuilderInv, OpenStage, Goto, Renamed
<1>4. QED
    BY <1>2, <1>3 DEF Preserves

LEMMA WrittenStep ==
    ASSUME Inv, NEW b \in Builders, Written(b) \/ WriteFails(b) PROVE Preserves(b)
<1>1. Typed' /\ Own(b)
    BY DEF Inv, Typed, Written, WriteFails, Goto, Own, Places
<1>2. BuilderInv(b)'
    BY DEF Inv, Typed, BuilderInv, Written, WriteFails, Goto, Renamed
<1>3. QED
    BY <1>1, <1>2 DEF Preserves

LEMMA CheckStageStep ==
    ASSUME Inv, NEW b \in Builders, CheckStage(b) \/ InstallFails(b) PROVE Preserves(b)
<1>1. Typed' /\ Own(b)
    BY DEF Inv, Typed, CheckStage, InstallFails, Goto, Own, Places
<1>2. BuilderInv(b)'
    BY DEF Inv, Typed, BuilderInv, CheckStage, InstallFails, Goto, Renamed
<1>3. QED
    BY <1>1, <1>2 DEF Preserves

LEMMA ConfirmStep ==
    ASSUME Inv, NEW b \in Builders, Confirm(b) PROVE Preserves(b)
<1>1. Typed' /\ Own(b)
    BY DEF Inv, Typed, Confirm, Goto, Own, Places
<1>2. BuilderInv(b)'
    BY DEF Inv, Typed, BuilderInv, Confirm, Goto, Renamed
<1>3. QED
    BY <1>1, <1>2 DEF Preserves

LEMMA SyncParentStep ==
    ASSUME Inv, NEW b \in Builders, NEW works \in BOOLEAN, SyncParent(b, works) PROVE Preserves(b)
<1>1. Typed' /\ Own(b)
    BY DEF Inv, Typed, SyncParent, Goto, Own, Places
<1>2. BuilderInv(b)'
    BY DEF Inv, Typed, BuilderInv, SyncParent, Goto, Renamed
<1>3. QED
    BY <1>1, <1>2 DEF Preserves

LEMMA EndingStep ==
    ASSUME Inv, NEW b \in Builders, CleanupEnds(b) \/ Kill(b) PROVE Preserves(b)
<1>1. Typed' /\ Own(b)
    BY DEF Inv, Typed, CleanupEnds, Kill, Goto, Own, Places
<1>2. BuilderInv(b)'
    BY DEF Inv, Typed, BuilderInv, CleanupEnds, Kill, Goto, Renamed
<1>3. QED
    BY <1>1, <1>2 DEF Preserves

(* Steps that change a name. *)
LEMMA MakeStageStep ==
    ASSUME Inv, NEW b \in Builders, NEW works \in BOOLEAN, MakeStage(b, works) PROVE Preserves(b)
<1>1. Typed' /\ Own(b)
    BY StagedAssumption DEF Inv, Typed, MakeStage, Goto, Own, Places, Names, Directories
<1>2. BuilderInv(b)'
    BY StagedAssumption DEF Inv, Typed, BuilderInv, MakeStage, Goto, Renamed, Names, Directories
<1>3. QED
    BY <1>1, <1>2 DEF Preserves

LEMMA InstallStep ==
    ASSUME Inv, NEW b \in Builders, Install(b) PROVE Preserves(b)
<1>1. CASE names[Dest] = Absent /\ names[b] # Absent
  <2>1. /\ at[b] = "install" /\ at' = [at EXCEPT ![b] = "confirm"] /\ files' = files
        /\ names' = [names EXCEPT ![Dest] = names[b], ![b] = Absent]
        /\ token' = [token EXCEPT ![b].published = TRUE]
    BY <1>1 DEF Install, Goto
  <2>2. /\ names[b] \in {b, Other} /\ token[b].dir = b /\ files[b] = Members
        /\ names'[Dest] = names[b] /\ names'[b] = Absent
        /\ token'[b].dir = b /\ token'[b].published = TRUE /\ at'[b] = "confirm"
    BY <1>1, <2>1, StagedAssumption DEF Inv, Typed, BuilderInv, Names
  <2>3. Typed' /\ Own(b)
    BY <1>1, <2>1, <2>2, StagedAssumption DEF Inv, Typed, Own, Places, Names, Directories
  <2>4. BuilderInv(b)'
    BY <2>1, <2>2 DEF BuilderInv, Renamed
  <2>5. QED
    BY <2>3, <2>4 DEF Preserves
<1>2. CASE ~(names[Dest] = Absent /\ names[b] # Absent)
  <2>1. Typed' /\ Own(b)
    BY <1>2 DEF Inv, Typed, Install, Goto, Own, Places
  <2>2. BuilderInv(b)'
    BY <1>2 DEF Inv, Typed, BuilderInv, Install, Goto, Renamed
  <2>3. QED
    BY <2>1, <2>2 DEF Preserves
<1>3. QED
    BY <1>1, <1>2

LEMMA OtherMovesStep ==
    ASSUME Inv, NEW b \in Builders, OtherMoves(b) PROVE Preserves(b)
<1>1. Typed' /\ Own(b)
    BY StagedAssumption DEF Inv, Typed, OtherMoves, Own, Names, Directories
<1>2. BuilderInv(b)'
    BY StagedAssumption DEF Inv, Typed, BuilderInv, OtherMoves, Renamed, Names
<1>3. QED
    BY <1>1, <1>2 DEF Preserves

(* Steps that change files. *)
LEMMA WriteStep ==
    ASSUME Inv, NEW b \in Builders, NEW member \in Members, Write(b, member) PROVE Preserves(b)
<1>1. token[b].dir = b /\ b \in Directories /\ Other # b
    BY StagedAssumption DEF Inv, BuilderInv, Write, Directories
<1>2. Typed' /\ Own(b)
    BY <1>1 DEF Inv, Typed, Write, Own, Directories
<1>3. BuilderInv(b)'
    BY <1>1 DEF Inv, Typed, BuilderInv, Write, Renamed
<1>4. QED
    BY <1>2, <1>3 DEF Preserves

LEMMA CleanupStep ==
    ASSUME Inv, NEW b \in Builders, NEW member \in Members, Cleanup(b, member) PROVE Preserves(b)
<1>1. token[b].dir = b /\ b \in Directories /\ Other # b
    BY StagedAssumption DEF Inv, BuilderInv, Cleanup, Removes, Directories
<1>2. Typed' /\ Own(b)
    BY <1>1 DEF Inv, Typed, Cleanup, Removes, Own, Directories
<1>3. BuilderInv(b)'
    BY <1>1 DEF Inv, Typed, BuilderInv, Cleanup, Removes, Renamed
<1>4. QED
    BY <1>2, <1>3 DEF Preserves

(* Another program takes the free name of the output. *)
LEMMA OtherPublishesStep ==
    ASSUME Inv, OtherPublishes
    PROVE  Inv' /\ names[Dest] = Absent /\ files' = files
<1>1. Typed'
    BY StagedAssumption DEF Inv, Typed, OtherPublishes, Names, Directories
<1>2. ASSUME NEW b \in Builders PROVE BuilderInv(b)'
    BY StagedAssumption DEF Inv, Typed, BuilderInv, OtherPublishes, Renamed, Names
<1>3. QED
    BY <1>1, <1>2 DEF Inv, OtherPublishes

(* Every step is some builder's, or takes the free name. *)
LEMMA EveryStep ==
    ASSUME Inv, Next
    PROVE  \/ \E b \in Builders : Preserves(b)
           \/ Inv' /\ names[Dest] = Absent /\ files' = files
    BY LookStep, OpenStageStep, WrittenStep, CheckStageStep, ConfirmStep, SyncParentStep, EndingStep,
       MakeStageStep, InstallStep, OtherMovesStep, WriteStep, CleanupStep, OtherPublishesStep DEF Next

LEMMA InvariantHolds == Spec => []Inv
<1>1. Inv /\ [Next]_stagedVars => Inv'
  <2> SUFFICES ASSUME Inv, [Next]_stagedVars PROVE Inv'
    OBVIOUS
  <2>1. CASE Next
    BY <2>1, EveryStep, OthersKeep
  <2>2. CASE UNCHANGED stagedVars
    BY <2>2 DEF stagedVars, Inv, Typed, BuilderInv, Renamed
  <2>3. QED
    BY <2>1, <2>2
<1>2. QED
    BY <1>1, InitialState, PTL DEF Spec

(* The output is all of one build or another program's directory, and a    *)
(* builder that reports success made it: publish_no_replace, cleanup_stage. *)
THEOREM PublishedOutputIsWhole == Spec => []OutputIsWhole
<1>1. Inv => OutputIsWhole
    BY DEF Inv, BuilderInv, OutputIsWhole
<1>2. QED
    BY <1>1, InvariantHolds, PTL

(* Nobody replaces the output, and a builder writes into and removes from  *)
(* no directory but the one it made, whatever its stage's name means.      *)
THEOREM PublishersLeaveOthersAlone == Spec => OthersAreLeftAlone
<1> DEFINE Alone ==
        /\ names[Dest] # Absent => names'[Dest] = names[Dest]
        /\ files'[Other] = files[Other]
        /\ \A b \in Builders :
            files'[b] # files[b] => at[b] \in {"write", "cleanup"} /\ token[b].dir = b
<1>1. ASSUME Inv, Next PROVE Alone
  <2>1. ASSUME NEW b \in Builders, Preserves(b) PROVE Alone
    BY <2>1 DEF Preserves, Own
  <2>2. CASE Inv' /\ names[Dest] = Absent /\ files' = files
    BY <2>2
  <2>3. QED
    BY <1>1, <2>1, <2>2, EveryStep
<1>2. Inv /\ [Next]_stagedVars => [Alone]_stagedVars
    BY <1>1
<1>3. QED
    BY <1>2, InvariantHolds, PTL DEF Spec, OthersAreLeftAlone
=============================================================================
