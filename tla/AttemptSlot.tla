------------------------------ MODULE AttemptSlot ------------------------------
(***************************************************************************)
(* phase3_exact_publication.py: the ledger that gives an experiment slot   *)
(* to one invocation, the attempt directory that invocation publishes in,  *)
(* and the readers that accept only a closed directory; any of them beside *)
(* the others, with calls that fail, invocations that die and the machine  *)
(* losing power.  What is not yet forced to disk then survives or does     *)
(* not.  The work between reservation and publication is one step here     *)
(* (ExactAttempt models it).  The directories of the ledger itself are     *)
(* taken to be on disk already.                                            *)
(***************************************************************************)
EXTENDS Naturals

CONSTANTS
    Attempts,       \* the invocations
    Slots, SlotOf,  \* the (manifest, platform selector, ordinal) of each
    Dirs, DirOf,    \* parent_root / attempt_id of each
    Readers,        \* calls of read_attempt
    MemberCount,    \* FILE_NAMES: result, receipt, index
    RecordCanFail,  \* whether writing a terminal record may fail
    MaxPowerLosses, \* bound: how often the power goes
    NoOne

ASSUME SlotAssumption ==
    /\ SlotOf \in [Attempts -> Slots] /\ DirOf \in [Attempts -> Dirs]
    /\ NoOne \notin Attempts
    /\ MemberCount \in Nat \ {0} /\ RecordCanFail \in BOOLEAN /\ MaxPowerLosses \in Nat

VARIABLES
    marker,     \* per slot: whose ordinal-N.json is there, and whether it is on disk
    directory,  \* per path: who made it, its mode and members, and what is on disk of it
    at,         \* where each invocation is
    executed,   \* history: who started candidate processes
    reading,    \* per reader: the directory, where it is, the metadata it saw first
    losses

slotVars == <<marker, directory, at, executed, reading, losses>>

NoMarker == [by |-> NoOne, durable |-> FALSE]

(* Members are written in order: `whole` of them, the next one maybe in    *)
(* part.  `disk` is the last state an fsync forced out: the empty private  *)
(* directory, the closed one, or all there is.                             *)
NoDirectory == [by |-> NoOne, durable |-> FALSE, closed |-> FALSE, whole |-> 0,
                part |-> FALSE, terminal |-> "absent", disk |-> "empty"]

Ended == {"published", "failed", "unreserved", "refused", "crashed"}

SlotInit ==
    /\ marker = [s \in Slots |-> NoMarker]
    /\ directory = [d \in Dirs |-> NoDirectory]
    /\ at = [p \in Attempts |-> "ready"]
    /\ executed = {}
    /\ reading = [r \in Readers |-> [at |-> "idle", dir |-> NoOne, seen |-> <<>>]]
    /\ losses = 0

-----------------------------------------------------------------------------
(* The invocation. *)

Goto(p, next) == at' = [at EXCEPT ![p] = next]

Own(p) == directory[DirOf[p]]

(* Everything before the reservation only reads: it may refuse.            *)
Refuse(p) ==
    /\ at[p] = "ready"
    /\ Goto(p, "refused")
    /\ UNCHANGED <<marker, directory, executed, reading, losses>>

(* _reserve_slot_marker: O_EXCL gives the slot to one.  The marker does    *)
(* not say which attempt may continue: whoever finds one is refused.       *)
CreateMarker(p) ==
    /\ at[p] = "ready"
    /\ IF marker[SlotOf[p]].by = NoOne
       THEN /\ marker' = [marker EXCEPT ![SlotOf[p]] = [by |-> p, durable |-> FALSE]]
            /\ Goto(p, "marked")
       ELSE Goto(p, "refused") /\ UNCHANGED marker
    /\ UNCHANGED <<directory, executed, reading, losses>>

PersistMarkerNot(p) ==                         \* mutant: the ledger directories are not fsynced
    /\ at[p] = "marked"
    /\ Goto(p, "persisted")
    /\ UNCHANGED <<marker, directory, executed, reading, losses>>

PersistMarker(p) ==
    /\ at[p] = "marked"
    /\ marker' = [marker EXCEPT ![SlotOf[p]].durable = TRUE]
    /\ Goto(p, "persisted")
    /\ UNCHANGED <<directory, executed, reading, losses>>

MakeDirectoryOrReuse(p) ==                     \* mutant: an existing directory is taken over
    /\ at[p] = "persisted"
    /\ directory' = [directory EXCEPT ![DirOf[p]] =
            IF @.by = NoOne THEN [NoDirectory EXCEPT !.by = p] ELSE [@ EXCEPT !.by = p]]
    /\ Goto(p, "made")
    /\ UNCHANGED <<marker, executed, reading, losses>>

(* _reserve_attempt_for_test: a directory that exists is a collision, and  *)
(* the marker is deliberately kept.                                        *)
MakeDirectory(p) ==
    /\ at[p] = "persisted"
    /\ IF Own(p).by = NoOne
       THEN /\ directory' = [directory EXCEPT ![DirOf[p]] = [NoDirectory EXCEPT !.by = p]]
            /\ Goto(p, "made")
       ELSE Goto(p, "unreserved") /\ UNCHANGED directory
    /\ UNCHANGED <<marker, executed, reading, losses>>

PersistDirectory(p) ==
    /\ at[p] = "made"
    /\ directory' = [directory EXCEPT ![DirOf[p]].durable = TRUE]
    /\ Goto(p, "issued")
    /\ UNCHANGED <<marker, executed, reading, losses>>

(* A write, fsync or check of the reservation raises: no handle, no record. *)
ReserveFails(p) ==
    /\ at[p] \in {"marked", "persisted", "made"}
    /\ Goto(p, "unreserved")
    /\ UNCHANGED <<marker, directory, executed, reading, losses>>

Execute(p) ==
    /\ at[p] = "issued"
    /\ executed' = executed \cup {p}
    /\ Goto(p, "running")
    /\ UNCHANGED <<marker, directory, reading, losses>>

(* The driver raises before it publishes, or publication finds the         *)
(* evidence or the reservation wrong: a terminal record is due.            *)
WorkFails(p) ==
    /\ at[p] \in {"issued", "running"}
    /\ Goto(p, "terminal")
    /\ UNCHANGED <<marker, directory, executed, reading, losses>>

Publish(p) ==
    /\ at[p] = "running"
    /\ Goto(p, "write")
    /\ UNCHANGED <<marker, directory, executed, reading, losses>>

BeginMemberAgain(p) ==                         \* mutant: the fixed list of names is overrun
    /\ at[p] = "write" /\ ~Own(p).part
    /\ directory' = [directory EXCEPT ![DirOf[p]].part = TRUE]
    /\ UNCHANGED <<marker, at, executed, reading, losses>>

BeginMember(p) ==
    /\ at[p] = "write" /\ ~Own(p).part /\ Own(p).whole < MemberCount
    /\ directory' = [directory EXCEPT ![DirOf[p]].part = TRUE]
    /\ UNCHANGED <<marker, at, executed, reading, losses>>

FinishMember(p) ==
    /\ at[p] = "write" /\ Own(p).part
    /\ directory' = [directory EXCEPT ![DirOf[p]].part = FALSE, ![DirOf[p]].whole = @ + 1]
    /\ UNCHANGED <<marker, at, executed, reading, losses>>

CloseDirectory(p) ==
    /\ at[p] = "write" /\ Own(p).whole = MemberCount
    /\ directory' = [directory EXCEPT ![DirOf[p]].closed = TRUE]
    /\ Goto(p, "sync")
    /\ UNCHANGED <<marker, executed, reading, losses>>

SyncDirectory(p) ==
    /\ at[p] = "sync"
    /\ directory' = [directory EXCEPT ![DirOf[p]].disk = "closed"]
    /\ Goto(p, "closure")
    /\ UNCHANGED <<marker, executed, reading, losses>>

(* _verify_closure, then _verify_final_named_paths. *)
VerifyClosure(p) ==
    /\ at[p] = "closure"
    /\ Goto(p, "paths")
    /\ UNCHANGED <<marker, directory, executed, reading, losses>>

VerifyNames(p) ==
    /\ at[p] = "paths"
    /\ Goto(p, "published")
    /\ UNCHANGED <<marker, directory, executed, reading, losses>>

(* A PublicationError: a member could not be written, or a check failed.   *)
PublishFails(p) ==
    /\ \/ at[p] \in {"closure", "paths"}
       \/ at[p] = "write" /\ Own(p).whole < MemberCount
    /\ Goto(p, "terminal")
    /\ UNCHANGED <<marker, directory, executed, reading, losses>>

(* The fchmod, the two fsyncs, and some of the fstats before the members   *)
(* and in the check of the names, are called bare: their OSError takes the *)
(* other handler, which writes no record.                                  *)
FailUnrecorded(p) ==
    /\ \/ at[p] \in {"running", "sync", "paths"}
       \/ at[p] = "write" /\ Own(p).whole = MemberCount
    /\ Goto(p, "failed")
    /\ UNCHANGED <<marker, directory, executed, reading, losses>>

(* _write_terminal_failure_locked *)
ReopenPrivate(p) ==
    /\ at[p] = "terminal"
    /\ directory' = [directory EXCEPT ![DirOf[p]].closed = FALSE]
    /\ Goto(p, "record")
    /\ UNCHANGED <<marker, executed, reading, losses>>

BeginRecord(p) ==
    /\ at[p] = "record" /\ Own(p).terminal = "absent"
    /\ directory' = [directory EXCEPT ![DirOf[p]].terminal = "part"]
    /\ UNCHANGED <<marker, at, executed, reading, losses>>

FinishRecord(p) ==
    /\ at[p] = "record" /\ Own(p).terminal = "part"
    /\ directory' = [directory EXCEPT ![DirOf[p]].terminal = "whole", ![DirOf[p]].disk = "all"]
    /\ Goto(p, "failed")
    /\ UNCHANGED <<marker, executed, reading, losses>>

RecordFails(p) ==
    /\ RecordCanFail /\ at[p] \in {"terminal", "record"}
    /\ Goto(p, "failed")
    /\ UNCHANGED <<marker, directory, executed, reading, losses>>

Crash(p) ==
    /\ at[p] \notin Ended
    /\ Goto(p, "crashed")
    /\ UNCHANGED <<marker, directory, executed, reading, losses>>

-----------------------------------------------------------------------------
(* The power goes: every process that runs ends, and what was not forced   *)
(* to disk is there or not.  Who has not begun yet runs after the restart. *)

SurvivingMarkers(s) ==
    IF marker[s].durable THEN {marker[s]}
    ELSE {NoMarker, [marker[s] EXCEPT !.durable = marker[s].by # NoOne]}

Recovered(now, n, closed, terminal) ==
    [now EXCEPT !.durable = TRUE, !.whole = n, !.closed = closed, !.terminal = terminal,
                !.part = @ /\ n = now.whole, !.disk = "all"]

SurvivingDirectories(d) ==
    LET now == directory[d]
    IN IF now.by = NoOne THEN {NoDirectory}
       ELSE (IF now.durable THEN {} ELSE {NoDirectory}) \cup
            {Recovered(now, n, closed, terminal) :
                n \in IF now.disk = "empty" THEN 0..now.whole ELSE {now.whole},
                closed \in IF now.disk = "all" THEN {now.closed} ELSE {now.disk = "closed", now.closed},
                terminal \in IF now.disk = "all" THEN {now.terminal} ELSE {"absent", now.terminal}}

PowerLoss ==
    /\ losses < MaxPowerLosses
    /\ losses' = losses + 1
    /\ marker' \in [Slots -> UNION {SurvivingMarkers(s) : s \in Slots}]
    /\ \A s \in Slots : marker'[s] \in SurvivingMarkers(s)
    /\ directory' \in [Dirs -> UNION {SurvivingDirectories(d) : d \in Dirs}]
    /\ \A d \in Dirs : directory'[d] \in SurvivingDirectories(d)
    /\ at' = [p \in Attempts |-> IF at[p] \in Ended \cup {"ready"} THEN at[p] ELSE "crashed"]
    /\ reading' = [r \in Readers |-> IF reading[r].at \in {"idle", "accepted"} THEN reading[r]
                                     ELSE [reading[r] EXCEPT !.at = "rejected"]]
    /\ UNCHANGED executed

-----------------------------------------------------------------------------
(* read_attempt: metadata before, the layout and the members, the layout   *)
(* and the members again, metadata after.                                  *)

Complete(d) ==
    /\ directory[d].whole = MemberCount /\ ~directory[d].part
    /\ directory[d].terminal = "absent"

Metadata(d) ==
    <<directory[d].by, directory[d].closed, directory[d].whole, directory[d].part, directory[d].terminal>>

Read(r, next) == reading' = [reading EXCEPT ![r].at = next]

OpenAttempt(r, d) ==
    /\ reading[r].at = "idle"
    /\ reading' = [reading EXCEPT ![r] =
            IF directory[d].by # NoOne /\ directory[d].closed
            THEN [at |-> "members", dir |-> d, seen |-> Metadata(d)]
            ELSE [@ EXCEPT !.at = "rejected"]]
    /\ UNCHANGED <<marker, directory, at, executed, losses>>

ReadMembers(r) ==
    /\ reading[r].at = "members"
    /\ Read(r, IF Complete(reading[r].dir) THEN "again" ELSE "rejected")
    /\ UNCHANGED <<marker, directory, at, executed, losses>>

ReadAgain(r) ==
    /\ reading[r].at = "again"
    /\ Read(r, IF Complete(reading[r].dir) THEN "final" ELSE "rejected")
    /\ UNCHANGED <<marker, directory, at, executed, losses>>

FinishReadUnchecked(r) ==                      \* mutant: metadata is not compared again
    /\ reading[r].at = "final"
    /\ Read(r, "accepted")
    /\ UNCHANGED <<marker, directory, at, executed, losses>>

FinishRead(r) ==
    /\ reading[r].at = "final"
    /\ Read(r, IF Metadata(reading[r].dir) = reading[r].seen THEN "accepted" ELSE "rejected")
    /\ UNCHANGED <<marker, directory, at, executed, losses>>

-----------------------------------------------------------------------------
Reserve(p) ==
    CreateMarker(p) \/ PersistMarker(p) \/ MakeDirectory(p) \/ PersistDirectory(p)

WriteAttempt(p) ==
    Publish(p) \/ BeginMember(p) \/ FinishMember(p) \/ CloseDirectory(p)
        \/ SyncDirectory(p) \/ VerifyClosure(p) \/ VerifyNames(p)

Record(p) == ReopenPrivate(p) \/ BeginRecord(p) \/ FinishRecord(p)

Mishap(p) ==
    Refuse(p) \/ ReserveFails(p) \/ WorkFails(p) \/ PublishFails(p) \/ FailUnrecorded(p)
        \/ RecordFails(p) \/ Crash(p)

ReadStep(r) ==
    (\E d \in Dirs : OpenAttempt(r, d)) \/ ReadMembers(r) \/ ReadAgain(r) \/ FinishRead(r)

SlotNext ==
    \/ \E p \in Attempts : Reserve(p) \/ Execute(p) \/ WriteAttempt(p) \/ Record(p) \/ Mishap(p)
    \/ \E r \in Readers : ReadStep(r)
    \/ PowerLoss

SlotSpec == SlotInit /\ [][SlotNext]_slotVars

-----------------------------------------------------------------------------
(* Properties *)

Steps == {"ready", "marked", "persisted", "made", "issued", "running", "write", "sync",
          "closure", "paths", "terminal", "record"} \cup Ended

SlotTypeOK ==
    /\ marker \in [Slots -> [by : Attempts \cup {NoOne}, durable : BOOLEAN]]
    /\ directory \in [Dirs -> [by : Attempts \cup {NoOne}, durable : BOOLEAN, closed : BOOLEAN,
                               whole : 0..MemberCount, part : BOOLEAN,
                               terminal : {"absent", "part", "whole"},
                               disk : {"empty", "closed", "all"}]]
    /\ at \in [Attempts -> Steps]
    /\ executed \subseteq Attempts
    /\ DOMAIN reading = Readers
    /\ losses \in 0..MaxPowerLosses

(* At most one invocation ever executes a candidate for a slot, whatever   *)
(* fails, dies or loses power in between: the marker is on disk before     *)
(* anything runs, and is never given back.                                 *)
OneExecutionPerSlot ==
    \A p, q \in executed : SlotOf[p] = SlotOf[q] => p = q

(* The ledger and the directories implement the contract of the slots.     *)
Contract == INSTANCE SlotContract WITH
    owner <- [s \in Slots |-> marker[s].by],
    executed <- executed,
    evidence <- [d \in Dirs |-> IF directory[d].closed /\ Complete(d)
                                THEN directory[d].by ELSE NoOne]

ImplementsSlotContract == Contract!Spec

(* A reader accepts only what is, at that moment, a closed directory with  *)
(* every member whole and no terminal record, made by an invocation that   *)
(* executed and whose slot cannot be consumed again.                       *)
AcceptedAttemptIsClosed ==
    [][\A r \in Readers :
        reading'[r].at = "accepted" /\ reading[r].at # "accepted" =>
            LET d == reading[r].dir
                p == directory[d].by
            IN /\ directory[d].closed /\ Complete(d)
               /\ p \in executed /\ DirOf[p] = d
               /\ marker[SlotOf[p]] = [by |-> p, durable |-> TRUE]]_slotVars

(* write_terminal_failure: "A reservation that fails after acquisition     *)
(* must not disappear as merely an empty marker: closure needs a terminal  *)
(* record to distinguish a recorded failed/inconclusive attempt from an    *)
(* abandoned invocation."                                                  *)
FailedAttemptHasRecord ==
    \A p \in Attempts : at[p] = "failed" => Own(p).terminal = "whole"
=============================================================================
